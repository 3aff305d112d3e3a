---------------------------- MODULE EarliestFirst ---------------------------
(***************************************************************************)
(* What a multiplexer promises of the order in which it takes its buffers, *)
(* whatever loop it uses to choose: it takes one only when every pad that  *)
(* takes part has a buffer or has ended, and then an earliest one.  Only a *)
(* buffer without a timestamp may come before its turn.                    *)
(***************************************************************************)
EXTENDS Integers

CONSTANTS
  Pads,     (* that may take part                                           *)
  Times,    (* natural numbers                                              *)
  Untimed   (* instead of the time of a buffer that has none                *)

VARIABLES
  members,  (* the pads that take part                                      *)
  queued,   (* the buffer each pad holds: << >> or << its time >>           *)
  ended     (* the pads that will bring no more                             *)

vars == << members, queued, ended >>

Init ==
  /\ members = {}
  /\ queued = [p \in Pads |-> << >>]
  /\ ended = {}

Join ==
  /\ members' \in SUBSET Pads
  /\ members \subseteq members'
  /\ UNCHANGED << queued, ended >>

Arrive(p, t) ==
  /\ queued[p] = << >>
  /\ queued' = [queued EXCEPT ![p] = << t >>]
  /\ UNCHANGED << members, ended >>

End(p) ==
  /\ queued[p] = << >>
  /\ ended' = ended \cup {p}
  /\ UNCHANGED << members, queued >>

Earliest(p) ==
  \A q \in members : queued[q] # << >> => queued[p][1] <= queued[q][1]

Take(p) ==
  /\ p \in members
  /\ queued[p] # << >>
  /\ \A q \in members : queued[q] # << >> \/ q \in ended
  /\ queued[p][1] = Untimed \/ Earliest(p)
  /\ queued' = [queued EXCEPT ![p] = << >>]
  /\ UNCHANGED << members, ended >>

Restart ==
  /\ queued' = [p \in Pads |-> << >>]
  /\ ended' = {}
  /\ UNCHANGED members

Next ==
  \/ Join
  \/ \E p \in Pads, t \in Times \cup {Untimed} : Arrive(p, t)
  \/ \E p \in Pads : End(p) \/ Take(p)
  \/ Restart

Spec == Init /\ [][Next]_vars
=============================================================================
