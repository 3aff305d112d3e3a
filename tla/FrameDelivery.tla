---------------------------- MODULE FrameDelivery ---------------------------
(***************************************************************************)
(* What a multiplexer promises its users, and all it promises: a frame it  *)
(* accepts reaches the receiver, whole, with its timestamp, in the order   *)
(* in which the frames of its stream were accepted.                        *)
(***************************************************************************)
EXTENDS Sequences

CONSTANTS
  Pids,    (* the elementary streams                                        *)
  Frames   (* the frames a receiver can tell apart                          *)

VARIABLES
  inFlight,   (* << >>, or the stream and frame accepted last               *)
  delivered   (* the frames received, by stream                             *)

Init ==
  /\ inFlight = << >>
  /\ delivered = [p \in Pids |-> << >>]

Accept(p, f) ==
  /\ inFlight = << >>
  /\ inFlight' = << p, f >>
  /\ UNCHANGED delivered

Deliver ==
  /\ inFlight # << >>
  /\ delivered' = [delivered EXCEPT ![inFlight[1]] = Append(@, inFlight[2])]
  /\ inFlight' = << >>

Next == Deliver \/ \E p \in Pids, f \in Frames : Accept(p, f)

Spec == Init /\ [][Next]_<< inFlight, delivered >>

(* And it gets there.                                                      *)
FairSpec == Spec /\ WF_<< inFlight, delivered >>(Deliver)
=============================================================================
