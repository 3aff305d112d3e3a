------------------------------- MODULE PushBuf ------------------------------
(***************************************************************************)
(* The push buffer of sptsmuxer.c: sptsmuxer_push_packet_cb collects       *)
(* pushbufsize packets before it pushes one buffer downstream.  The memory *)
(* is a global of the plugin, so the muxers of one process share it, while *)
(* its fill level and its size are fields of each muxer.  The callback     *)
(* runs on the streaming thread of its muxer; the application sets the     *)
(* size from another thread, when it likes, or never.  Nothing takes a     *)
(* lock, so the callback is split at each place where it reads what        *)
(* another thread may write.                                               *)
(***************************************************************************)
EXTENDS Integers, Sequences

CONSTANTS
  Muxers,       (* the sptsmuxer elements of the process                    *)
  Sizes,        (* values the application sets pushbufsize to               *)
  MaxPackets    (* bound: packets each muxer writes                         *)

ASSUME PushBufAssumption == Sizes \subseteq Nat /\ MaxPackets \in Nat

VARIABLES
  pushbuf,       (* the memory, a sequence of packets; << >> is NULL        *)
  pushbufsize,
  pushbufused,
  pc,            (* where each callback is; "idle" outside of it            *)
  handed,        (* packets the callback was called with                    *)
  failures,      (* allocations that failed                                 *)
  pushed,        (* packets' worth of bytes that went downstream            *)
  out,           (* the buffer pushed last: its bytes, and those staged     *)
  overrun,       (* a packet was written outside the memory                 *)
  inUse,         (* the sizes that muxers had once their packets came       *)
  misset         (* muxers that had size 0 for a packet, or missed a size   *)

vars == << pushbuf, pushbufsize, pushbufused, pc, handed, failures, pushed, out,
           overrun, inUse, misset >>

(* Packet i of muxer m, and bytes nobody wrote.                            *)
Packet(m, i) == << m, i >>
Unwritten    == << >>

Slot(i) == IF i \in DOMAIN pushbuf THEN pushbuf[i] ELSE Unwritten

(* GObject clears the fields of an instance, and sptsmuxer_init does not   *)
(* touch the size: the default of the property is never assigned.          *)
Init ==
  /\ pushbuf = << >>
  /\ pushbufsize = [m \in Muxers |-> 0]
  /\ pushbufused = [m \in Muxers |-> 0]
  /\ pc = [m \in Muxers |-> "idle"]
  /\ handed  = [m \in Muxers |-> 0]
  /\ failures = 0
  /\ pushed  = [m \in Muxers |-> 0]
  /\ out = [m \in Muxers |-> [data |-> << >>, staged |-> << >>]]
  /\ overrun = FALSE
  /\ inUse = {}
  /\ misset = {}

(* A size at which the comparison of the callback finds the fill level     *)
(* already past it, now or after the store that is due, or that comes      *)
(* after the comparison and before the fill level is reset.                *)
Misses(m, size) ==
  /\ size # pushbufsize[m]
  /\ \/ pc[m] \in {"idle", "allocate", "store"} /\ size <= pushbufused[m]
     \/ pc[m] = "compare" /\ size < pushbufused[m]
     \/ pc[m] = "push"

SetProperty(m, size) ==
  /\ pushbufsize' = [pushbufsize EXCEPT ![m] = size]
  /\ IF handed[m] = 0
     THEN UNCHANGED << inUse, misset >>
     ELSE /\ inUse' = inUse \cup {size}
          /\ misset' = misset \cup {k \in {m} : Misses(m, size)}
  /\ UNCHANGED << pushbuf, pushbufused, pc, handed, failures, pushed, out, overrun >>

-----------------------------------------------------------------------------
(* sptsmuxer_push_packet_cb.                                               *)

Call(m) ==
  /\ pc[m] = "idle"
  /\ handed[m] < MaxPackets
  /\ handed' = [handed EXCEPT ![m] = @ + 1]
  /\ inUse' = inUse \cup {pushbufsize[m]}
  /\ misset' = misset \cup {k \in {m} : pushbufsize[m] = 0}
  /\ pc' = [pc EXCEPT ![m] = IF pushbuf = << >> THEN "allocate" ELSE "store"]
  /\ UNCHANGED << pushbuf, pushbufsize, pushbufused, failures, pushed, out, overrun >>

(* g_malloc of 0 bytes returns NULL, which the callback takes for an error.*)
Allocate(m) ==
  /\ pc[m] = "allocate"
  /\ pushbufused' = [pushbufused EXCEPT ![m] = 0]
  /\ pushbuf' = [i \in 1..pushbufsize[m] |-> Unwritten]
  /\ IF pushbufsize[m] = 0
     THEN /\ failures' = failures + 1
          /\ pc' = [pc EXCEPT ![m] = "idle"]
     ELSE /\ pc' = [pc EXCEPT ![m] = "store"]
          /\ UNCHANGED failures
  /\ UNCHANGED << pushbufsize, handed, pushed, out, overrun, inUse, misset >>

(* The store, which the comparison keeps inside pushbufsize packets.       *)
StorePacketAtLast(m) ==
  /\ pushbuf' = [pushbuf EXCEPT ![pushbufsize[m]] = Packet(m, handed[m])]
  /\ overrun' = (overrun \/ pushbufsize[m] > Len(pushbuf))
  /\ pushbufused' = [pushbufused EXCEPT ![m] = @ + 1]
StorePacketTooHigh(m) ==
  /\ overrun' = (overrun \/ pushbufused[m] + 2 > Len(pushbuf))
  /\ pushbuf' = [pushbuf EXCEPT ![pushbufused[m] + 2] = Packet(m, handed[m])]
  /\ pushbufused' = [pushbufused EXCEPT ![m] = @ + 1]
StorePacket(m) ==
  /\ pushbuf' = [pushbuf EXCEPT ![pushbufused[m] + 1] = Packet(m, handed[m])]
  /\ overrun' = (overrun \/ pushbufused[m] + 1 > Len(pushbuf))
  /\ pushbufused' = [pushbufused EXCEPT ![m] = @ + 1]

Store(m) ==
  /\ pc[m] = "store"
  /\ IF pushbufused[m] < pushbufsize[m]
     THEN StorePacket(m)
     ELSE UNCHANGED << pushbuf, overrun, pushbufused >>
  /\ pc' = [pc EXCEPT ![m] = "compare"]
  /\ UNCHANGED << pushbufsize, handed, failures, pushed, out, inUse, misset >>

Compare(m) ==
  /\ pc[m] = "compare"
  /\ pc' = [pc EXCEPT ![m] = IF pushbufused[m] = pushbufsize[m] THEN "push" ELSE "idle"]
  /\ UNCHANGED << pushbuf, pushbufsize, pushbufused, handed, failures, pushed, out,
                  overrun, inUse, misset >>

(* A new buffer of pushbufsize packets goes downstream.  Nothing is copied *)
(* into it from the push buffer: `staged' is what was there to copy.  The  *)
(* result of gst_pad_push is ignored.                                      *)
EmptyAfterPushForgotten(m) == UNCHANGED pushbufused
EmptyAfterPushOneMore(m) == pushbufused' = [pushbufused EXCEPT ![m] = @ - pushbufsize[m] - 1]
EmptyAfterPush(m) == pushbufused' = [pushbufused EXCEPT ![m] = 0]

Push(m) ==
  /\ pc[m] = "push"
  /\ out' = [out EXCEPT ![m] = [data   |-> [i \in 1..pushbufsize[m] |-> Unwritten],
                                staged |-> [i \in 1..pushbufsize[m] |-> Slot(i)]]]
  /\ pushed' = [pushed EXCEPT ![m] = @ + pushbufsize[m]]
  /\ EmptyAfterPush(m)
  /\ pc' = [pc EXCEPT ![m] = "idle"]
  /\ UNCHANGED << pushbuf, pushbufsize, handed, failures, overrun, inUse, misset >>

(* The streams have ended: nobody calls any more.                          *)
Ended ==
  /\ \A m \in Muxers : pc[m] = "idle" /\ handed[m] = MaxPackets
  /\ UNCHANGED vars

-----------------------------------------------------------------------------
Callback(m) == Call(m) \/ Allocate(m) \/ Store(m) \/ Compare(m) \/ Push(m)

Next ==
  \/ \E m \in Muxers : Callback(m)
  \/ \E m \in Muxers, size \in Sizes : SetProperty(m, size)
  \/ Ended

Spec == Init /\ [][Next]_vars

-----------------------------------------------------------------------------
TypeOK ==
  /\ pushbufsize \in [Muxers -> Sizes \cup {0}]
  /\ pushbufused \in [Muxers -> Nat]
  /\ pc \in [Muxers -> {"idle", "allocate", "store", "compare", "push"}]
  /\ handed \in [Muxers -> 0..MaxPackets]
  /\ failures \in Nat
  /\ pushed \in [Muxers -> Nat]
  /\ overrun \in BOOLEAN
  /\ inUse \subseteq Sizes \cup {0}
  /\ misset \subseteq Muxers

(* "Return FALSE on error and TRUE on success" (sptsmuxer.c:207): a packet *)
(* for which sptsmuxer_push_packet_cb returned TRUE went downstream or     *)
(* still waits in the push buffer, and none is counted twice, unless the   *)
(* muxer missed its own size.  An allocation that fails, of any muxer,     *)
(* makes the memory of all of them NULL, and each of the others may then   *)
(* forget what it held (sptsmuxer.c:219): less than one buffer, once for   *)
(* every failure.  Whatever else is done to the sizes of the others loses  *)
(* nothing.                                                                *)
Accounted ==
  \A m \in Muxers : m \notin misset /\ pc[m] = "idle" /\ handed[m] > 0 =>
    LET lost == handed[m] - pushed[m] - pushbufused[m]
    IN  lost >= 0 /\ \E s \in inUse : lost <= failures * (s - 1)

(* Between calls less than a buffer is held back: a full one is pushed by  *)
(* the call that fills it, whoever else uses the memory, or fails to       *)
(* allocate it, meanwhile.                                                 *)
HeldBack ==
  \A m \in Muxers : m \notin misset /\ pc[m] = "idle" /\ handed[m] > 0 =>
    pushbufused[m] < pushbufsize[m]

(* "Push Buffer Size, n means n*188 bytes" (sptsmuxer.c:145): the memory   *)
(* has room for every packet that the callback stores, if muxers never had *)
(* more than one size once their packets came.                             *)
WritesInside == (\A s, t \in inUse : s = t) => ~overrun

(* As the property of each element promises it: room for its own size, if  *)
(* the callback missed no size.                                            *)
RoomForAll == misset = {} => ~overrun

(* A muxer that missed no size, in a process where no allocation failed.   *)
Undisturbed(m) == m \notin misset /\ failures = 0

(* What is staged when a buffer is pushed are the last pushbufsize packets *)
(* of that muxer, in order (sptsmuxer.c:229).  Another muxer may have lost *)
(* some of them, or they lie beyond the memory of a size since raised, but *)
(* none is out of its place, and none comes twice.                         *)
LastPackets(m, size) == [i \in 1..size |-> Packet(m, pushed[m] - size + i)]
Shared(m)     == \E k \in Muxers \ {m} : handed[k] > 0
Lost(m, slot) == \A i \in 1..handed[m] : slot # Packet(m, i)
StagedInOrder ==
  \A m \in Muxers : Undisturbed(m) =>
    LET staged == out[m].staged
    IN  \A i \in DOMAIN staged :
          \/ staged[i] = LastPackets(m, Len(staged))[i]
          \/ Lost(m, staged[i]) /\ (Shared(m) \/ i > Len(pushbuf))

(* "Multiplexes element streams into an single program MPEG Transport      *)
(* Stream" (sptsmuxer.c:113): what goes downstream are those packets.      *)
OutputIsPackets ==
  \A m \in Muxers : Undisturbed(m) => out[m].data = LastPackets(m, Len(out[m].data))
=============================================================================
