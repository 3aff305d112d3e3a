------------------------------ MODULE SptsProps -----------------------------
(***************************************************************************)
(* What is checked, and in part proved, of Spts.                           *)
(***************************************************************************)
EXTENDS Spts

Writing == {"pad", "pmt", "gop", "head", "tail"}

HeaderType ==
  [pid : CcPids, pusi : BOOLEAN, afc : {PAYLOAD_ONLY, ADAPTATION_AND_PAYLOAD}, cc : 0..15]

StreamType ==
  [header : HeaderType, pcr_reference : BOOLEAN,
   packets_counter : Nat, last_gop_packets_counter : Nat, max_gop_packets : Nat,
   frames_counter : Nat, last_gop_frames_counter : Nat, pes_packet_length : Nat]

FrameType ==
  [kind : Kinds \cup {"none"}, n : 0..MaxPads, idr : BOOLEAN,
   size : Nat, pts : Nat, at : Nat]

(* Every variable keeps its type.  The counters of the code are unsigned,  *)
(* so this says in particular that pes_packet_length never wraps below 0:  *)
(* no packet takes more bytes than the frame has left (spts.c:433-475).    *)
TypeOK ==
  /\ first \in BOOLEAN
  /\ numsinkpads \in [Kinds -> 0..MaxPads]
  /\ streams \in [Kinds -> [1..MaxPads -> StreamType]]
  /\ pat \in HeaderType /\ pmt \in HeaderType
  /\ packets_counter \in Nat
  /\ gop_counter \in Nat
  /\ pc \in Writing \cup {"idle", "crashed"}
  /\ frame \in FrameType
  /\ collected \in 0..MaxFrames

-----------------------------------------------------------------------------
(* One pad of each kind is the program the code is written for; with more, *)
(* two streams share a PID.                                                *)
OneStreamPerPid == \A k \in Kinds : numsinkpads[k] <= 1

(* Continuity: on every PID the counter of each packet follows that of the *)
(* packet before it, whatever the kinds of packet the writer interleaves.  *)
(* (header_cc_inc after each of the four calls of write_func.)             *)
Continuity == OneStreamPerPid => "continuity" \notin rx.faults

(* The counters that place the GOPs agree with what was really written: no *)
(* packet is counted twice or not at all.                                  *)
PacketsAccounted ==
  /\ packets_counter = rx.count
  /\ OneStreamPerPid =>
       \A k \in Kinds : numsinkpads[k] = 1 =>
         streams[k][1].packets_counter = rx.sent[PidOf(k)]

(* Random access without an index (README): as long as no GOP outgrew its  *)
(* slot, the PAT of GOP k was packet k * GopPackets of the stream.         *)
SelfIndexed == rx.fits => rx.onGrid

(* Whatever the GOPs measure, no PAT comes before its slot: a reader who   *)
(* starts at packet k * GopPackets and reads on finds the PAT of GOP k.    *)
SlotNeverMissed == "early" \notin rx.faults

(* The PAT and every PMT are valid as sent: length, streams and CRC belong *)
(* together after any order of pad requests, and the PAT leads to the PMT. *)
PsiValid == "psi" \notin rx.faults

(* When no pad is requested late, no packet comes on a PID that is not in  *)
(* the PMT the receiver read last.                                         *)
EsAnnounced == ~LateRequests => "unannounced" \notin rx.faults

(* Each packet is filled to its end and parses: the PES header is where    *)
(* the adaptation field ends, and the frame continues without a gap.       *)
PacketsParse == "pes" \notin rx.faults

(* The clock comes on the PID the PMT names, with every frame of that PID, *)
(* not ahead of the frame's PTS.                                           *)
ClockAnnounced == OneStreamPerPid => "pcr" \notin rx.faults

(* max_gop_packets of each stream is the largest number of its packets     *)
(* between two PATs; it is what the GOP budget is tuned with.              *)
GopStatistics ==
  OneStreamPerPid /\ pc \notin {"pmt", "gop", "crashed"} =>
    \A k \in Kinds : numsinkpads[k] = 1 =>
      /\ streams[k][1].max_gop_packets = rx.maxEs[PidOf(k)]
      /\ streams[k][1].packets_counter - streams[k][1].last_gop_packets_counter = rx.gopEs[PidOf(k)]

-----------------------------------------------------------------------------
(* Statements of the comments that the code does not keep.                 *)

(* psi.h:90, "0 means no audio stream": a program without audio is muxed.  *)
NeverCrashes == pc # "crashed"

-----------------------------------------------------------------------------
(* Spts implements FrameDelivery.  A frame is in flight while              *)
(* spts_write_frame is in it; the receiver's open frame counts as received *)
(* unless it is the one being written.                                     *)
Frames ==
  [pts : {TimeField(mpegtime(t)) : t \in Timestamps}, size : VideoSizes \cup AudioSizes]

Delivery == INSTANCE FrameDelivery WITH
  Pids <- EsPids,
  Frames <- Frames,
  inFlight <- IF pc \in Writing
              THEN << PidOf(frame.kind), [pts |-> TimeField(frame.pts), size |-> frame.size] >>
              ELSE << >>,
  delivered <- [p \in EsPids |->
                  IF pc = "tail" /\ p = PidOf(frame.kind) THEN rx.units[p]
                  ELSE rx.units[p] \o rx.open[p]]

DeliversFrames == Delivery!Spec

(* Under the fairness of the streaming thread, every frame gets there:     *)
(* neither the padding loop nor the loop over the payload runs for ever.   *)
DeliversEventually == Delivery!FairSpec
=============================================================================
