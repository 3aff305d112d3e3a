----------------------------- MODULE TsReceiver -----------------------------
(***************************************************************************)
(* The other end of the wire: a demultiplexer written from the transport   *)
(* stream format alone, used to observe what Spts writes.  It keeps no     *)
(* state of the multiplexer.  `faults' collects what it could not make     *)
(* sense of; `units' are the frames it put together, per elementary PID.   *)
(***************************************************************************)
EXTENDS Psi

CONSTANT GopPackets  (* packets in one slot of the grid, 1830+270+2 in spts.c *)

ASSUME GopPacketsAssumption == GopPackets \in Nat \ {0}

EsPids  == {VIDEO_PID, AUDIO_PID}
CcPids  == EsPids \cup {PAT_PID, PMT_PID}

Faults == {"continuity", "early", "psi", "unannounced", "pes", "pcr"}

NoSection == [pcr |-> 0, pids |-> {}]
NoProgram == [program_number |-> 0, pid |-> 0]

ReceiverInit ==
  [count  |-> 0,                           \* packets received
   cc     |-> [p \in CcPids |-> -1],       \* last continuity counter
   sent   |-> [p \in EsPids |-> 0],        \* packets per elementary PID
   pats   |-> 0,                           \* PATs received: GOPs begun
   gopLen |-> 0,                           \* packets, null ones excepted, since the last PAT
   fits   |-> TRUE,                        \* no closed GOP outgrew its slot
   onGrid |-> TRUE,                        \* PAT k was packet k * GopPackets, for every k
   gopEs  |-> [p \in EsPids |-> 0],        \* packets per PID since the last PAT
   maxEs  |-> [p \in EsPids |-> 0],        \* the largest value of gopEs at a PAT
   program |-> NoProgram,                  \* what the last PAT lists
   psi    |-> NoSection,                   \* the last PMT
   open   |-> [p \in EsPids |-> << >>],    \* the frame being received, if any
   units  |-> [p \in EsPids |-> << >>],    \* the frames before it
   faults |-> {}]

-----------------------------------------------------------------------------
(* The elementary stream of a packet.                                      *)

PayloadStart(p) ==
  TSPACKET_HEADER_LENGTH + (IF p.afc = PAYLOAD_ONLY THEN 0 ELSE 1 + p.afLen)

(* A frame starts with a PES header at the start of the payload; any other *)
(* packet continues the open frame exactly where the last one stopped.     *)
Parses(rx, p) ==
  /\ p.es + p.n = TSPACKET_LENGTH
  /\ IF p.pusi
     THEN p.pes = PayloadStart(p) /\ p.from = 0
     ELSE /\ p.es = PayloadStart(p)
          /\ rx.open[p.pid] # << >>
          /\ p.from = rx.open[p.pid][1].size

OpenAfter(rx, p) ==
  IF ~Parses(rx, p) THEN << >>
  ELSE IF p.pusi THEN << [pts |-> p.pts, size |-> p.n] >>
       ELSE << [rx.open[p.pid][1] EXCEPT !.size = @ + p.n] >>

(* Once a PMT has come, it must list the PIDs in use.  The clock is on the *)
(* PID it announces, at the start of every frame of that PID, and is never *)
(* ahead of the frame it comes with.                                       *)
Announced(rx, p) == rx.psi = NoSection \/ p.pid \in rx.psi.pids

ClockOk(rx, p) ==
  LET hasPcr == p.pcr # -1
  IN  /\ rx.psi = NoSection \/ (hasPcr <=> p.pusi /\ p.pid = rx.psi.pcr)
      /\ hasPcr => (p.pts - p.pcr) % PtsWrap <= PCR_LEAD

-----------------------------------------------------------------------------
CountPacket(rx, p) ==
  [rx EXCEPT !.count = @ + 1,
             !.gopLen = IF p.pid = NULL_PID THEN @ ELSE @ + 1,
             !.cc     = IF p.pid = NULL_PID THEN @ ELSE [@ EXCEPT ![p.pid] = p.cc],
             !.faults = IF p.pid # NULL_PID /\ rx.cc[p.pid] # -1
                           /\ p.cc # (rx.cc[p.pid] + 1) % 16
                        THEN @ \cup {"continuity"} ELSE @]

(* A PAT opens GOP number rx.pats; GOP k belongs at packet k * GopPackets, *)
(* and nothing at all belongs before the first one.                        *)
ReceivePat(rx, p) ==
  [rx EXCEPT !.pats = @ + 1,
             !.fits = @ /\ rx.gopLen <= (IF rx.pats = 0 THEN 0 ELSE GopPackets),
             !.onGrid = @ /\ rx.count = rx.pats * GopPackets,
             !.maxEs = [q \in EsPids |-> IF rx.gopEs[q] > @[q] THEN rx.gopEs[q] ELSE @[q]],
             !.gopEs = [q \in EsPids |-> 0],
             !.gopLen = 0,
             !.program = [program_number |-> p.section.program_number, pid |-> p.section.pmt_pid],
             !.faults = @ \cup (IF rx.count < rx.pats * GopPackets THEN {"early"} ELSE {})
                          \cup (IF PatValid(p.section) THEN {} ELSE {"psi"})]

(* A PMT belongs to the program that the PAT lists.                        *)
PmtExpected(rx, p) ==
  rx.program = [program_number |-> p.section.header.id, pid |-> p.pid]

ReceivePmt(rx, p) ==
  [rx EXCEPT !.psi = [pcr |-> p.section.PCR_PID,
                      pids |-> {p.section.streams[i].pid : i \in DOMAIN p.section.streams}],
             !.faults = IF SectionValid(p.section) /\ PmtExpected(rx, p)
                        THEN @ ELSE @ \cup {"psi"}]

ReceiveEs(rx, p) ==
  [rx EXCEPT !.sent[p.pid]  = @ + 1,
             !.gopEs[p.pid] = @ + 1,
             !.open[p.pid]  = OpenAfter(rx, p),
             !.units[p.pid] = IF p.pusi THEN @ \o rx.open[p.pid] ELSE @,
             !.faults = @ \cup (IF Announced(rx, p) THEN {} ELSE {"unannounced"})
                          \cup (IF Parses(rx, p)  THEN {} ELSE {"pes"})
                          \cup (IF ClockOk(rx, p) THEN {} ELSE {"pcr"})]

Receive(rx, p) ==
  CASE p.pid = PAT_PID  -> CountPacket(ReceivePat(rx, p), p)
    [] p.pid = PMT_PID  -> CountPacket(ReceivePmt(rx, p), p)
    [] p.pid \in EsPids -> CountPacket(ReceiveEs(rx, p), p)
    [] OTHER            -> CountPacket(rx, p)
=============================================================================
