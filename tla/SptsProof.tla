------------------------------ MODULE SptsProof -----------------------------
(***************************************************************************)
(* Theorems about Spts, for every size of a frame, every timestamp, every  *)
(* size of a GOP slot and any number of frames.                            *)
(***************************************************************************)
EXTENDS SptsProps, TLAPS

-----------------------------------------------------------------------------
(* What the receiver's counters and faults become when it gets a packet.   *)

RxFields ==
  {"count", "cc", "sent", "pats", "gopLen", "fits", "onGrid", "gopEs", "maxEs",
   "program", "psi", "open", "units", "faults"}

(* The part of the receiver's state that the theorems are about.           *)
RxType(r) ==
  /\ DOMAIN r = RxFields
  /\ r.count \in Nat /\ r.pats \in Nat /\ r.gopLen \in Nat
  /\ r.cc \in [CcPids -> Int]
  /\ r.sent \in [EsPids -> Nat]
  /\ r.fits \in BOOLEAN /\ r.onGrid \in BOOLEAN

LEMMA Pids ==
  /\ EsPids = {64, 65} /\ CcPids = {0, 32, 64, 65}
  /\ PAT_PID = 0 /\ PMT_PID = 32 /\ NULL_PID = 8191
BY DEF EsPids, CcPids, VIDEO_PID, AUDIO_PID, PAT_PID, PMT_PID, NULL_PID

LEMMA ReceiverInitType == RxType(ReceiverInit)
BY DEF RxType, RxFields, ReceiverInit

(* The counters every packet moves.                                        *)
LEMMA CountPacketFields ==
  ASSUME NEW r, RxType(r), NEW p, p.pid # NULL_PID => p.pid \in CcPids /\ p.cc \in 0..15
  PROVE  LET c == CountPacket(r, p)
         IN  /\ RxType(c)
             /\ c.count = r.count + 1
             /\ c.gopLen = IF p.pid = NULL_PID THEN r.gopLen ELSE r.gopLen + 1
             /\ c.cc = IF p.pid = NULL_PID THEN r.cc ELSE [r.cc EXCEPT ![p.pid] = p.cc]
             /\ c.sent = r.sent /\ c.pats = r.pats /\ c.fits = r.fits /\ c.onGrid = r.onGrid
             /\ "early" \in c.faults => "early" \in r.faults
             /\ "continuity" \in c.faults =>
                  \/ "continuity" \in r.faults
                  \/ p.pid # NULL_PID /\ r.cc[p.pid] # -1 /\ p.cc # (r.cc[p.pid] + 1) % 16
<1>. DEFINE c == CountPacket(r, p)
<1>1. DOMAIN c = RxFields
  BY DEF RxType, CountPacket
<1>2. /\ c.count = r.count + 1
      /\ c.gopLen = IF p.pid = NULL_PID THEN r.gopLen ELSE r.gopLen + 1
      /\ c.cc = IF p.pid = NULL_PID THEN r.cc ELSE [r.cc EXCEPT ![p.pid] = p.cc]
  BY DEF RxType, RxFields, CountPacket
<1>3. c.sent = r.sent /\ c.pats = r.pats /\ c.fits = r.fits /\ c.onGrid = r.onGrid
  BY DEF RxType, RxFields, CountPacket
<1>4. c.faults = IF p.pid # NULL_PID /\ r.cc[p.pid] # -1 /\ p.cc # (r.cc[p.pid] + 1) % 16
                 THEN r.faults \cup {"continuity"} ELSE r.faults
  BY DEF RxType, RxFields, CountPacket
<1>5. c.cc \in [CcPids -> Int]
  BY <1>2 DEF RxType
<1>6. RxType(c)
  BY <1>1, <1>2, <1>3, <1>5 DEF RxType
<1> QED BY <1>2, <1>3, <1>4, <1>6

LEMMA ReceivePatFields ==
  ASSUME NEW r, RxType(r), NEW p
  PROVE  LET c == ReceivePat(r, p)
         IN  /\ RxType(c)
             /\ c.count = r.count /\ c.gopLen = 0 /\ c.cc = r.cc /\ c.sent = r.sent
             /\ c.pats = r.pats + 1
             /\ c.fits = (r.fits /\ r.gopLen <= (IF r.pats = 0 THEN 0 ELSE GopPackets))
             /\ c.onGrid = (r.onGrid /\ r.count = r.pats * GopPackets)
             /\ "continuity" \in c.faults => "continuity" \in r.faults
             /\ "early" \in c.faults =>
                  "early" \in r.faults \/ r.count < r.pats * GopPackets
<1>. DEFINE c == ReceivePat(r, p)
<1>1. DOMAIN c = RxFields
  BY DEF RxType, ReceivePat
<1>2. c.count = r.count /\ c.gopLen = 0 /\ c.cc = r.cc /\ c.sent = r.sent /\ c.pats = r.pats + 1
  BY DEF RxType, RxFields, ReceivePat
<1>3. c.fits = (r.fits /\ r.gopLen <= (IF r.pats = 0 THEN 0 ELSE GopPackets))
  BY DEF RxType, RxFields, ReceivePat
<1>4. c.onGrid = (r.onGrid /\ r.count = r.pats * GopPackets)
  BY DEF RxType, RxFields, ReceivePat
<1>5. /\ c.faults \subseteq r.faults \cup {"early", "psi"}
      /\ "early" \in c.faults => "early" \in r.faults \/ r.count < r.pats * GopPackets
  BY DEF RxType, RxFields, ReceivePat
<1>6. RxType(c)
  BY <1>1, <1>2, <1>3, <1>4 DEF RxType
<1> QED BY <1>2, <1>3, <1>4, <1>5, <1>6

LEMMA ReceivePmtFields ==
  ASSUME NEW r, RxType(r), NEW p
  PROVE  LET c == ReceivePmt(r, p)
         IN  /\ RxType(c)
             /\ c.count = r.count /\ c.gopLen = r.gopLen /\ c.cc = r.cc /\ c.sent = r.sent
             /\ c.pats = r.pats /\ c.fits = r.fits /\ c.onGrid = r.onGrid
             /\ \A f \in {"continuity", "early"} : f \in c.faults => f \in r.faults
<1>. DEFINE c == ReceivePmt(r, p)
<1>1. DOMAIN c = RxFields
  BY DEF RxType, ReceivePmt
<1>2. /\ c.count = r.count /\ c.gopLen = r.gopLen /\ c.cc = r.cc /\ c.sent = r.sent
      /\ c.pats = r.pats /\ c.fits = r.fits /\ c.onGrid = r.onGrid
  BY DEF RxType, RxFields, ReceivePmt
<1>3. c.faults \subseteq r.faults \cup {"psi"}
  BY DEF RxType, RxFields, ReceivePmt
<1>4. RxType(c)
  BY <1>1, <1>2 DEF RxType
<1> QED BY <1>2, <1>3, <1>4

LEMMA ReceiveEsFields ==
  ASSUME NEW r, RxType(r), NEW p, p.pid \in EsPids
  PROVE  LET c == ReceiveEs(r, p)
         IN  /\ RxType(c)
             /\ c.count = r.count /\ c.gopLen = r.gopLen /\ c.cc = r.cc
             /\ c.sent = [r.sent EXCEPT ![p.pid] = @ + 1]
             /\ c.pats = r.pats /\ c.fits = r.fits /\ c.onGrid = r.onGrid
             /\ \A f \in {"continuity", "early"} : f \in c.faults => f \in r.faults
<1>. DEFINE c == ReceiveEs(r, p)
<1>1. DOMAIN c = RxFields
  BY DEF RxType, ReceiveEs
<1>2. /\ c.count = r.count /\ c.gopLen = r.gopLen /\ c.cc = r.cc
      /\ c.sent = [r.sent EXCEPT ![p.pid] = @ + 1]
      /\ c.pats = r.pats /\ c.fits = r.fits /\ c.onGrid = r.onGrid
  BY DEF RxType, RxFields, ReceiveEs
<1>3. c.faults \subseteq r.faults \cup {"unannounced", "pes", "pcr"}
  BY DEF RxType, RxFields, ReceiveEs
<1>4. RxType(c)
  BY <1>1, <1>2 DEF RxType
<1> QED BY <1>2, <1>3, <1>4

-----------------------------------------------------------------------------
(* The same by PID, for a whole packet.                                    *)

(* A packet that only the continuity of its PID and the count depend on.   *)
Counted(r, p, c) ==
  /\ RxType(c)
  /\ c.count = r.count + 1
  /\ c.cc = IF p.pid = NULL_PID THEN r.cc ELSE [r.cc EXCEPT ![p.pid] = p.cc]
  /\ c.sent = IF p.pid \in EsPids THEN [r.sent EXCEPT ![p.pid] = @ + 1] ELSE r.sent
  /\ "continuity" \in c.faults =>
       \/ "continuity" \in r.faults
       \/ p.pid # NULL_PID /\ r.cc[p.pid] # -1 /\ p.cc # (r.cc[p.pid] + 1) % 16

(* One that does not begin a GOP.                                          *)
InGop(r, p, c) ==
  /\ c.pats = r.pats /\ c.fits = r.fits /\ c.onGrid = r.onGrid
  /\ c.gopLen = IF p.pid = NULL_PID THEN r.gopLen ELSE r.gopLen + 1
  /\ "early" \in c.faults => "early" \in r.faults

LEMMA NullReceived ==
  ASSUME NEW r, RxType(r), NEW p, p.pid = NULL_PID
  PROVE  Counted(r, p, Receive(r, p)) /\ InGop(r, p, Receive(r, p))
<1>1. Receive(r, p) = CountPacket(r, p)
  BY Pids DEF Receive
<1>2. p.pid \notin EsPids
  BY Pids
<1>3. Counted(r, p, CountPacket(r, p))
  BY <1>2, CountPacketFields DEF Counted
<1>4. InGop(r, p, CountPacket(r, p))
  BY CountPacketFields DEF InGop
<1> QED BY <1>1, <1>3, <1>4

LEMMA PmtReceived ==
  ASSUME NEW r, RxType(r), NEW p, p.pid = PMT_PID, p.cc \in 0..15
  PROVE  Counted(r, p, Receive(r, p)) /\ InGop(r, p, Receive(r, p))
<1>. DEFINE c == ReceivePmt(r, p)
<1>1. Receive(r, p) = CountPacket(c, p)
  BY Pids DEF Receive
<1>2. p.pid \notin EsPids /\ p.pid \in CcPids /\ p.pid # NULL_PID
  BY Pids
<1>3. /\ RxType(c)
      /\ c.count = r.count /\ c.gopLen = r.gopLen /\ c.cc = r.cc /\ c.sent = r.sent
      /\ c.pats = r.pats /\ c.fits = r.fits /\ c.onGrid = r.onGrid
      /\ \A f \in {"continuity", "early"} : f \in c.faults => f \in r.faults
  BY ReceivePmtFields
<1> HIDE DEF c
<1> QED BY <1>1, <1>2, <1>3, CountPacketFields DEF Counted, InGop

LEMMA EsReceived ==
  ASSUME NEW r, RxType(r), NEW p, p.pid \in EsPids, p.cc \in 0..15
  PROVE  Counted(r, p, Receive(r, p)) /\ InGop(r, p, Receive(r, p))
<1>. DEFINE c == ReceiveEs(r, p)
<1>1. Receive(r, p) = CountPacket(c, p)
  BY Pids DEF Receive
<1>2. p.pid \in CcPids /\ p.pid # NULL_PID
  BY Pids
<1>3. /\ RxType(c)
      /\ c.count = r.count /\ c.gopLen = r.gopLen /\ c.cc = r.cc
      /\ c.sent = [r.sent EXCEPT ![p.pid] = @ + 1]
      /\ c.pats = r.pats /\ c.fits = r.fits /\ c.onGrid = r.onGrid
      /\ \A f \in {"continuity", "early"} : f \in c.faults => f \in r.faults
  BY ReceiveEsFields
<1> HIDE DEF c
<1> QED BY <1>1, <1>2, <1>3, CountPacketFields DEF Counted, InGop

LEMMA PatReceived ==
  ASSUME NEW r, RxType(r), NEW p, p.pid = PAT_PID, p.cc \in 0..15
  PROVE  LET c == Receive(r, p)
         IN  /\ Counted(r, p, c)
             /\ c.pats = r.pats + 1 /\ c.gopLen = 1
             /\ c.fits = (r.fits /\ r.gopLen <= (IF r.pats = 0 THEN 0 ELSE GopPackets))
             /\ c.onGrid = (r.onGrid /\ r.count = r.pats * GopPackets)
             /\ "early" \in c.faults =>
                  "early" \in r.faults \/ r.count < r.pats * GopPackets
<1>. DEFINE c == ReceivePat(r, p)
<1>1. Receive(r, p) = CountPacket(c, p)
  BY Pids DEF Receive
<1>2. p.pid \notin EsPids /\ p.pid \in CcPids /\ p.pid # NULL_PID
  BY Pids
<1>3. /\ RxType(c)
      /\ c.count = r.count /\ c.gopLen = 0 /\ c.cc = r.cc /\ c.sent = r.sent
      /\ c.pats = r.pats + 1
      /\ c.fits = (r.fits /\ r.gopLen <= (IF r.pats = 0 THEN 0 ELSE GopPackets))
      /\ c.onGrid = (r.onGrid /\ r.count = r.pats * GopPackets)
      /\ "continuity" \in c.faults => "continuity" \in r.faults
      /\ "early" \in c.faults => "early" \in r.faults \/ r.count < r.pats * GopPackets
  BY ReceivePatFields
<1> HIDE DEF c
<1> QED BY <1>1, <1>2, <1>3, CountPacketFields DEF Counted

-----------------------------------------------------------------------------
(* The packet layouts never take more of a frame than there is, and fill   *)
(* the packet whenever they take it all.                                   *)

(* With a PCR: 162 bytes, or all there are.                                *)
LEMMA PcrHeadLayout ==
  ASSUME NEW pcr \in BOOLEAN, pcr, NEW size \in Nat
  PROVE  /\ HeadLayout(pcr, size).n \in 0..size
         /\ HeadLayout(pcr, size).afc = ADAPTATION_AND_PAYLOAD
<1>. DEFINE afLen == pcr_head_adaptation_length(size)
            set   == adaptation_set(afLen, pcr)
            n     == HeadLayout(pcr, size).n
<1>1. afLen = IF size >= 162 THEN 7 ELSE 169 - size
  BY DEF pcr_head_adaptation_length, TSPACKET_PAYLOAD_LENGTH, pes_header_length
<1>2. set = afLen + 1
  <2>1. afLen \in 7..169
    BY <1>1
  <2>2. (afLen - 7) % 256 = afLen - 7
    BY <2>1
  <2> QED BY <2>1, <2>2 DEF adaptation_set
<1>3. n = 188 - (4 + set + 14)
  BY DEF HeadLayout, TSPACKET_LENGTH, TSPACKET_HEADER_LENGTH, pes_header_length
<1>4. HeadLayout(pcr, size).afc = ADAPTATION_AND_PAYLOAD
  BY DEF HeadLayout
<1>5. n \in 0..size
  <2> HIDE DEF afLen, set, n
  <2>1. CASE size >= 162
    BY <1>1, <1>2, <1>3, <2>1
  <2>2. CASE size < 162
    BY <1>1, <1>2, <1>3, <2>2
  <2> QED BY <2>1, <2>2
<1> QED BY <1>4, <1>5

(* Without: 170 bytes, or all there are, except of a frame of 169 bytes.   *)
LEMMA PlainHeadLayout ==
  ASSUME NEW pcr \in BOOLEAN, ~pcr, NEW size \in Nat
  PROVE  /\ HeadLayout(pcr, size).n \in 0..size
         /\ HeadLayout(pcr, size).afc \in {PAYLOAD_ONLY, ADAPTATION_AND_PAYLOAD}
<1>. DEFINE afLen == stuffing_length(size)
            set   == adaptation_set(afLen, pcr)
            n     == HeadLayout(pcr, size).n
<1>1. head_stuffing_needed(size) <=> size < 170
  BY DEF head_stuffing_needed, TSPACKET_PAYLOAD_LENGTH, pes_header_length
<1>2. HeadLayout(pcr, size).afc \in {PAYLOAD_ONLY, ADAPTATION_AND_PAYLOAD}
  BY DEF HeadLayout
<1>3. CASE size >= 170
  <2>1. ~head_stuffing_needed(size)
    BY <1>1, <1>3
  <2>2. n = 188 - (4 + 0 + 14)
    BY <2>1 DEF HeadLayout, TSPACKET_LENGTH, TSPACKET_HEADER_LENGTH, pes_header_length
  <2>3. n \in 0..size
    <3> HIDE DEF n
    <3> QED BY <1>3, <2>2
  <2> QED BY <1>2, <2>3
<1>4. CASE size < 170
  <2>1. head_stuffing_needed(size)
    BY <1>1, <1>4
  <2>2. afLen = 169 - size
    BY DEF stuffing_length, TSPACKET_PAYLOAD_LENGTH, pes_header_length
  <2>3. set = IF size = 169 THEN 2 ELSE 170 - size
    <3>1. CASE size = 169
      BY <2>2, <3>1 DEF adaptation_set
    <3>2. CASE size # 169
      <4>1. afLen \in 1..169
        BY <1>4, <2>2, <3>2
      <4>2. (afLen - 1) % 256 = afLen - 1
        BY <4>1
      <4>3. set = 2 + (afLen - 1)
        BY <4>1, <4>2 DEF adaptation_set
      <4> HIDE DEF afLen, set
      <4> QED BY <2>2, <3>2, <4>3
    <3> QED BY <3>1, <3>2
  <2>4. n = 188 - (4 + set + 14)
    BY <2>1 DEF HeadLayout, TSPACKET_LENGTH, TSPACKET_HEADER_LENGTH, pes_header_length
  <2>5. n \in 0..size
    <3> HIDE DEF set, n
    <3> QED BY <1>4, <2>3, <2>4
  <2> QED BY <1>2, <2>5
<1> QED BY <1>3, <1>4

LEMMA HeadFits ==
  ASSUME NEW pcr \in BOOLEAN, NEW size \in Nat
  PROVE  /\ HeadLayout(pcr, size).n \in 0..size
         /\ HeadLayout(pcr, size).afc \in {PAYLOAD_ONLY, ADAPTATION_AND_PAYLOAD}
<1>1. CASE pcr
  BY <1>1, PcrHeadLayout
<1>2. CASE ~pcr
  BY <1>2, PlainHeadLayout
<1> QED BY <1>1, <1>2

LEMMA TailFits ==
  ASSUME NEW left \in Nat
  PROVE  /\ TailLayout(left).n \in 0..left
         /\ TailLayout(left).afc \in {PAYLOAD_ONLY, ADAPTATION_AND_PAYLOAD}
BY DEF TailLayout, TSPACKET_PAYLOAD_LENGTH

-----------------------------------------------------------------------------
(* Type correctness.  While spts_write_frame runs, `stream' points to a    *)
(* stream that was allocated.                                              *)

TypeInv ==
  /\ TypeOK
  /\ pc \in Writing => frame.kind \in Kinds /\ frame.n \in 1..MaxPads

LEMMA HeaderTypes ==
  ASSUME NEW h \in HeaderType
  PROVE  /\ header_cc_inc(h) \in HeaderType
         /\ \A b \in BOOLEAN : header_set_start_unit_indicator(h, b) \in HeaderType
         /\ \A afc \in {PAYLOAD_ONLY, ADAPTATION_AND_PAYLOAD} :
              header_set_adaptation_field_control(h, afc) \in HeaderType
<1>1. (h.cc + 1) % 16 \in 0..15
  BY DEF HeaderType
<1> QED
  BY <1>1 DEF HeaderType, header_cc_inc, header_set_start_unit_indicator,
              header_set_adaptation_field_control

LEMMA NewHeaderType ==
  ASSUME NEW pid \in CcPids PROVE tspacket_header_init(pid) \in HeaderType
BY DEF tspacket_header_init, HeaderType

LEMMA PidsOfKinds ==
  ASSUME NEW k \in Kinds
  PROVE  PidOf(k) \in EsPids /\ PidOf(k) \in CcPids
BY DEF PidOf, Kinds, EsPids, CcPids

LEMMA NewStreamType ==
  ASSUME NEW k \in Kinds PROVE NewStream(k) \in StreamType
BY NewHeaderType, PidsOfKinds DEF NewStream, StreamType

LEMMA RecordGopType ==
  ASSUME NEW s \in StreamType
  PROVE  RecordGop(s) \in StreamType
<1>. DEFINE packets == s.packets_counter - s.last_gop_packets_counter
            max     == IF packets > s.max_gop_packets THEN packets ELSE s.max_gop_packets
<1>1. max \in Nat
  BY DEF StreamType
<1>2. RecordGop(s) = [s EXCEPT !.max_gop_packets = max,
                               !.last_gop_packets_counter = s.packets_counter]
  BY DEF RecordGop
<1> HIDE DEF max
<1> QED BY <1>1, <1>2 DEF StreamType

(* Storing a stream where `stream' points keeps the type of all of them.   *)
LEMMA StoreStreamType ==
  ASSUME streams \in [Kinds -> [1..MaxPads -> StreamType]],
         NEW k \in Kinds, NEW n \in 1..MaxPads, NEW s \in StreamType
  PROVE  [streams EXCEPT ![k][n] = s] \in [Kinds -> [1..MaxPads -> StreamType]]
OBVIOUS

LEMMA MpegTimeType == ASSUME NEW ns \in Nat PROVE mpegtime(ns) \in Nat
BY DEF mpegtime

LEMMA InitTypeInv == Init => TypeInv
<1> SUFFICES ASSUME Init PROVE TypeInv
  OBVIOUS
<1>1. streams \in [Kinds -> [1..MaxPads -> StreamType]]
  BY NewStreamType DEF Init
<1>2. pat \in HeaderType /\ pmt \in HeaderType
  BY NewHeaderType DEF Init, CcPids
<1>3. frame \in FrameType
  BY ProgramAssumption DEF Init, NoFrame, FrameType
<1>4. numsinkpads \in [Kinds -> 0..MaxPads] /\ collected \in 0..MaxFrames
  <2>1. 0 \in 0..MaxPads /\ 0 \in 0..MaxFrames
    BY ProgramAssumption
  <2> QED BY <2>1 DEF Init
<1> QED BY <1>1, <1>2, <1>3, <1>4 DEF Init, TypeInv, TypeOK, Writing

LEMMA PayloadKeepsTypes ==
  ASSUME TypeInv, pc \in Writing, packets_counter' \in Nat,
         NEW h \in HeaderType, NEW left \in Nat, NEW lay, lay.n \in 0..left,
         Payload(h, left, lay)
  PROVE  TypeInv'
<1>1. TypeOK /\ frame.kind \in Kinds /\ frame.n \in 1..MaxPads
  BY DEF TypeInv
<1>2. streams[frame.kind][frame.n] \in StreamType
  BY <1>1 DEF TypeOK
<1>3. streams' \in [Kinds -> [1..MaxPads -> StreamType]]
  <2>1. PacketWritten(Stream, h, left - lay.n) \in StreamType
    <3>1. left - lay.n \in Nat /\ Stream.packets_counter + 1 \in Nat /\ Stream \in StreamType
      BY <1>2 DEF Stream, StreamType
    <3> HIDE DEF Stream
    <3> QED BY <3>1 DEF StreamType, PacketWritten
  <2> QED BY <1>1, <2>1, StoreStreamType DEF Payload, TypeOK
<1>4. frame' \in FrameType /\ (pc' = "tail" => frame'.kind = frame.kind /\ frame'.n = frame.n)
  <2>1. CASE left = lay.n
    <3>1. 0 \in 0..MaxPads
      BY ProgramAssumption
    <3> QED BY <2>1, <3>1 DEF Payload, FrameType, NoFrame
  <2>2. CASE left # lay.n
    <3>1. frame' = [frame EXCEPT !.at = @ + lay.n] /\ lay.n \in Nat /\ frame \in FrameType
      BY <1>1, <2>2 DEF Payload, TypeOK
    <3> QED BY <3>1 DEF FrameType
  <2> QED BY <2>1, <2>2
<1>5. pc' \in {"idle", "tail"}
  BY DEF Payload
<1> QED BY <1>1, <1>3, <1>4, <1>5 DEF Payload, TypeInv, TypeOK, Writing

(* The clock reference is marked on the last stream of its kind, if any.   *)
LEMMA MarkClockType ==
  ASSUME TypeOK, NEW k \in Kinds, NEW n \in 0..MaxPads
  PROVE  [streams EXCEPT ![k][n].pcr_reference = TRUE] \in [Kinds -> [1..MaxPads -> StreamType]]
<1>. DEFINE marked == [streams[k] EXCEPT ![n].pcr_reference = TRUE]
<1>1. marked \in [1..MaxPads -> StreamType]
  <2>1. streams[k] \in [1..MaxPads -> StreamType]
    BY DEF TypeOK
  <2>2. ASSUME NEW i \in 1..MaxPads PROVE marked[i] \in StreamType
    <3>1. CASE i # n
      BY <2>1, <3>1
    <3>2. CASE i = n
      <4>1. marked[i] = [streams[k][i] EXCEPT !.pcr_reference = TRUE]
        BY <2>1, <3>2
      <4> QED BY <2>1, <4>1 DEF StreamType
    <3> QED BY <3>1, <3>2
  <2> QED BY <2>1, <2>2
<1> HIDE DEF marked
<1>2. [streams EXCEPT ![k] = marked] \in [Kinds -> [1..MaxPads -> StreamType]]
  BY <1>1 DEF TypeOK
<1> QED BY <1>2 DEF marked

LEMMA RequestPadKeepsTypes ==
  ASSUME TypeInv, NEW k \in Kinds, RequestPad(k) PROVE TypeInv'
<1>1. numsinkpads[k] + 1 \in 1..MaxPads
  BY ProgramAssumption DEF TypeInv, TypeOK, RequestPad
<1>2. streams' \in [Kinds -> [1..MaxPads -> StreamType]]
  BY <1>1, NewStreamType, StoreStreamType DEF RequestPad, TypeInv, TypeOK, Current
<1>3. numsinkpads' \in [Kinds -> 0..MaxPads]
  BY <1>1 DEF RequestPad, TypeInv, TypeOK
<1> QED BY <1>2, <1>3 DEF RequestPad, TypeInv, TypeOK, Writing

LEMMA FirstCollectedKeepsTypes ==
  ASSUME TypeInv, FirstCollected PROVE TypeInv'
<1>1. ClockKind \in Kinds
  BY DEF ClockKind, Kinds
<1>2. Current(ClockKind) \in 0..MaxPads
  BY <1>1 DEF TypeInv, TypeOK, Current
<1>3. streams' \in [Kinds -> [1..MaxPads -> StreamType]]
  BY <1>1, <1>2, MarkClockType DEF FirstCollected, TypeInv
<1> QED BY <1>3 DEF FirstCollected, TypeInv, TypeOK, Writing

LEMMA NewFrameType ==
  ASSUME TypeInv, NEW k \in Kinds, numsinkpads[k] > 0, NEW idr \in BOOLEAN,
         NEW size \in VideoSizes \cup AudioSizes, NEW ts \in Timestamps
  PROVE  /\ NewFrame(k, idr, size, ts) \in FrameType
         /\ NewFrame(k, idr, size, ts).kind = k
         /\ NewFrame(k, idr, size, ts).n \in 1..MaxPads
<1>1. size \in Nat /\ mpegtime(ts) \in Nat
  BY ProgramAssumption, MpegTimeType
<1>2. numsinkpads[k] \in 1..MaxPads
  BY ProgramAssumption DEF TypeInv, TypeOK
<1> QED BY <1>1, <1>2, ProgramAssumption DEF NewFrame, FrameType, Current

LEMMA WriteVideoKeepsTypes ==
  ASSUME TypeInv, NEW idr \in BOOLEAN, NEW size \in VideoSizes, NEW ts \in Timestamps,
         WriteVideo(idr, size, ts)
  PROVE  TypeInv'
<1>. DEFINE n == numsinkpads["video"]
<1>1. "video" \in Kinds /\ n \in 1..MaxPads
  BY ProgramAssumption DEF TypeInv, TypeOK, WriteVideo, Kinds
<1>2. frame' \in FrameType /\ frame'.kind \in Kinds /\ frame'.n \in 1..MaxPads
  BY <1>1, NewFrameType DEF WriteVideo
<1>3. streams' \in [Kinds -> [1..MaxPads -> StreamType]]
  <2>. DEFINE s == [streams["video"][n] EXCEPT !.frames_counter = @ + 1]
  <2>1. streams["video"][n] \in StreamType
    BY <1>1 DEF TypeInv, TypeOK
  <2>2. s \in StreamType
    BY <2>1 DEF StreamType
  <2>3. streams' = [streams EXCEPT !["video"][n] = s]
    BY DEF WriteVideo, Current
  <2> HIDE DEF s, n
  <2> QED BY <1>1, <2>2, <2>3, StoreStreamType DEF TypeInv, TypeOK
<1>4. collected' \in 0..MaxFrames
  BY ProgramAssumption DEF TypeInv, TypeOK, WriteVideo
<1>5. pc' \in {"pad", "head"}
  BY DEF WriteVideo
<1> QED BY <1>2, <1>3, <1>4, <1>5 DEF WriteVideo, TypeInv, TypeOK, Writing

LEMMA WriteAudioKeepsTypes ==
  ASSUME TypeInv, NEW size \in AudioSizes, NEW ts \in Timestamps, WriteAudio(size, ts)
  PROVE  TypeInv'
<1>1. collected' \in 0..MaxFrames
  BY ProgramAssumption DEF TypeInv, TypeOK, WriteAudio
<1>2. UNCHANGED << first, numsinkpads, spts_vars >>
  BY DEF WriteAudio
<1>3. CASE AudioKept
  <2>1. "audio" \in Kinds
    BY DEF Kinds
  <2>2. frame' \in FrameType /\ frame'.kind \in Kinds /\ frame'.n \in 1..MaxPads /\ pc' = "head"
    <3>. DEFINE f == NewFrame("audio", FALSE, size, ts)
    <3>1. f \in FrameType /\ f.kind = "audio" /\ f.n \in 1..MaxPads
      BY <2>1, NewFrameType, Zenon DEF WriteAudio
    <3>2. frame' = f /\ pc' = "head"
      BY <1>3, Zenon DEF WriteAudio
    <3> HIDE DEF f
    <3> QED BY <2>1, <3>1, <3>2
  <2> QED BY <1>1, <1>2, <2>2 DEF spts_vars, TypeInv, TypeOK, Writing
<1>4. CASE ~AudioKept
  BY <1>1, <1>2, <1>4 DEF WriteAudio, spts_vars, TypeInv, TypeOK, Writing
<1> QED BY <1>3, <1>4

LEMMA PsiKeepsTypes ==
  ASSUME TypeInv, WriteNull \/ WritePat \/ WritePmt PROVE TypeInv'
<1>1. packets_counter' \in Nat
  BY DEF TypeInv, TypeOK, WriteNull, WritePat, WritePmt, Write
<1>2. pat' \in HeaderType /\ pmt' \in HeaderType
  BY HeaderTypes DEF TypeInv, TypeOK, WriteNull, WritePat, WritePmt
<1>3. /\ UNCHANGED << first, numsinkpads, streams, gop_counter, frame, collected >>
      /\ pc \in Writing /\ pc' \in Writing
  BY DEF WriteNull, WritePat, WritePmt, Writing
<1> QED BY <1>1, <1>2, <1>3 DEF TypeInv, TypeOK

LEMMA CloseGopKeepsTypes ==
  ASSUME TypeInv, CloseGop PROVE TypeInv'
<1>. DEFINE video == [RecordGop(Stream) EXCEPT !.last_gop_frames_counter = Stream.frames_counter]
            a     == Current("audio")
            after == [streams EXCEPT ![frame.kind][frame.n] = video]
<1>1. frame.kind \in Kinds /\ frame.n \in 1..MaxPads /\ pc \in Writing
  BY DEF CloseGop, TypeInv, Writing
<1>2. Stream \in StreamType
  BY <1>1 DEF Stream, TypeInv, TypeOK
<1>3. video \in StreamType
  <2>1. RecordGop(Stream) \in StreamType
    BY <1>2, RecordGopType
  <2>2. Stream.frames_counter \in Nat
    BY <1>2 DEF StreamType
  <2> HIDE DEF Stream
  <2> QED BY <2>1, <2>2 DEF StreamType
<1>4. after \in [Kinds -> [1..MaxPads -> StreamType]]
  <2> HIDE DEF video
  <2> QED BY <1>1, <1>3, StoreStreamType DEF TypeInv, TypeOK
<1>5. streams' \in [Kinds -> [1..MaxPads -> StreamType]] /\ pc' \in {"head", "crashed"}
  <2>1. CASE a = 0
    BY <1>4, <2>1 DEF CloseGop
  <2>2. CASE a # 0
    <3>. DEFINE s == RecordGop(streams["audio"][a])
    <3>1. a \in 1..MaxPads /\ "audio" \in Kinds
      BY <2>2, ProgramAssumption DEF TypeInv, TypeOK, Current, Kinds
    <3>2. streams["audio"][a] \in StreamType
      <4> HIDE DEF a
      <4> QED BY <3>1 DEF TypeInv, TypeOK
    <3>3. s \in StreamType
      BY <3>2, RecordGopType
    <3>4. streams' = [after EXCEPT !["audio"][a] = s] /\ pc' = "head"
      BY <2>2 DEF CloseGop
    <3>5. [after EXCEPT !["audio"][a] = s] \in [Kinds -> [1..MaxPads -> StreamType]]
      <4> HIDE DEF after, a, s
      <4> QED BY <1>4, <3>1, <3>3
    <3> QED BY <3>4, <3>5
  <2> QED BY <2>1, <2>2
<1> QED BY <1>1, <1>5 DEF CloseGop, TypeInv, TypeOK, Writing

LEMMA WriteHeadKeepsTypes ==
  ASSUME TypeInv, WriteHead PROVE TypeInv'
<1>. DEFINE lay   == HeadLayout(Stream.pcr_reference, frame.size)
            h     == header_set_adaptation_field_control(
                       header_set_start_unit_indicator(Stream.header, TRUE), lay.afc)
            after == header_set_start_unit_indicator(
                       header_set_adaptation_field_control(header_cc_inc(h), PAYLOAD_ONLY), FALSE)
<1>1. pc \in Writing /\ frame.size \in Nat
  BY DEF WriteHead, Writing, TypeInv, TypeOK, FrameType
<1>2. Stream \in StreamType
  BY <1>1 DEF Stream, TypeInv, TypeOK
<1>3. Stream.pcr_reference \in BOOLEAN /\ Stream.header \in HeaderType
  BY <1>2 DEF StreamType
<1>4. lay.n \in 0..frame.size /\ lay.afc \in {PAYLOAD_ONLY, ADAPTATION_AND_PAYLOAD}
  BY <1>1, <1>3, HeadFits, Zenon
<1>5. after \in HeaderType
  <2>1. h \in HeaderType
    BY <1>3, <1>4, HeaderTypes, Zenon
  <2> QED BY <2>1, HeaderTypes, Zenon
<1>6. packets_counter' \in Nat
  BY DEF WriteHead, Write, TypeInv, TypeOK
<1>7. Payload(after, frame.size, lay)
  BY Zenon DEF WriteHead
<1> HIDE DEF lay, after
<1> QED BY <1>1, <1>4, <1>5, <1>6, <1>7, PayloadKeepsTypes

LEMMA WriteTailKeepsTypes ==
  ASSUME TypeInv, WriteTail PROVE TypeInv'
<1>. DEFINE left == Stream.pes_packet_length
            lay  == TailLayout(left)
            h    == IF lay.afc = ADAPTATION_AND_PAYLOAD
                    THEN header_set_adaptation_field_control(Stream.header, lay.afc)
                    ELSE Stream.header
<1>1. pc \in Writing
  BY DEF WriteTail, Writing
<1>2. Stream \in StreamType
  BY <1>1 DEF Stream, TypeInv, TypeOK
<1>3. left \in Nat /\ Stream.header \in HeaderType
  BY <1>2 DEF StreamType
<1>4. lay.n \in 0..left /\ lay.afc \in {PAYLOAD_ONLY, ADAPTATION_AND_PAYLOAD}
  BY <1>3, TailFits, Zenon
<1>5. header_cc_inc(h) \in HeaderType
  <2>1. h \in HeaderType
    BY <1>3, <1>4, HeaderTypes, Zenon
  <2> QED BY <2>1, HeaderTypes, Zenon
<1>6. packets_counter' \in Nat
  BY DEF WriteTail, Write, TypeInv, TypeOK
<1>7. Payload(header_cc_inc(h), left, lay)
  BY Zenon DEF WriteTail
<1> HIDE DEF lay, h, left
<1> QED BY <1>1, <1>3, <1>4, <1>5, <1>6, <1>7, PayloadKeepsTypes

LEMMA NextKeepsTypes == TypeInv /\ [Next]_vars => TypeInv'
<1> SUFFICES ASSUME TypeInv, [Next]_vars PROVE TypeInv'
  OBVIOUS
<1>1. CASE UNCHANGED vars
  BY <1>1 DEF vars, spts_vars, TypeInv, TypeOK
<1>2. CASE WriteStep
  BY <1>2, PsiKeepsTypes, CloseGopKeepsTypes, WriteHeadKeepsTypes, WriteTailKeepsTypes
  DEF WriteStep
<1>3. ASSUME NEW idr \in BOOLEAN, NEW size \in VideoSizes, NEW ts \in Timestamps,
             WriteVideo(idr, size, ts)
      PROVE  TypeInv'
  BY <1>3, WriteVideoKeepsTypes
<1>4. ASSUME NEW size \in AudioSizes, NEW ts \in Timestamps, WriteAudio(size, ts)
      PROVE  TypeInv'
  BY <1>4, WriteAudioKeepsTypes
<1> QED
  BY <1>1, <1>2, <1>3, <1>4, RequestPadKeepsTypes, FirstCollectedKeepsTypes
  DEF Next, CollectedNothing

LEMMA TypeInvariant == Spec => []TypeInv
BY InitTypeInv, NextKeepsTypes, PTL DEF Spec

(* Type correctness of spts.c: in particular no packet takes more bytes    *)
(* than its frame has left, for any size, with or without a PCR, so the    *)
(* unsigned pes_packet_length never wraps and the copy stays in the frame. *)
THEOREM TypeCorrect == Spec => []TypeOK
<1>1. TypeInv => TypeOK
  BY DEF TypeInv
<1> QED BY <1>1, TypeInvariant, PTL

-----------------------------------------------------------------------------
(* Continuity and accounting.  Each packet template holds the counter that *)
(* comes next on its PID, and each stream the number of packets sent.      *)

Follows(next, last) == last = -1 \/ next = (last + 1) % 16

KindInv(k) ==
  /\ numsinkpads[k] = 0 => rx.cc[PidOf(k)] = -1 /\ rx.sent[PidOf(k)] = 0
  /\ numsinkpads[k] = 1 => /\ Follows(streams[k][1].header.cc, rx.cc[PidOf(k)])
                           /\ streams[k][1].packets_counter = rx.sent[PidOf(k)]

HeadersInv == \A k \in Kinds, i \in 1..MaxPads : streams[k][i].header.pid = PidOf(k)

PointerInv == pc \in Writing => frame.n <= numsinkpads[frame.kind]

CountInv ==
  /\ RxType(rx) /\ packets_counter = rx.count
  /\ HeadersInv /\ PointerInv
  /\ Follows(pat.cc, rx.cc[PAT_PID]) /\ Follows(pmt.cc, rx.cc[PMT_PID])
  /\ OneStreamPerPid => "continuity" \notin rx.faults /\ \A k \in Kinds : KindInv(k)

LEMMA InitCountInv == Init => CountInv
<1> SUFFICES ASSUME Init PROVE CountInv
  OBVIOUS
<1>1. /\ \A p \in CcPids : rx.cc[p] = -1
      /\ \A p \in EsPids : rx.sent[p] = 0
      /\ rx.count = 0 /\ rx.faults = {}
  BY DEF Init, ReceiverInit
<1>2. RxType(rx)
  BY ReceiverInitType DEF Init
<1>3. HeadersInv
  BY DEF Init, HeadersInv, NewStream, tspacket_header_init
<1>4. \A k \in Kinds : KindInv(k)
  BY <1>1, PidsOfKinds DEF KindInv, Init
<1> QED
  BY <1>1, <1>2, <1>3, <1>4, Pids DEF Init, CountInv, PointerInv, Writing, Follows

(* The steps that write a packet of a frame, as the invariant sees them.   *)
EsStep ==
  /\ pc \in {"head", "tail"} /\ pc' \in {"idle", "tail"}
  /\ pc' = "tail" => frame'.kind = frame.kind /\ frame'.n = frame.n
  /\ \E p : p.pid = Stream.header.pid /\ p.cc = Stream.header.cc /\ Write(p)
  /\ \E s : /\ streams' = [streams EXCEPT ![frame.kind][frame.n] = s]
            /\ s.header.pid = Stream.header.pid
            /\ s.header.cc = (Stream.header.cc + 1) % 16
            /\ s.packets_counter = Stream.packets_counter + 1
  /\ UNCHANGED << numsinkpads, pat, pmt, gop_counter >>

LEMMA HeaderFields ==
  ASSUME NEW h \in HeaderType
  PROVE  /\ \A b \in BOOLEAN : /\ header_set_start_unit_indicator(h, b).pid = h.pid
                               /\ header_set_start_unit_indicator(h, b).cc = h.cc
         /\ \A afc \in {PAYLOAD_ONLY, ADAPTATION_AND_PAYLOAD} :
              /\ header_set_adaptation_field_control(h, afc).pid = h.pid
              /\ header_set_adaptation_field_control(h, afc).cc = h.cc
         /\ header_cc_inc(h).pid = h.pid
         /\ header_cc_inc(h).cc = (h.cc + 1) % 16
BY DEF HeaderType, header_cc_inc, header_set_start_unit_indicator,
       header_set_adaptation_field_control

LEMMA StreamPointed ==
  ASSUME TypeInv, pc \in Writing
  PROVE  /\ frame.kind \in Kinds /\ frame.n \in 1..MaxPads
         /\ Stream \in StreamType /\ Stream = streams[frame.kind][frame.n]
         /\ Stream.header \in HeaderType /\ Stream.pcr_reference \in BOOLEAN
         /\ Stream.pes_packet_length \in Nat
<1>1. frame.kind \in Kinds /\ frame.n \in 1..MaxPads /\ Stream \in StreamType
  BY DEF Stream, TypeInv, TypeOK
<1>2. Stream.header \in HeaderType /\ Stream.pcr_reference \in BOOLEAN /\ Stream.pes_packet_length \in Nat
  <2> HIDE DEF Stream
  <2> QED BY <1>1 DEF StreamType
<1> QED BY <1>1, <1>2 DEF Stream

LEMMA PayloadIsEsStep ==
  ASSUME TypeInv, pc \in {"head", "tail"}, NEW h, NEW left, NEW lay, NEW p,
         h.pid = Stream.header.pid, h.cc = (Stream.header.cc + 1) % 16,
         p.pid = Stream.header.pid, p.cc = Stream.header.cc,
         Write(p), Payload(h, left, lay)
  PROVE  EsStep
<1>1. pc \in Writing
  BY DEF Writing
<1>. DEFINE s == PacketWritten(Stream, h, left - lay.n)
<1>2. s.header = h /\ s.packets_counter = Stream.packets_counter + 1
  <2>1. Stream \in StreamType
    BY <1>1, StreamPointed
  <2> HIDE DEF Stream
  <2> QED BY <2>1 DEF PacketWritten, StreamType
<1>3. streams' = [streams EXCEPT ![frame.kind][frame.n] = s]
  BY DEF Payload
<1>4. /\ pc' \in {"idle", "tail"}
      /\ pc' = "tail" => frame'.kind = frame.kind /\ frame'.n = frame.n
      /\ UNCHANGED << numsinkpads, pat, pmt, gop_counter >>
  BY <1>1 DEF Payload, TypeInv, TypeOK, FrameType
<1> HIDE DEF s
<1>5. \E t : /\ streams' = [streams EXCEPT ![frame.kind][frame.n] = t]
            /\ t.header.pid = Stream.header.pid
            /\ t.header.cc = (Stream.header.cc + 1) % 16
            /\ t.packets_counter = Stream.packets_counter + 1
  BY <1>2, <1>3
<1>6. \E q : q.pid = Stream.header.pid /\ q.cc = Stream.header.cc /\ Write(q)
  OBVIOUS
<1> QED BY <1>4, <1>5, <1>6, Zenon DEF EsStep

LEMMA HeadIsEsStep ==
  ASSUME TypeInv, WriteHead PROVE EsStep
<1>. DEFINE lay   == HeadLayout(Stream.pcr_reference, frame.size)
            h1    == header_set_start_unit_indicator(Stream.header, TRUE)
            h     == header_set_adaptation_field_control(h1, lay.afc)
            pcr   == IF Stream.pcr_reference THEN TimeField(pcr_base(frame.pts)) ELSE -1
            h2    == header_set_adaptation_field_control(header_cc_inc(h), PAYLOAD_ONLY)
            after == header_set_start_unit_indicator(h2, FALSE)
            p     == EsPacket(h, lay, pcr)
<1>1. pc \in Writing /\ pc = "head"
  BY DEF WriteHead, Writing
<1>2. Stream.header \in HeaderType /\ lay.afc \in {PAYLOAD_ONLY, ADAPTATION_AND_PAYLOAD}
  <2>1. frame.size \in Nat /\ Stream.pcr_reference \in BOOLEAN /\ Stream.header \in HeaderType
    BY <1>1, StreamPointed DEF TypeInv, TypeOK, FrameType
  <2> QED BY <2>1, HeadFits, Zenon
<1>3. h1 \in HeaderType /\ h1.pid = Stream.header.pid /\ h1.cc = Stream.header.cc
  BY <1>2, HeaderTypes, HeaderFields, Zenon
<1>4. h \in HeaderType /\ h.pid = Stream.header.pid /\ h.cc = Stream.header.cc
  <2> HIDE DEF lay, h1
  <2> QED BY <1>2, <1>3, HeaderTypes, HeaderFields
<1>5. h2 \in HeaderType /\ h2.pid = Stream.header.pid /\ h2.cc = (Stream.header.cc + 1) % 16
  <2> HIDE DEF h
  <2> QED BY <1>4, HeaderTypes, HeaderFields
<1>6. after.pid = Stream.header.pid /\ after.cc = (Stream.header.cc + 1) % 16
  <2> HIDE DEF h2
  <2> QED BY <1>5, HeaderTypes, HeaderFields, Zenon
<1>7. p.pid = Stream.header.pid /\ p.cc = Stream.header.cc
  <2>1. p.pid = h.pid /\ p.cc = h.cc
    <3> HIDE DEF h, lay, pcr
    <3> QED BY DEF EsPacket
  <2> QED BY <1>4, <2>1
<1>8. Write(p) /\ Payload(after, frame.size, lay)
  BY Zenon DEF WriteHead
<1> HIDE DEF lay, h1, h, pcr, h2, after, p
<1> QED BY <1>1, <1>6, <1>7, <1>8, PayloadIsEsStep

LEMMA TailIsEsStep ==
  ASSUME TypeInv, WriteTail PROVE EsStep
<1>. DEFINE left == Stream.pes_packet_length
            lay  == TailLayout(left)
            h    == IF lay.afc = ADAPTATION_AND_PAYLOAD
                    THEN header_set_adaptation_field_control(Stream.header, lay.afc)
                    ELSE Stream.header
            p    == EsPacket(h, lay, -1)
<1>1. pc \in Writing /\ pc = "tail"
  BY DEF WriteTail, Writing
<1>2. Stream.header \in HeaderType /\ lay.afc \in {PAYLOAD_ONLY, ADAPTATION_AND_PAYLOAD}
  BY <1>1, StreamPointed, TailFits
<1>3. h \in HeaderType /\ h.pid = Stream.header.pid /\ h.cc = Stream.header.cc
  <2> HIDE DEF lay
  <2> QED BY <1>2, HeaderTypes, HeaderFields
<1>4. header_cc_inc(h).pid = Stream.header.pid /\ header_cc_inc(h).cc = (Stream.header.cc + 1) % 16
  <2> HIDE DEF h
  <2> QED BY <1>3, HeaderFields
<1>5. p.pid = Stream.header.pid /\ p.cc = Stream.header.cc
  <2>1. p.pid = h.pid /\ p.cc = h.cc
    <3> HIDE DEF h, lay
    <3> QED BY DEF EsPacket
  <2> QED BY <1>3, <2>1
<1>6. Write(p) /\ Payload(header_cc_inc(h), left, lay)
  BY Zenon DEF WriteTail
<1> HIDE DEF left, lay, h, p
<1> QED BY <1>1, <1>4, <1>5, <1>6, PayloadIsEsStep

LEMMA PidsDistinguishKinds ==
  ASSUME NEW k \in Kinds, NEW l \in Kinds, k # l
  PROVE  /\ PidOf(k) # PidOf(l)
         /\ PidOf(k) # PAT_PID /\ PidOf(k) # PMT_PID /\ PidOf(k) # NULL_PID
BY Pids DEF PidOf, Kinds, VIDEO_PID, AUDIO_PID

LEMMA PidOfKind ==
  ASSUME NEW k \in Kinds
  PROVE  /\ PidOf(k) \in EsPids /\ PidOf(k) \in CcPids
         /\ PidOf(k) # PAT_PID /\ PidOf(k) # PMT_PID /\ PidOf(k) # NULL_PID
BY Pids DEF PidOf, Kinds, VIDEO_PID, AUDIO_PID

(* A packet of a frame moves the counter of its own PID, to the value that *)
(* the template held, and steps the template.                              *)
LEMMA EsStepKeepsCountInv ==
  ASSUME TypeInv, CountInv, EsStep PROVE CountInv'
<1>. DEFINE kind == frame.kind
            n    == frame.n
            old  == Stream
<1>1. PICK p : p.pid = old.header.pid /\ p.cc = old.header.cc /\ Write(p)
  BY Zenon DEF EsStep
<1>2. PICK s : /\ streams' = [streams EXCEPT ![kind][n] = s]
               /\ s.header.pid = old.header.pid
               /\ s.header.cc = (old.header.cc + 1) % 16
               /\ s.packets_counter = old.packets_counter + 1
  BY Zenon DEF EsStep
<1>3. /\ kind \in Kinds /\ n \in 1..MaxPads /\ pc \in Writing
      /\ old = streams[kind][n] /\ old.header.cc \in 0..15 /\ old.packets_counter \in Nat
  <2>1. pc \in Writing
    BY DEF EsStep, Writing
  <2>2. old \in StreamType /\ old = streams[kind][n] /\ kind \in Kinds /\ n \in 1..MaxPads
    BY <2>1, StreamPointed
  <2> HIDE DEF old
  <2> QED BY <2>1, <2>2 DEF StreamType, HeaderType
<1>4. old.header.pid = PidOf(kind) /\ p.pid = PidOf(kind)
  BY <1>1, <1>3 DEF CountInv, HeadersInv
<1> HIDE DEF old
<1>5. Counted(rx, p, rx')
  <2>1. RxType(rx) /\ p.pid \in EsPids /\ p.cc \in 0..15
    BY <1>1, <1>3, <1>4, PidOfKind DEF CountInv
  <2> QED BY <1>1, <2>1, EsReceived DEF Write
<1>6. RxType(rx') /\ packets_counter' = rx'.count
  BY <1>1, <1>5 DEF Counted, Write, CountInv
<1>7. /\ rx'.cc = [rx.cc EXCEPT ![PidOf(kind)] = old.header.cc]
      /\ rx'.sent = [rx.sent EXCEPT ![PidOf(kind)] = @ + 1]
  BY <1>1, <1>3, <1>4, <1>5, PidOfKind DEF Counted
<1>8. /\ rx.cc \in [CcPids -> Int] /\ rx.sent \in [EsPids -> Nat]
      /\ streams \in [Kinds -> [1..MaxPads -> StreamType]]
  BY DEF CountInv, RxType, TypeInv, TypeOK
<1>9. ASSUME NEW k \in Kinds, NEW i \in 1..MaxPads
      PROVE  streams'[k][i] = IF k = kind /\ i = n THEN s ELSE streams[k][i]
  BY <1>2, <1>3, <1>8
<1>10. HeadersInv'
  BY <1>2, <1>4, <1>9 DEF CountInv, HeadersInv
<1>11. PointerInv'
  BY <1>3 DEF CountInv, PointerInv, EsStep, Writing
<1>12. Follows(pat.cc, rx.cc[PAT_PID])' /\ Follows(pmt.cc, rx.cc[PMT_PID])'
  <2>1. rx'.cc[PAT_PID] = rx.cc[PAT_PID] /\ rx'.cc[PMT_PID] = rx.cc[PMT_PID]
    <3>1. PAT_PID \in CcPids /\ PMT_PID \in CcPids
      BY Pids
    <3>2. PidOf(kind) # PAT_PID /\ PidOf(kind) # PMT_PID
      BY <1>3, PidOfKind
    <3> QED BY <1>7, <1>8, <3>1, <3>2
  <2>2. pat' = pat /\ pmt' = pmt
    BY DEF EsStep
  <2> QED BY <2>1, <2>2 DEF CountInv, Follows
<1>13. ASSUME OneStreamPerPid'
       PROVE  "continuity" \notin rx'.faults /\ \A k \in Kinds : KindInv(k)'
  <2>1. OneStreamPerPid /\ numsinkpads' = numsinkpads
    BY <1>13 DEF OneStreamPerPid, EsStep
  <2>2. n = 1 /\ numsinkpads[kind] = 1
    <3>1. n <= numsinkpads[kind] /\ numsinkpads[kind] <= 1 /\ numsinkpads[kind] \in 0..MaxPads
      BY <1>3, <2>1 DEF CountInv, PointerInv, OneStreamPerPid, TypeInv, TypeOK
    <3> QED BY <1>3, <3>1, ProgramAssumption
  <2>3. /\ Follows(old.header.cc, rx.cc[PidOf(kind)])
        /\ old.packets_counter = rx.sent[PidOf(kind)]
    BY <1>3, <2>1, <2>2 DEF CountInv, KindInv
  <2>4. "continuity" \notin rx'.faults
    BY <1>1, <1>4, <1>5, <2>1, <2>3 DEF Counted, Follows, CountInv
  <2>5. ASSUME NEW k \in Kinds PROVE KindInv(k)'
    <3>1. CASE k = kind
      <4>1. rx'.cc[PidOf(kind)] = old.header.cc /\ rx'.sent[PidOf(kind)] = old.packets_counter + 1
        BY <1>3, <1>7, <1>8, <2>3, PidOfKind
      <4>2. streams'[k][1] = s
        BY <1>3, <1>9, <2>2, <3>1
      <4> QED BY <1>2, <2>1, <2>2, <3>1, <4>1, <4>2 DEF KindInv, Follows
    <3>2. CASE k # kind
      <4>1. rx'.cc[PidOf(k)] = rx.cc[PidOf(k)] /\ rx'.sent[PidOf(k)] = rx.sent[PidOf(k)]
        BY <1>3, <1>7, <1>8, <3>2, PidOfKind, PidsDistinguishKinds
      <4>2. streams'[k][1] = streams[k][1]
        BY <1>3, <1>9, <2>2, <3>2
      <4>3. KindInv(k)
        BY <2>1 DEF CountInv
      <4> QED BY <2>1, <4>1, <4>2, <4>3 DEF KindInv
    <3> QED BY <3>1, <3>2
  <2> QED BY <2>4, <2>5
<1> QED BY <1>6, <1>10, <1>11, <1>12, <1>13 DEF CountInv

(* So does a PSI packet; a null packet moves none.                         *)
LEMMA PsiKeepsCountInv ==
  ASSUME TypeInv, CountInv, WriteNull \/ WritePat \/ WritePmt PROVE CountInv'
<1>1. /\ UNCHANGED << numsinkpads, streams, frame >>
      /\ pc \in Writing /\ pc' \in Writing
  BY DEF WriteNull, WritePat, WritePmt, Writing
<1>2. /\ RxType(rx) /\ rx.cc \in [CcPids -> Int] /\ pat \in HeaderType /\ pmt \in HeaderType
      /\ pat.cc \in 0..15 /\ pmt.cc \in 0..15
  BY DEF CountInv, RxType, TypeInv, TypeOK, HeaderType
<1>3. /\ RxType(rx') /\ packets_counter' = rx'.count /\ rx'.sent = rx.sent
      /\ \A k \in Kinds : rx'.cc[PidOf(k)] = rx.cc[PidOf(k)]
      /\ "continuity" \in rx'.faults => "continuity" \in rx.faults
      /\ Follows(pat.cc, rx.cc[PAT_PID])' /\ Follows(pmt.cc, rx.cc[PMT_PID])'
  <2>1. CASE WriteNull
    <3>. DEFINE p == [pid |-> NULL_PID]
    <3>1. Counted(rx, p, rx') /\ packets_counter' = packets_counter + 1
      BY <1>2, <2>1, NullReceived DEF WriteNull, Write
    <3>2. p.pid = NULL_PID /\ p.pid \notin EsPids
      BY Pids
    <3>3. UNCHANGED << pat, pmt >>
      BY <2>1 DEF WriteNull
    <3> HIDE DEF p
    <3> QED BY <3>1, <3>2, <3>3 DEF Counted, CountInv, Follows
  <2>2. CASE WritePat
    <3>. DEFINE p == [pid |-> PAT_PID, cc |-> pat.cc, section |-> pat_section]
    <3>1. p.pid = PAT_PID /\ p.cc = pat.cc /\ PAT_PID # NULL_PID /\ PAT_PID \notin EsPids
          /\ PAT_PID \in CcPids /\ PMT_PID # PAT_PID /\ PMT_PID \in CcPids
      BY Pids
    <3>2. Write(p) /\ pat' = header_cc_inc(pat) /\ pmt' = pmt
      BY <2>2 DEF WritePat
    <3> HIDE DEF p
    <3>3. Counted(rx, p, rx') /\ packets_counter' = packets_counter + 1
      BY <1>2, <3>1, <3>2, PatReceived DEF Write
    <3>4. pat'.cc = (pat.cc + 1) % 16
      BY <1>2, <3>2, HeaderFields
    <3>5. rx'.cc = [rx.cc EXCEPT ![PAT_PID] = pat.cc] /\ rx'.sent = rx.sent
      BY <3>1, <3>3 DEF Counted
    <3>6. Follows(pat.cc, rx.cc[PAT_PID])
      BY DEF CountInv
    <3>7. "continuity" \in rx'.faults => "continuity" \in rx.faults
      BY <3>1, <3>3, <3>6 DEF Counted, Follows
    <3>8. \A k \in Kinds : rx'.cc[PidOf(k)] = rx.cc[PidOf(k)]
      BY <1>2, <3>5, PidOfKind
    <3>9. Follows(pat.cc, rx.cc[PAT_PID])' /\ Follows(pmt.cc, rx.cc[PMT_PID])'
      BY <1>2, <3>1, <3>2, <3>4, <3>5 DEF Follows, CountInv
    <3> QED BY <3>3, <3>5, <3>7, <3>8, <3>9 DEF Counted, CountInv
  <2>3. CASE WritePmt
    <3>. DEFINE p == [pid |-> PMT_PID, cc |-> pmt.cc, section |-> pmt_section]
    <3>1. p.pid = PMT_PID /\ p.cc = pmt.cc /\ PMT_PID # NULL_PID /\ PMT_PID \notin EsPids
          /\ PAT_PID \in CcPids /\ PMT_PID # PAT_PID /\ PMT_PID \in CcPids
      BY Pids
    <3>2. Write(p) /\ pmt' = header_cc_inc(pmt) /\ pat' = pat
      BY <2>3 DEF WritePmt
    <3> HIDE DEF p
    <3>3. Counted(rx, p, rx') /\ packets_counter' = packets_counter + 1
      BY <1>2, <3>1, <3>2, PmtReceived DEF Write
    <3>4. pmt'.cc = (pmt.cc + 1) % 16
      BY <1>2, <3>2, HeaderFields
    <3>5. rx'.cc = [rx.cc EXCEPT ![PMT_PID] = pmt.cc] /\ rx'.sent = rx.sent
      BY <3>1, <3>3 DEF Counted
    <3>6. Follows(pmt.cc, rx.cc[PMT_PID])
      BY DEF CountInv
    <3>7. "continuity" \in rx'.faults => "continuity" \in rx.faults
      BY <3>1, <3>3, <3>6 DEF Counted, Follows
    <3>8. \A k \in Kinds : rx'.cc[PidOf(k)] = rx.cc[PidOf(k)]
      BY <1>2, <3>5, PidOfKind
    <3>9. Follows(pat.cc, rx.cc[PAT_PID])' /\ Follows(pmt.cc, rx.cc[PMT_PID])'
      BY <1>2, <3>1, <3>2, <3>4, <3>5 DEF Follows, CountInv
    <3> QED BY <3>3, <3>5, <3>7, <3>8, <3>9 DEF Counted, CountInv
  <2> QED BY <2>1, <2>2, <2>3
<1>4. HeadersInv' /\ PointerInv'
  BY <1>1 DEF CountInv, HeadersInv, PointerInv
<1>5. OneStreamPerPid' => "continuity" \notin rx'.faults /\ \A k \in Kinds : KindInv(k)'
  BY <1>1, <1>3 DEF CountInv, OneStreamPerPid, KindInv
<1> QED BY <1>3, <1>4, <1>5 DEF CountInv

(* The steps that write nothing keep every header and packet counter.      *)
SameCounters ==
  \A k \in Kinds, i \in 1..MaxPads :
    /\ streams'[k][i].header = streams[k][i].header
    /\ streams'[k][i].packets_counter = streams[k][i].packets_counter

LEMMA QuietKeepsCountInv ==
  ASSUME CountInv, SameCounters,
         UNCHANGED << rx, packets_counter, pat, pmt, numsinkpads >>, PointerInv'
  PROVE  CountInv'
<1>1. HeadersInv'
  BY DEF CountInv, HeadersInv, SameCounters
<1>2. OneStreamPerPid' => "continuity" \notin rx'.faults /\ \A k \in Kinds : KindInv(k)'
  <2>1. ASSUME OneStreamPerPid, NEW k \in Kinds PROVE KindInv(k)'
    <3>1. KindInv(k) /\ 1 \in 1..MaxPads
      BY <2>1, ProgramAssumption DEF CountInv
    <3> QED BY <3>1 DEF KindInv, SameCounters
  <2> QED BY <2>1 DEF OneStreamPerPid, CountInv
<1> QED BY <1>1, <1>2 DEF CountInv

LEMMA RecordGopCounters ==
  ASSUME NEW s \in StreamType
  PROVE  RecordGop(s).header = s.header /\ RecordGop(s).packets_counter = s.packets_counter
<1>. DEFINE packets == s.packets_counter - s.last_gop_packets_counter
            max     == IF packets > s.max_gop_packets THEN packets ELSE s.max_gop_packets
<1>1. RecordGop(s) = [s EXCEPT !.max_gop_packets = max,
                               !.last_gop_packets_counter = s.packets_counter]
  BY DEF RecordGop
<1> HIDE DEF max
<1> QED BY <1>1 DEF StreamType

(* Storing a stream with the counters of the one it replaces.              *)
LEMMA StoreSameCounters ==
  ASSUME NEW old \in [Kinds -> [1..MaxPads -> StreamType]],
         NEW k \in Kinds, NEW n \in 1..MaxPads, NEW s,
         s.header = old[k][n].header, s.packets_counter = old[k][n].packets_counter,
         NEW l \in Kinds, NEW i \in 1..MaxPads
  PROVE  LET new == [old EXCEPT ![k][n] = s]
         IN  /\ new[l][i].header = old[l][i].header
             /\ new[l][i].packets_counter = old[l][i].packets_counter
OBVIOUS

LEMMA WriteVideoKeepsCountInv ==
  ASSUME TypeInv, CountInv, NEW idr \in BOOLEAN, NEW size \in VideoSizes, NEW ts \in Timestamps,
         WriteVideo(idr, size, ts)
  PROVE  CountInv'
<1>. DEFINE n == numsinkpads["video"]
            s == [streams["video"][n] EXCEPT !.frames_counter = @ + 1]
<1>1. "video" \in Kinds /\ n \in 1..MaxPads
  BY ProgramAssumption DEF TypeInv, TypeOK, WriteVideo, Kinds
<1>2. streams["video"][n] \in StreamType
  BY <1>1 DEF TypeInv, TypeOK
<1>3. s.header = streams["video"][n].header /\ s.packets_counter = streams["video"][n].packets_counter
  BY <1>2 DEF StreamType
<1>4. streams' = [streams EXCEPT !["video"][n] = s]
  BY DEF WriteVideo, Current
<1>5. SameCounters
  <2> HIDE DEF n, s
  <2> QED BY <1>1, <1>3, <1>4, StoreSameCounters DEF SameCounters, TypeInv, TypeOK
<1>6. PointerInv' /\ UNCHANGED << rx, packets_counter, pat, pmt, numsinkpads >>
  <2>1. frame'.kind = "video" /\ frame'.n = n /\ n \in Int
    BY <1>1 DEF WriteVideo, NewFrame, Current
  <2>2. UNCHANGED << rx, packets_counter, pat, pmt, numsinkpads >>
    BY DEF WriteVideo
  <2> QED BY <2>1, <2>2 DEF PointerInv
<1> QED BY <1>5, <1>6, QuietKeepsCountInv

LEMMA WriteAudioKeepsCountInv ==
  ASSUME TypeInv, CountInv, NEW size \in AudioSizes, NEW ts \in Timestamps, WriteAudio(size, ts)
  PROVE  CountInv'
<1>1. UNCHANGED << rx, numsinkpads, spts_vars >>
  BY DEF WriteAudio
<1>2. SameCounters /\ UNCHANGED << rx, packets_counter, pat, pmt, numsinkpads >>
  BY <1>1 DEF SameCounters, spts_vars
<1>3. PointerInv'
  <2>1. numsinkpads["audio"] \in Int
    BY DEF TypeInv, TypeOK, Kinds
  <2>2. CASE AudioKept
    <3>1. frame' = NewFrame("audio", FALSE, size, ts)
      BY <2>2 DEF WriteAudio
    <3>2. frame'.kind = "audio" /\ frame'.n = numsinkpads["audio"]
      BY <3>1, Zenon DEF NewFrame, Current
    <3> QED BY <1>1, <2>1, <3>2 DEF PointerInv
  <2>3. CASE ~AudioKept
    BY <1>1, <2>3 DEF WriteAudio, PointerInv, CountInv
  <2> QED BY <2>2, <2>3
<1> QED BY <1>2, <1>3, QuietKeepsCountInv

LEMMA FirstCollectedKeepsCountInv ==
  ASSUME TypeInv, CountInv, FirstCollected PROVE CountInv'
<1>. DEFINE c == ClockKind
            n == Current(ClockKind)
            marked == [streams[c] EXCEPT ![n].pcr_reference = TRUE]
<1>1. c \in Kinds
  BY DEF ClockKind, Kinds
<1>2. streams \in [Kinds -> [1..MaxPads -> StreamType]]
  BY DEF TypeInv, TypeOK
<1>3. \A i \in 1..MaxPads : /\ marked[i].header = streams[c][i].header
                            /\ marked[i].packets_counter = streams[c][i].packets_counter
  <2> HIDE DEF c, n
  <2> QED BY <1>1, <1>2 DEF StreamType
<1>4. streams' = [streams EXCEPT ![c] = marked]
  BY DEF FirstCollected
<1>5. SameCounters
  <2> HIDE DEF c, marked
  <2> QED BY <1>1, <1>2, <1>3, <1>4 DEF SameCounters
<1> QED
  BY <1>5, QuietKeepsCountInv DEF FirstCollected, CountInv, PointerInv

LEMMA CloseGopKeepsCountInv ==
  ASSUME TypeInv, CountInv, CloseGop PROVE CountInv'
<1>. DEFINE video == [RecordGop(Stream) EXCEPT !.last_gop_frames_counter = Stream.frames_counter]
            a     == Current("audio")
            k     == frame.kind
            n     == frame.n
            after == [streams EXCEPT ![k][n] = video]
<1>1. k \in Kinds /\ n \in 1..MaxPads /\ pc \in Writing /\ Stream \in StreamType
      /\ Stream = streams[k][n]
  BY StreamPointed DEF CloseGop, Writing
<1>2. streams \in [Kinds -> [1..MaxPads -> StreamType]] /\ "audio" \in Kinds
  BY DEF TypeInv, TypeOK, Kinds
<1>3. /\ video \in StreamType
      /\ video.header = streams[k][n].header /\ video.packets_counter = streams[k][n].packets_counter
  <2>1. RecordGop(Stream) \in StreamType /\ Stream.frames_counter \in Nat
    <3> HIDE DEF Stream
    <3> QED BY <1>1, RecordGopType DEF StreamType
  <2>2. /\ RecordGop(Stream).header = Stream.header
        /\ RecordGop(Stream).packets_counter = Stream.packets_counter
    BY <1>1, RecordGopCounters
  <2> HIDE DEF Stream, k, n
  <2> QED BY <1>1, <2>1, <2>2 DEF StreamType
<1>4. after \in [Kinds -> [1..MaxPads -> StreamType]]
  <2> HIDE DEF video, k, n
  <2> QED BY <1>1, <1>2, <1>3, StoreStreamType
<1>5. ASSUME NEW l \in Kinds, NEW i \in 1..MaxPads
      PROVE  /\ after[l][i].header = streams[l][i].header
             /\ after[l][i].packets_counter = streams[l][i].packets_counter
  <2> HIDE DEF video, k, n
  <2> QED BY <1>1, <1>2, <1>3, StoreSameCounters
<1>6. SameCounters
  <2>1. CASE a = 0
    <3>1. streams' = after
      BY <2>1 DEF CloseGop
    <3> HIDE DEF after
    <3> QED BY <1>5, <3>1 DEF SameCounters
  <2>2. CASE a # 0
    <3>. DEFINE s == RecordGop(streams["audio"][a])
    <3>1. a \in 1..MaxPads
      BY <2>2, ProgramAssumption DEF TypeInv, TypeOK, Current, Kinds
    <3>2. /\ s.header = streams["audio"][a].header
          /\ s.packets_counter = streams["audio"][a].packets_counter
      <4> HIDE DEF a
      <4> QED BY <1>2, <3>1, RecordGopCounters
    <3>3. streams' = [after EXCEPT !["audio"][a] = s]
      BY <2>2 DEF CloseGop
    <3> HIDE DEF after, a, s
    <3>4. /\ s.header = after["audio"][a].header
          /\ s.packets_counter = after["audio"][a].packets_counter
      BY <1>2, <1>5, <3>1, <3>2
    <3>5. ASSUME NEW l \in Kinds, NEW i \in 1..MaxPads
          PROVE  /\ streams'[l][i].header = after[l][i].header
                 /\ streams'[l][i].packets_counter = after[l][i].packets_counter
      BY <1>2, <1>4, <3>1, <3>3, <3>4, StoreSameCounters
    <3> QED BY <1>5, <3>5 DEF SameCounters
  <2> QED BY <2>1, <2>2
<1>7. PointerInv' /\ UNCHANGED << rx, packets_counter, pat, pmt, numsinkpads >>
  BY <1>1 DEF CloseGop, CountInv, PointerInv
<1> QED BY <1>6, <1>7, QuietKeepsCountInv

(* A new stream starts at counter 0, on a PID nothing was sent on.         *)
LEMMA RequestPadKeepsCountInv ==
  ASSUME TypeInv, CountInv, NEW k \in Kinds, RequestPad(k) PROVE CountInv'
<1>. DEFINE n == numsinkpads[k] + 1
<1>1. n \in 1..MaxPads /\ numsinkpads \in [Kinds -> 0..MaxPads]
      /\ streams \in [Kinds -> [1..MaxPads -> StreamType]]
  BY ProgramAssumption DEF TypeInv, TypeOK, RequestPad
<1>2. /\ numsinkpads' = [numsinkpads EXCEPT ![k] = n]
      /\ streams' = [streams EXCEPT ![k][n] = NewStream(k)]
      /\ UNCHANGED << rx, packets_counter, pat, pmt, pc, frame >>
  BY DEF RequestPad, Current
<1>3. /\ NewStream(k).header.pid = PidOf(k) /\ NewStream(k).header.cc = 0
      /\ NewStream(k).packets_counter = 0
  BY DEF NewStream, tspacket_header_init
<1>4. HeadersInv'
  <2> HIDE DEF n
  <2> QED BY <1>1, <1>2, <1>3 DEF CountInv, HeadersInv
<1>5. PointerInv'
  <2>1. CASE pc \in Writing
    <3>1. frame.kind \in Kinds /\ frame.n \in Int /\ frame.n <= numsinkpads[frame.kind]
      BY <2>1 DEF TypeInv, CountInv, PointerInv
    <3> QED BY <1>1, <1>2, <3>1 DEF PointerInv
  <2>2. CASE pc \notin Writing
    BY <1>2, <2>2 DEF PointerInv
  <2> QED BY <2>1, <2>2
<1>6. ASSUME OneStreamPerPid'
      PROVE  "continuity" \notin rx'.faults /\ \A l \in Kinds : KindInv(l)'
  <2>1. OneStreamPerPid /\ n = 1 /\ numsinkpads[k] = 0
    <3>1. n <= 1
      BY <1>1, <1>2, <1>6 DEF OneStreamPerPid
    <3>2. \A l \in Kinds : numsinkpads[l] <= 1
      BY <1>1, <1>2, <1>6, <3>1 DEF OneStreamPerPid
    <3> QED BY <1>1, <3>1, <3>2 DEF OneStreamPerPid
  <2>2. "continuity" \notin rx'.faults /\ \A l \in Kinds : KindInv(l)
    BY <1>2, <2>1 DEF CountInv
  <2>3. ASSUME NEW l \in Kinds PROVE KindInv(l)'
    <3>1. CASE l = k
      <4>1. rx'.cc[PidOf(k)] = -1 /\ rx'.sent[PidOf(k)] = 0
        BY <1>2, <2>1, <2>2 DEF KindInv
      <4>2. streams'[k][1] = NewStream(k) /\ numsinkpads'[k] = 1
        BY <1>1, <1>2, <2>1
      <4> QED BY <1>3, <3>1, <4>1, <4>2 DEF KindInv, Follows
    <3>2. CASE l # k
      <4>1. streams'[l] = streams[l] /\ numsinkpads'[l] = numsinkpads[l]
        BY <1>1, <1>2, <3>2
      <4> QED BY <1>2, <2>2, <4>1 DEF KindInv
    <3> QED BY <3>1, <3>2
  <2> QED BY <2>2, <2>3
<1>7. Follows(pat.cc, rx.cc[PAT_PID])' /\ Follows(pmt.cc, rx.cc[PMT_PID])'
      /\ RxType(rx') /\ packets_counter' = rx'.count
  BY <1>2 DEF CountInv, Follows
<1> QED BY <1>4, <1>5, <1>6, <1>7 DEF CountInv

LEMMA NextKeepsCountInv == TypeInv /\ CountInv /\ [Next]_vars => CountInv'
<1> SUFFICES ASSUME TypeInv, CountInv, [Next]_vars PROVE CountInv'
  OBVIOUS
<1>1. CASE UNCHANGED vars
  <2>1. SameCounters /\ UNCHANGED << rx, packets_counter, pat, pmt, numsinkpads, pc, frame >>
    BY <1>1 DEF vars, spts_vars, SameCounters
  <2> QED BY <2>1, QuietKeepsCountInv DEF CountInv, PointerInv
<1>2. CASE WriteStep
  BY <1>2, PsiKeepsCountInv, CloseGopKeepsCountInv, HeadIsEsStep, TailIsEsStep,
     EsStepKeepsCountInv
  DEF WriteStep
<1>3. ASSUME NEW idr \in BOOLEAN, NEW size \in VideoSizes, NEW ts \in Timestamps,
             WriteVideo(idr, size, ts)
      PROVE  CountInv'
  BY <1>3, WriteVideoKeepsCountInv
<1>4. ASSUME NEW size \in AudioSizes, NEW ts \in Timestamps, WriteAudio(size, ts)
      PROVE  CountInv'
  BY <1>4, WriteAudioKeepsCountInv
<1> QED
  BY <1>1, <1>2, <1>3, <1>4, RequestPadKeepsCountInv, FirstCollectedKeepsCountInv
  DEF Next, CollectedNothing

LEMMA CountInvariant == Spec => []CountInv
BY InitCountInv, NextKeepsCountInv, TypeInvariant, PTL DEF Spec

(* On each PID every packet's counter follows the one before, however the  *)
(* frames, the PSI and the padding interleave and whenever pads are        *)
(* requested, as long as no two streams have the same PID.                 *)
THEOREM CountersContinuous == Spec => []Continuity
<1>1. CountInv => Continuity
  BY DEF CountInv, Continuity
<1> QED BY <1>1, CountInvariant, PTL

(* packets_counter of spts.c is the number of packets written, and that of *)
(* each stream the number written on its PID.                              *)
THEOREM PacketsCounted == Spec => []PacketsAccounted
<1>1. CountInv => PacketsAccounted
  BY DEF CountInv, KindInv, PacketsAccounted
<1> QED BY <1>1, CountInvariant, PTL

-----------------------------------------------------------------------------
(* The grid of GOP slots.  The receiver has seen as many PATs as GOPs were *)
(* opened; as long as every GOP fitted its slot, what was received since   *)
(* the last PAT are its packets alone, or null packets up to the next slot.*)

SlotInv ==
  /\ "early" \notin rx.faults
  /\ rx.pats = gop_counter + (IF pc \in {"pmt", "gop"} THEN 1 ELSE 0)

GridInv ==
  rx.fits =>
    /\ rx.onGrid
    /\ rx.pats = 0 => rx.count = rx.gopLen
    /\ rx.pats > 0 => \/ rx.count + GopPackets = rx.pats * GopPackets + rx.gopLen
                      \/ pc = "pad" /\ rx.count <= rx.pats * GopPackets

LEMMA NextSlot ==
  ASSUME NEW n \in Nat, NEW g \in Nat PROVE (n + 1) * g = n * g + g /\ n * g \in Nat
OBVIOUS

LEMMA InitGrid == Init => SlotInv /\ GridInv
BY DEF Init, ReceiverInit, SlotInv, GridInv

(* A packet that belongs to the open GOP.                                  *)
LEMMA GopPacketKeepsGrid ==
  ASSUME SlotInv, GridInv, RxType(rx), NEW p, p.pid # NULL_PID,
         Counted(rx, p, rx'), InGop(rx, p, rx'), pc # "pad", gop_counter' = gop_counter,
         pc \in {"pmt", "gop"} <=> pc' \in {"pmt", "gop"}
  PROVE  SlotInv' /\ GridInv'
<1>1. /\ rx'.pats = rx.pats /\ rx'.gopLen = rx.gopLen + 1 /\ rx'.count = rx.count + 1
      /\ rx'.fits = rx.fits /\ rx'.onGrid = rx.onGrid
      /\ "early" \in rx'.faults => "early" \in rx.faults
  BY DEF Counted, InGop
<1>2. SlotInv'
  BY <1>1 DEF SlotInv
<1>3. GridInv'
  <2>1. rx.pats * GopPackets \in Nat /\ rx.count \in Nat /\ rx.gopLen \in Nat /\ GopPackets \in Nat
    BY NextSlot, GopPacketsAssumption DEF RxType
  <2>2. SUFFICES ASSUME rx'.fits PROVE GridInv'
    BY DEF GridInv
  <2>3. /\ rx.onGrid
        /\ rx.pats = 0 => rx.count = rx.gopLen
        /\ rx.pats > 0 => rx.count + GopPackets = rx.pats * GopPackets + rx.gopLen
    BY <1>1, <2>2 DEF GridInv
  <2>4. rx'.onGrid
    BY <1>1, <2>3
  <2>5. rx'.pats = 0 => rx'.count = rx'.gopLen
    BY <1>1, <2>1, <2>3
  <2>6. rx'.pats > 0 => rx'.count + GopPackets = rx'.pats * GopPackets + rx'.gopLen
    BY <1>1, <2>1, <2>3
  <2> QED BY <2>4, <2>5, <2>6 DEF GridInv
<1> QED BY <1>2, <1>3

LEMMA EsStepKeepsGrid ==
  ASSUME TypeInv, CountInv, SlotInv, GridInv, EsStep PROVE SlotInv' /\ GridInv'
<1>1. PICK p : p.pid = Stream.header.pid /\ p.cc = Stream.header.cc /\ Write(p)
  BY Zenon DEF EsStep
<1>2. pc \in Writing /\ pc \in {"head", "tail"} /\ pc' \in {"idle", "tail"}
      /\ gop_counter' = gop_counter
  BY DEF EsStep, Writing
<1>3. p.pid \in EsPids /\ p.cc \in 0..15 /\ p.pid # NULL_PID
  <2>1. Stream.header \in HeaderType /\ frame.kind \in Kinds /\ frame.n \in 1..MaxPads
        /\ Stream = streams[frame.kind][frame.n]
    BY <1>2, StreamPointed
  <2>2. Stream.header.pid = PidOf(frame.kind) /\ Stream.header.cc \in 0..15
    <3>1. Stream.header.cc \in 0..15
      <4> HIDE DEF Stream
      <4> QED BY <2>1 DEF HeaderType
    <3> QED BY <2>1, <3>1 DEF CountInv, HeadersInv
  <2> HIDE DEF Stream
  <2> QED BY <1>1, <2>1, <2>2, PidOfKind
<1>4. Counted(rx, p, rx') /\ InGop(rx, p, rx')
  BY <1>1, <1>3, EsReceived DEF CountInv, Write
<1>5. RxType(rx)
  BY DEF CountInv
<1> QED BY <1>2, <1>3, <1>4, <1>5, GopPacketKeepsGrid

LEMMA PmtKeepsGrid ==
  ASSUME TypeInv, CountInv, SlotInv, GridInv, WritePmt PROVE SlotInv' /\ GridInv'
<1>. DEFINE p == [pid |-> PMT_PID, cc |-> pmt.cc, section |-> pmt_section]
<1>1. p.pid = PMT_PID /\ p.cc = pmt.cc /\ pmt.cc \in 0..15
  BY DEF TypeInv, TypeOK, HeaderType
<1>2. Write(p) /\ pc = "pmt" /\ pc' = "gop" /\ gop_counter' = gop_counter
  BY DEF WritePmt
<1> HIDE DEF p
<1>3. RxType(rx) /\ p.pid # NULL_PID
  BY <1>1, Pids DEF CountInv
<1>4. Counted(rx, p, rx') /\ InGop(rx, p, rx')
  BY <1>1, <1>2, <1>3, PmtReceived DEF Write
<1> QED BY <1>2, <1>3, <1>4, GopPacketKeepsGrid

(* Null packets stop at the slot.                                          *)
LEMMA NullKeepsGrid ==
  ASSUME TypeInv, CountInv, SlotInv, GridInv, WriteNull PROVE SlotInv' /\ GridInv'
<1>. DEFINE p == [pid |-> NULL_PID]
<1>1. Write(p) /\ p.pid = NULL_PID /\ pc = "pad" /\ pc' = "pad" /\ gop_counter' = gop_counter
  BY DEF WriteNull
<1> HIDE DEF p
<1>2. RxType(rx) /\ packets_counter = rx.count /\ packets_counter < gop_counter * GopPackets
  BY DEF CountInv, WriteNull, SlotOpen
<1>3. Counted(rx, p, rx') /\ InGop(rx, p, rx')
  BY <1>1, <1>2, NullReceived DEF Write
<1>4. /\ rx'.pats = rx.pats /\ rx'.count = rx.count + 1
      /\ rx'.fits = rx.fits /\ rx'.onGrid = rx.onGrid
      /\ "early" \in rx'.faults => "early" \in rx.faults
  BY <1>3 DEF Counted, InGop
<1>5. gop_counter = rx.pats
  BY <1>1 DEF SlotInv, TypeInv, TypeOK
<1>6. rx.pats > 0
  BY <1>2, <1>5, GopPacketsAssumption DEF RxType
<1>7. rx'.count <= rx'.pats * GopPackets
  <2>1. rx.pats * GopPackets \in Nat /\ rx.count \in Nat
    BY <1>2, NextSlot, GopPacketsAssumption DEF RxType
  <2> QED BY <1>2, <1>4, <1>5, <2>1
<1> QED BY <1>1, <1>2, <1>4, <1>6, <1>7 DEF SlotInv, GridInv, RxType

(* The PAT comes when its slot is there: at its start, if the GOP before   *)
(* fitted.                                                                 *)
LEMMA PatKeepsGrid ==
  ASSUME TypeInv, CountInv, SlotInv, GridInv, WritePat PROVE SlotInv' /\ GridInv'
<1>. DEFINE p == [pid |-> PAT_PID, cc |-> pat.cc, section |-> pat_section]
            slot == rx.pats * GopPackets
<1>1. p.pid = PAT_PID /\ p.cc = pat.cc /\ pat.cc \in 0..15
  BY DEF TypeInv, TypeOK, HeaderType
<1>2. Write(p) /\ pc = "pad" /\ pc' = "pmt" /\ gop_counter' = gop_counter
  BY DEF WritePat
<1> HIDE DEF p
<1>3. RxType(rx) /\ packets_counter = rx.count /\ ~(packets_counter < gop_counter * GopPackets)
  BY DEF CountInv, WritePat, SlotOpen
<1>4. /\ Counted(rx, p, rx')
      /\ rx'.pats = rx.pats + 1 /\ rx'.gopLen = 1
      /\ rx'.fits = (rx.fits /\ rx.gopLen <= (IF rx.pats = 0 THEN 0 ELSE GopPackets))
      /\ rx'.onGrid = (rx.onGrid /\ rx.count = slot)
      /\ "early" \in rx'.faults => "early" \in rx.faults \/ rx.count < slot
  BY <1>1, <1>2, <1>3, PatReceived DEF Write
<1>5. /\ slot \in Nat /\ (rx.pats + 1) * GopPackets = slot + GopPackets
      /\ rx.count \in Nat /\ rx.gopLen \in Nat /\ GopPackets \in Nat /\ rx.pats \in Nat
      /\ rx.pats = 0 => slot = 0
  BY <1>3, NextSlot, GopPacketsAssumption DEF RxType
<1>6. gop_counter = rx.pats
  BY <1>2 DEF SlotInv, TypeInv, TypeOK
<1>7. rx.count >= slot
  <2>1. ~(rx.count < slot)
    BY <1>3, <1>6
  <2> HIDE DEF slot
  <2> QED BY <1>5, <2>1
<1>8. SlotInv'
  <2>1. "early" \notin rx'.faults
    <3> HIDE DEF slot
    <3> QED BY <1>4, <1>5, <1>7 DEF SlotInv
  <2> QED BY <1>2, <1>4, <1>6, <2>1 DEF SlotInv
<1>9. GridInv'
  <2>1. SUFFICES ASSUME rx'.fits PROVE GridInv'
    BY DEF GridInv
  <2>2. rx.fits /\ rx.gopLen <= (IF rx.pats = 0 THEN 0 ELSE GopPackets)
    BY <1>4, <2>1
  <2>3. /\ rx.onGrid
        /\ rx.pats = 0 => rx.count = rx.gopLen
        /\ rx.pats > 0 => rx.count + GopPackets = slot + rx.gopLen \/ rx.count <= slot
    BY <2>2 DEF GridInv
  <2> HIDE DEF slot
  <2>4. rx.count = slot
    BY <1>5, <1>7, <2>2, <2>3
  <2>5. rx'.onGrid
    BY <1>4, <2>3, <2>4
  <2>6. rx'.pats > 0 /\ rx'.count = slot + 1 /\ rx'.pats * GopPackets = slot + GopPackets
    BY <1>4, <1>5, <2>4 DEF Counted
  <2>7. rx'.count + GopPackets = rx'.pats * GopPackets + rx'.gopLen
    BY <1>4, <1>5, <2>6
  <2> QED BY <1>4, <1>5, <2>5, <2>6, <2>7 DEF GridInv
<1> QED BY <1>8, <1>9

(* The steps that write nothing: a GOP is closed, or its number unchanged. *)
LEMMA QuietKeepsGrid ==
  ASSUME GridInv, rx' = rx, pc' = "pad" \/ pc # "pad" PROVE GridInv'
BY DEF GridInv

LEMMA NextKeepsGrid ==
  TypeInv /\ CountInv /\ SlotInv /\ GridInv /\ [Next]_vars => SlotInv' /\ GridInv'
<1> SUFFICES ASSUME TypeInv, CountInv, SlotInv, GridInv, [Next]_vars
             PROVE  SlotInv' /\ GridInv'
  OBVIOUS
<1>1. CASE UNCHANGED vars
  BY <1>1, QuietKeepsGrid DEF vars, spts_vars, SlotInv
<1>2. CASE WriteHead \/ WriteTail
  BY <1>2, HeadIsEsStep, TailIsEsStep, EsStepKeepsGrid
<1>3. CASE WriteNull \/ WritePat \/ WritePmt
  BY <1>3, NullKeepsGrid, PatKeepsGrid, PmtKeepsGrid
<1>4. CASE CloseGop
  <2>1. pc = "gop" /\ gop_counter' = gop_counter + 1 /\ rx' = rx /\ pc' \in {"head", "crashed"}
    BY <1>4 DEF CloseGop
  <2>2. SlotInv'
    BY <2>1 DEF SlotInv, TypeInv, TypeOK
  <2> QED BY <2>1, <2>2, QuietKeepsGrid
<1>5. ASSUME NEW idr \in BOOLEAN, NEW size \in VideoSizes, NEW ts \in Timestamps,
             WriteVideo(idr, size, ts)
      PROVE  SlotInv' /\ GridInv'
  <2>1. pc = "idle" /\ pc' \in {"pad", "head"} /\ gop_counter' = gop_counter /\ rx' = rx
    BY <1>5 DEF WriteVideo
  <2> QED BY <2>1, QuietKeepsGrid DEF SlotInv
<1>6. ASSUME NEW size \in AudioSizes, NEW ts \in Timestamps, WriteAudio(size, ts)
      PROVE  SlotInv' /\ GridInv'
  <2>1. pc = "idle" /\ pc' \in {"idle", "head"} /\ gop_counter' = gop_counter /\ rx' = rx
    BY <1>6 DEF WriteAudio, spts_vars
  <2> QED BY <2>1, QuietKeepsGrid DEF SlotInv
<1>7. ASSUME NEW k \in Kinds, RequestPad(k) PROVE SlotInv' /\ GridInv'
  BY <1>7, QuietKeepsGrid DEF RequestPad, SlotInv
<1>8. CASE FirstCollected
  BY <1>8, QuietKeepsGrid DEF FirstCollected, SlotInv
<1> QED
  BY <1>1, <1>2, <1>3, <1>4, <1>5, <1>6, <1>7, <1>8 DEF Next, WriteStep, CollectedNothing

LEMMA GridInvariant == Spec => [](SlotInv /\ GridInv)
BY InitGrid, NextKeepsGrid, TypeInvariant, CountInvariant, PTL DEF Spec

(* No PAT ever comes before the slot of its GOP, whatever the GOPs measure.*)
THEOREM PatsNotEarly == Spec => []SlotNeverMissed
<1>1. SlotInv => SlotNeverMissed
  BY DEF SlotInv, SlotNeverMissed
<1> QED BY <1>1, GridInvariant, PTL

(* The stream is self indexed (README:8), for every size of the slot: as   *)
(* long as no GOP outgrew it, GOP k begins at packet k * GopPackets.       *)
THEOREM GopsOnGrid == Spec => []SelfIndexed
<1>1. GridInv => SelfIndexed
  BY DEF GridInv, SelfIndexed
<1> QED BY <1>1, GridInvariant, PTL
=============================================================================
