----------------------------- MODULE PacketProof ----------------------------
(***************************************************************************)
(* What packets carry: they parse, and the frames that the element accepts *)
(* reach the receiver, for every size of a frame but one.                  *)
(***************************************************************************)
EXTENDS SptsProof, SequenceTheorems

-----------------------------------------------------------------------------
(* What the receiver makes of the contents of a packet.                    *)

LEMMA ContentsCounted ==
  ASSUME NEW r, RxType(r), NEW p
  PROVE  LET c == CountPacket(r, p)
         IN  /\ c.open = r.open /\ c.units = r.units
             /\ "pes" \in c.faults => "pes" \in r.faults
BY DEF RxType, RxFields, CountPacket

LEMMA ContentsOfEs ==
  ASSUME NEW r, RxType(r), NEW p, p.pid \in EsPids
  PROVE  LET c == Receive(r, p)
         IN  /\ c.open = [r.open EXCEPT ![p.pid] = OpenAfter(r, p)]
             /\ c.units = [r.units EXCEPT ![p.pid] = IF p.pusi THEN @ \o r.open[p.pid] ELSE @]
             /\ "pes" \in c.faults => "pes" \in r.faults \/ ~Parses(r, p)
<1>. DEFINE c == ReceiveEs(r, p)
<1>1. Receive(r, p) = CountPacket(c, p)
  BY Pids DEF Receive
<1>2. RxType(c)
  BY ReceiveEsFields
<1>3. c.open = [r.open EXCEPT ![p.pid] = OpenAfter(r, p)]
  BY DEF RxType, RxFields, ReceiveEs
<1>4. c.units = [r.units EXCEPT ![p.pid] = IF p.pusi THEN @ \o r.open[p.pid] ELSE @]
  BY DEF RxType, RxFields, ReceiveEs
<1>5. "pes" \in c.faults => "pes" \in r.faults \/ ~Parses(r, p)
  BY DEF RxType, RxFields, ReceiveEs
<1> HIDE DEF c
<1> QED BY <1>1, <1>2, <1>3, <1>4, <1>5, ContentsCounted

LEMMA ContentsOfOthers ==
  ASSUME NEW r, RxType(r), NEW p, p.pid \in {PAT_PID, PMT_PID, NULL_PID}
  PROVE  LET c == Receive(r, p)
         IN  /\ c.open = r.open /\ c.units = r.units
             /\ "pes" \in c.faults => "pes" \in r.faults
<1>1. CASE p.pid = PAT_PID
  <2>. DEFINE c == ReceivePat(r, p)
  <2>1. Receive(r, p) = CountPacket(c, p)
    BY <1>1, Pids DEF Receive
  <2>2. RxType(c)
    BY ReceivePatFields
  <2>3. c.open = r.open /\ c.units = r.units /\ ("pes" \in c.faults => "pes" \in r.faults)
    BY DEF RxType, RxFields, ReceivePat
  <2> HIDE DEF c
  <2> QED BY <2>1, <2>2, <2>3, ContentsCounted
<1>2. CASE p.pid = PMT_PID
  <2>. DEFINE c == ReceivePmt(r, p)
  <2>1. Receive(r, p) = CountPacket(c, p)
    BY <1>2, Pids DEF Receive
  <2>2. RxType(c)
    BY ReceivePmtFields
  <2>3. c.open = r.open /\ c.units = r.units /\ ("pes" \in c.faults => "pes" \in r.faults)
    BY DEF RxType, RxFields, ReceivePmt
  <2> HIDE DEF c
  <2> QED BY <2>1, <2>2, <2>3, ContentsCounted
<1>3. CASE p.pid = NULL_PID
  <2>1. Receive(r, p) = CountPacket(r, p)
    BY <1>3, Pids DEF Receive
  <2> QED BY <2>1, ContentsCounted
<1> QED BY <1>1, <1>2, <1>3

-----------------------------------------------------------------------------
(* The layouts put the PES header, or the payload, where the adaptation    *)
(* field ends, and fill the packet.                                        *)

LEMMA HeadParses ==
  ASSUME NEW pcr \in BOOLEAN, NEW size \in Nat, pcr \/ size # 169
  PROVE  LET lay == HeadLayout(pcr, size)
         IN  /\ lay.es + lay.n = TSPACKET_LENGTH
             /\ lay.pes = TSPACKET_HEADER_LENGTH
                            + (IF lay.afc = PAYLOAD_ONLY THEN 0 ELSE 1 + lay.afLen)
<1>. DEFINE lay == HeadLayout(pcr, size)
<1> SUFFICES /\ lay.es + lay.n = TSPACKET_LENGTH
             /\ lay.pes = TSPACKET_HEADER_LENGTH
                            + (IF lay.afc = PAYLOAD_ONLY THEN 0 ELSE 1 + lay.afLen)
  OBVIOUS
<1>1. lay.n = TSPACKET_LENGTH - lay.es /\ lay.es = lay.pes + 14
  BY DEF HeadLayout, pes_header_length
<1>2. CASE pcr
  <2>. DEFINE afLen == pcr_head_adaptation_length(size)
              set   == adaptation_set(afLen, pcr)
  <2>1. afLen \in 7..169
    BY DEF pcr_head_adaptation_length, TSPACKET_PAYLOAD_LENGTH, pes_header_length
  <2>2. (afLen - 7) % 256 = afLen - 7
    BY <2>1
  <2>3. set = afLen + 1
    BY <1>2, <2>1, <2>2 DEF adaptation_set
  <2>4. lay.afc = ADAPTATION_AND_PAYLOAD /\ lay.afLen = afLen /\ lay.pes = TSPACKET_HEADER_LENGTH + set
    <3>1. lay.afc = ADAPTATION_AND_PAYLOAD
      BY <1>2 DEF HeadLayout
    <3>2. lay.afLen = afLen
      BY <1>2 DEF HeadLayout
    <3>3. lay.pes = TSPACKET_HEADER_LENGTH + set
      BY <1>2 DEF HeadLayout, adaptation_set
    <3> QED BY <3>1, <3>2, <3>3
  <2>5. lay.afc # PAYLOAD_ONLY
    BY <2>4 DEF ADAPTATION_AND_PAYLOAD, PAYLOAD_ONLY
  <2> HIDE DEF lay, afLen, set
  <2> QED BY <1>1, <2>1, <2>3, <2>4, <2>5 DEF TSPACKET_LENGTH, TSPACKET_HEADER_LENGTH
<1>3. CASE ~pcr /\ head_stuffing_needed(size)
  <2>. DEFINE afLen == stuffing_length(size)
              set   == adaptation_set(afLen, pcr)
  <2>1. afLen = 169 - size /\ size < 170 /\ size # 169
    BY <1>3 DEF head_stuffing_needed, stuffing_length, TSPACKET_PAYLOAD_LENGTH, pes_header_length
  <2>2. afLen \in 1..169 /\ (afLen - 1) % 256 = afLen - 1
    <3>1. afLen \in 1..169
      BY <2>1
    <3> QED BY <3>1
  <2>3. set = afLen + 1
    BY <1>3, <2>2 DEF adaptation_set
  <2>4. lay.afc = ADAPTATION_AND_PAYLOAD /\ lay.afLen = afLen /\ lay.pes = TSPACKET_HEADER_LENGTH + set
    <3>1. lay.afc = ADAPTATION_AND_PAYLOAD
      BY <1>3 DEF HeadLayout
    <3>2. lay.afLen = afLen
      BY <1>3 DEF HeadLayout
    <3>3. lay.pes = TSPACKET_HEADER_LENGTH + set
      BY <1>3 DEF HeadLayout, adaptation_set
    <3> QED BY <3>1, <3>2, <3>3
  <2>5. lay.afc # PAYLOAD_ONLY
    BY <2>4 DEF ADAPTATION_AND_PAYLOAD, PAYLOAD_ONLY
  <2> HIDE DEF lay, afLen, set
  <2> QED BY <1>1, <2>2, <2>3, <2>4, <2>5 DEF TSPACKET_LENGTH, TSPACKET_HEADER_LENGTH
<1>4. CASE ~pcr /\ ~head_stuffing_needed(size)
  <2>1. lay.afc = PAYLOAD_ONLY
    BY <1>4 DEF HeadLayout
  <2>2. lay.pes = TSPACKET_HEADER_LENGTH + 0
    BY <1>4 DEF HeadLayout
  <2> HIDE DEF lay
  <2> QED BY <1>1, <2>1, <2>2 DEF TSPACKET_LENGTH, TSPACKET_HEADER_LENGTH
<1> QED BY <1>2, <1>3, <1>4

LEMMA TailParses ==
  ASSUME NEW left \in Nat
  PROVE  LET lay == TailLayout(left)
         IN  /\ lay.es + lay.n = TSPACKET_LENGTH
             /\ lay.es = TSPACKET_HEADER_LENGTH
                           + (IF lay.afc = PAYLOAD_ONLY THEN 0 ELSE 1 + lay.afLen)
             /\ lay.afc \in {PAYLOAD_ONLY, ADAPTATION_AND_PAYLOAD}
BY DEF TailLayout, TSPACKET_LENGTH, TSPACKET_PAYLOAD_LENGTH, TSPACKET_HEADER_LENGTH,
       PAYLOAD_ONLY, ADAPTATION_AND_PAYLOAD

-----------------------------------------------------------------------------
(* A step of spts_write_frame that writes a packet of the frame, as the    *)
(* receiver sees it: a packet p that starts a frame or not, with layout    *)
(* lay, after which header h is in the template.                           *)
EsWritten(p, lay, left, h) ==
  /\ rx' = Receive(rx, p)
  /\ p.pid = Stream.header.pid
  /\ p.afLen = lay.afLen /\ p.pes = lay.pes /\ p.es = lay.es /\ p.n = lay.n
  /\ p.from = frame.at /\ p.pts = TimeField(frame.pts)
  /\ p.afc = lay.afc
  /\ h.pusi = FALSE
  /\ Payload(h, left, lay)

LEMMA StartBits ==
  ASSUME NEW h \in HeaderType, NEW b \in BOOLEAN
  PROVE  /\ header_set_start_unit_indicator(h, b).pusi = b
         /\ header_set_start_unit_indicator(h, b).afc = h.afc
BY DEF HeaderType, header_set_start_unit_indicator

LEMMA AfcBits ==
  ASSUME NEW h \in HeaderType, NEW afc \in {PAYLOAD_ONLY, ADAPTATION_AND_PAYLOAD}
  PROVE  /\ header_set_adaptation_field_control(h, afc).pusi = h.pusi
         /\ header_set_adaptation_field_control(h, afc).afc = afc
BY DEF HeaderType, header_set_adaptation_field_control

LEMMA CcBits ==
  ASSUME NEW h \in HeaderType
  PROVE  header_cc_inc(h).pusi = h.pusi /\ header_cc_inc(h).afc = h.afc
BY DEF HeaderType, header_cc_inc

LEMMA HeadWritten ==
  ASSUME TypeInv, WriteHead
  PROVE  \E p, h :
           /\ EsWritten(p, HeadLayout(Stream.pcr_reference, frame.size), frame.size, h)
           /\ p.pusi = TRUE /\ h.afc = PAYLOAD_ONLY
           /\ p.pcr = IF Stream.pcr_reference THEN TimeField(pcr_base(frame.pts)) ELSE -1
<1>. DEFINE lay   == HeadLayout(Stream.pcr_reference, frame.size)
            h1    == header_set_start_unit_indicator(Stream.header, TRUE)
            h     == header_set_adaptation_field_control(h1, lay.afc)
            pcr   == IF Stream.pcr_reference THEN TimeField(pcr_base(frame.pts)) ELSE -1
            h2    == header_set_adaptation_field_control(header_cc_inc(h), PAYLOAD_ONLY)
            after == header_set_start_unit_indicator(h2, FALSE)
            p     == EsPacket(h, lay, pcr)
<1>1. Stream.header \in HeaderType /\ lay.afc \in {PAYLOAD_ONLY, ADAPTATION_AND_PAYLOAD}
  <2>1. /\ frame.size \in Nat /\ Stream.pcr_reference \in BOOLEAN
        /\ Stream.header \in HeaderType
    BY StreamPointed DEF WriteHead, Writing, TypeInv, TypeOK, FrameType
  <2> QED BY <2>1, HeadFits, Zenon
<1>2. Write(p) /\ Payload(after, frame.size, lay)
  BY Zenon DEF WriteHead
<1> SUFFICES /\ EsWritten(p, lay, frame.size, after) /\ p.pusi = TRUE /\ after.afc = PAYLOAD_ONLY
             /\ p.pcr = pcr
  BY Zenon
<1>3. h1 \in HeaderType /\ h1.pusi = TRUE /\ h1.pid = Stream.header.pid
  <2>1. TRUE \in BOOLEAN
    OBVIOUS
  <2>2. h1 \in HeaderType /\ h1.pid = Stream.header.pid
    BY <1>1, <2>1, HeaderTypes, HeaderFields, Zenon
  <2>3. h1.pusi = TRUE
    BY <1>1, <2>1, StartBits, Zenon
  <2> QED BY <2>2, <2>3
<1>4. h \in HeaderType /\ h.pusi = TRUE /\ h.afc = lay.afc /\ h.pid = Stream.header.pid
  <2> HIDE DEF lay, h1
  <2>1. h \in HeaderType /\ h.pid = Stream.header.pid
    BY <1>1, <1>3, HeaderTypes, HeaderFields, Zenon
  <2>2. h.pusi = TRUE /\ h.afc = lay.afc
    <3>1. h.pusi = h1.pusi /\ h.afc = lay.afc
      BY <1>1, <1>3, AfcBits, Zenon
    <3> QED BY <1>3, <3>1, Zenon
  <2> QED BY <2>1, <2>2
<1>5. after.pusi = FALSE /\ after.afc = PAYLOAD_ONLY
  <2> HIDE DEF h
  <2>1. header_cc_inc(h) \in HeaderType
    BY <1>4, HeaderTypes
  <2>2. h2 \in HeaderType /\ h2.afc = PAYLOAD_ONLY
    BY <2>1, HeaderTypes, AfcBits
  <2> HIDE DEF h2
  <2> QED BY <2>2, StartBits, Zenon
<1>6. /\ p.pid = h.pid /\ p.pusi = h.pusi /\ p.afc = h.afc
      /\ p.afLen = lay.afLen /\ p.pes = lay.pes /\ p.es = lay.es /\ p.n = lay.n
      /\ p.from = frame.at /\ p.pts = TimeField(frame.pts) /\ p.pcr = pcr
  <2> HIDE DEF h, lay, pcr
  <2> QED BY DEF EsPacket
<1>7. rx' = Receive(rx, p)
  BY <1>2, Zenon DEF Write
<1> HIDE DEF h1, h, pcr, h2, after, p, lay
<1> QED BY <1>2, <1>3, <1>4, <1>5, <1>6, <1>7 DEF EsWritten

LEMMA TailWritten ==
  ASSUME TypeInv, WriteTail, Stream.header.pusi = FALSE, Stream.header.afc = PAYLOAD_ONLY
  PROVE  LET left == Stream.pes_packet_length
             lay  == TailLayout(left)
         IN  \E p, h : /\ EsWritten(p, lay, left, h)
                       /\ p.pusi = FALSE /\ h.afc = lay.afc /\ p.pcr = -1
<1>. DEFINE left == Stream.pes_packet_length
            lay  == TailLayout(left)
            h    == IF lay.afc = ADAPTATION_AND_PAYLOAD
                    THEN header_set_adaptation_field_control(Stream.header, lay.afc)
                    ELSE Stream.header
            p    == EsPacket(h, lay, -1)
            after == header_cc_inc(h)
<1>1. Stream.header \in HeaderType /\ lay.afc \in {PAYLOAD_ONLY, ADAPTATION_AND_PAYLOAD}
  BY StreamPointed, TailFits DEF WriteTail, Writing
<1>2. Write(p) /\ Payload(after, left, lay)
  BY Zenon DEF WriteTail
<1> SUFFICES EsWritten(p, lay, left, after) /\ p.pusi = FALSE /\ after.afc = lay.afc /\ p.pcr = -1
  BY Zenon
<1> HIDE DEF lay
<1>3. h \in HeaderType /\ h.pid = Stream.header.pid /\ h.pusi = FALSE /\ h.afc = lay.afc
  <2>1. h \in HeaderType /\ h.pid = Stream.header.pid
    BY <1>1, HeaderTypes, HeaderFields
  <2>2. h.pusi = FALSE /\ h.afc = lay.afc
    <3>1. CASE lay.afc = ADAPTATION_AND_PAYLOAD
      <4>1. h = header_set_adaptation_field_control(Stream.header, lay.afc)
        BY <3>1
      <4>2. h.pusi = Stream.header.pusi /\ h.afc = lay.afc
        <5> HIDE DEF h
        <5> QED BY <1>1, <4>1, AfcBits, Zenon
      <4> QED BY <4>2, Zenon
    <3>2. CASE lay.afc # ADAPTATION_AND_PAYLOAD
      <4>1. h = Stream.header /\ lay.afc = PAYLOAD_ONLY
        BY <1>1, <3>2
      <4> QED BY <4>1, Zenon
    <3> QED BY <3>1, <3>2
  <2> QED BY <2>1, <2>2
<1>4. after.pusi = FALSE /\ after.afc = lay.afc
  <2> HIDE DEF h
  <2>1. after.pusi = h.pusi /\ after.afc = h.afc
    BY <1>1, <1>3, CcBits, Zenon
  <2> QED BY <1>3, <2>1, Zenon
<1>5. /\ p.pid = h.pid /\ p.pusi = h.pusi /\ p.afc = h.afc
      /\ p.afLen = lay.afLen /\ p.pes = lay.pes /\ p.es = lay.es /\ p.n = lay.n
      /\ p.from = frame.at /\ p.pts = TimeField(frame.pts) /\ p.pcr = -1
  <2> HIDE DEF h
  <2> QED BY DEF EsPacket
<1>6. rx' = Receive(rx, p)
  BY <1>2, Zenon DEF Write
<1> HIDE DEF h, after, p, left
<1> QED BY <1>2, <1>3, <1>4, <1>5, <1>6 DEF EsWritten

-----------------------------------------------------------------------------
(* The invariant.  While the rest of a frame is written, the receiver has  *)
(* open exactly the part of it that was written, and the template has      *)
(* neither of the bits that the first packet needed.                       *)

(* Without a PCR, a frame of 169 bytes leaves one byte of its first packet *)
(* to an adaptation field, which would need two.                           *)
NoFrameOf169 == 169 \notin VideoSizes \cup AudioSizes

Unit == [pts : Nat, size : Nat]

FrameInv ==
  /\ pc \in Writing => /\ ~first
                       /\ frame.size \in VideoSizes \cup AudioSizes
                       /\ \E t \in Timestamps : frame.pts = mpegtime(t)
  /\ pc \in {"pad", "pmt", "gop", "head"} => frame.at = 0

ContentInv ==
  /\ "pes" \notin rx.faults
  /\ rx.open \in [EsPids -> Seq(Unit)] /\ rx.units \in [EsPids -> Seq(Unit)]

TailInv ==
  pc = "tail" =>
    /\ Stream.header.pusi = FALSE /\ Stream.header.afc = PAYLOAD_ONLY
    /\ frame.at + Stream.pes_packet_length = frame.size
    /\ rx.open[PidOf(frame.kind)] = << [pts |-> TimeField(frame.pts), size |-> frame.at] >>

LEMMA TimeFieldType == ASSUME NEW t \in Nat PROVE TimeField(t) \in Nat
BY PtsWrapAssumption DEF TimeField

(* Where a packet leaves the frame.                                        *)
LEMMA PayloadStep ==
  ASSUME TypeInv, FrameInv, pc \in {"head", "tail"}, NEW h, NEW left \in Nat, NEW lay, lay.n \in 0..left,
         Payload(h, left, lay)
  PROVE  /\ first' = first
         /\ left = lay.n => pc' = "idle"
         /\ left # lay.n => /\ pc' = "tail"
                            /\ frame'.kind = frame.kind /\ frame'.n = frame.n
                            /\ frame'.size = frame.size /\ frame'.pts = frame.pts
                            /\ frame'.at = frame.at + lay.n
                            /\ Stream'.header = h
                            /\ Stream'.pes_packet_length = left - lay.n
         /\ FrameInv'
<1>1. /\ pc \in Writing /\ frame \in FrameType /\ frame.kind \in Kinds /\ frame.n \in 1..MaxPads
      /\ streams \in [Kinds -> [1..MaxPads -> StreamType]] /\ Stream \in StreamType
  BY StreamPointed DEF Writing, TypeInv, TypeOK
<1>2. CASE left = lay.n
  BY <1>2 DEF Payload, FrameInv, Writing
<1>3. CASE left # lay.n
  <2>. DEFINE s == PacketWritten(Stream, h, left - lay.n)
  <2>1. frame' = [frame EXCEPT !.at = @ + lay.n] /\ pc' = "tail" /\ first' = first
    BY <1>3 DEF Payload
  <2>2. /\ frame'.kind = frame.kind /\ frame'.n = frame.n
        /\ frame'.size = frame.size /\ frame'.pts = frame.pts
        /\ frame'.at = frame.at + lay.n
    BY <1>1, <2>1 DEF FrameType
  <2>3. streams' = [streams EXCEPT ![frame.kind][frame.n] = s]
    BY DEF Payload
  <2>4. s.header = h /\ s.pes_packet_length = left - lay.n
    <3> HIDE DEF Stream
    <3> QED BY <1>1 DEF PacketWritten, StreamType
  <2> HIDE DEF s
  <2>5. Stream' = s
    BY <1>1, <2>2, <2>3 DEF Stream
  <2>6. FrameInv'
    BY <1>1, <2>1, <2>2 DEF FrameInv
  <2> QED BY <1>3, <2>1, <2>2, <2>4, <2>5, <2>6
<1> QED BY <1>2, <1>3

(* The first packet closes what the receiver had open and opens the frame. *)
LEMMA HeadReceived ==
  ASSUME NoFrameOf169, TypeInv, CountInv, FrameInv, ContentInv, WriteHead,
         NEW p, NEW h, EsWritten(p, HeadLayout(Stream.pcr_reference, frame.size), frame.size, h),
         p.pusi = TRUE
  PROVE  LET pid == PidOf(frame.kind)
             n   == HeadLayout(Stream.pcr_reference, frame.size).n
         IN  /\ rx'.open = [rx.open EXCEPT ![pid] = << [pts |-> TimeField(frame.pts), size |-> n] >>]
             /\ rx'.units = [rx.units EXCEPT ![pid] = @ \o rx.open[pid]]
             /\ "pes" \notin rx'.faults
<1>. DEFINE lay == HeadLayout(Stream.pcr_reference, frame.size)
            pid == PidOf(frame.kind)
<1>1. /\ pc \in Writing /\ frame.kind \in Kinds /\ frame.n \in 1..MaxPads
      /\ Stream = streams[frame.kind][frame.n] /\ Stream.pcr_reference \in BOOLEAN
      /\ frame.size \in Nat /\ frame.at = 0 /\ frame.size # 169
  BY StreamPointed DEF WriteHead, Writing, TypeInv, TypeOK, FrameType, FrameInv, NoFrameOf169
<1>2. p.pid = pid /\ pid \in EsPids
  BY <1>1, PidOfKind DEF EsWritten, CountInv, HeadersInv
<1>3. /\ lay.es + lay.n = TSPACKET_LENGTH
      /\ lay.pes = TSPACKET_HEADER_LENGTH + (IF lay.afc = PAYLOAD_ONLY THEN 0 ELSE 1 + lay.afLen)
  <2>1. Stream.pcr_reference \/ frame.size # 169
    BY <1>1
  <2> QED BY <1>1, <2>1, HeadParses, Zenon
<1>4. /\ rx' = Receive(rx, p) /\ p.afLen = lay.afLen /\ p.pes = lay.pes /\ p.es = lay.es
      /\ p.n = lay.n /\ p.from = frame.at /\ p.pts = TimeField(frame.pts) /\ p.afc = lay.afc
  BY Zenon DEF EsWritten
<1> HIDE DEF lay, pid
<1>5. Parses(rx, p)
  BY <1>1, <1>3, <1>4 DEF Parses, PayloadStart
<1>6. OpenAfter(rx, p) = << [pts |-> p.pts, size |-> p.n] >>
  BY <1>5 DEF OpenAfter
<1>7. /\ rx'.open = [rx.open EXCEPT ![pid] = OpenAfter(rx, p)]
      /\ rx'.units = [rx.units EXCEPT ![pid] = @ \o rx.open[pid]]
      /\ "pes" \in rx'.faults => "pes" \in rx.faults \/ ~Parses(rx, p)
  <2>1. RxType(rx) /\ p.pid \in EsPids
    BY <1>2 DEF CountInv
  <2>2. /\ rx'.open = [rx.open EXCEPT ![p.pid] = OpenAfter(rx, p)]
        /\ rx'.units = [rx.units EXCEPT ![p.pid] = IF p.pusi THEN @ \o rx.open[p.pid] ELSE @]
        /\ "pes" \in rx'.faults => "pes" \in rx.faults \/ ~Parses(rx, p)
    BY <1>4, <2>1, ContentsOfEs, Zenon
  <2> QED BY <1>2, <2>2
<1>8. rx'.open = [rx.open EXCEPT ![pid] = << [pts |-> TimeField(frame.pts), size |-> lay.n] >>]
  BY <1>4, <1>6, <1>7
<1> QED BY <1>5, <1>7, <1>8 DEF ContentInv, lay, pid

(* A later packet continues it.                                            *)
LEMMA TailReceived ==
  ASSUME TypeInv, CountInv, FrameInv, ContentInv, TailInv, WriteTail,
         NEW p, NEW h, EsWritten(p, TailLayout(Stream.pes_packet_length), Stream.pes_packet_length, h),
         p.pusi = FALSE
  PROVE  LET pid == PidOf(frame.kind)
             n   == TailLayout(Stream.pes_packet_length).n
         IN  /\ rx'.open = [rx.open EXCEPT ![pid] =
                              << [pts |-> TimeField(frame.pts), size |-> frame.at + n] >>]
             /\ rx'.units = rx.units
             /\ "pes" \notin rx'.faults
<1>. DEFINE lay == TailLayout(Stream.pes_packet_length)
            pid == PidOf(frame.kind)
            unit == [pts |-> TimeField(frame.pts), size |-> frame.at]
<1>1. /\ pc = "tail" /\ pc \in Writing /\ frame.kind \in Kinds /\ frame.n \in 1..MaxPads
      /\ Stream = streams[frame.kind][frame.n] /\ Stream.pes_packet_length \in Nat
      /\ frame.at \in Nat
  BY StreamPointed DEF WriteTail, Writing, TypeInv, TypeOK, FrameType
<1>2. p.pid = pid /\ pid \in EsPids
  BY <1>1, PidOfKind DEF EsWritten, CountInv, HeadersInv
<1>3. /\ lay.es + lay.n = TSPACKET_LENGTH
      /\ lay.es = TSPACKET_HEADER_LENGTH + (IF lay.afc = PAYLOAD_ONLY THEN 0 ELSE 1 + lay.afLen)
  BY <1>1, TailParses, Zenon
<1>4. /\ rx' = Receive(rx, p) /\ p.afLen = lay.afLen /\ p.pes = lay.pes /\ p.es = lay.es
      /\ p.n = lay.n /\ p.from = frame.at /\ p.pts = TimeField(frame.pts) /\ p.afc = lay.afc
  BY Zenon DEF EsWritten
<1>5. rx.open[pid] = << unit >>
  BY <1>1 DEF TailInv
<1> HIDE DEF lay, pid
<1>6. rx.open[p.pid] # << >> /\ rx.open[p.pid][1] = unit
  BY <1>2, <1>5
<1>7. Parses(rx, p)
  BY <1>3, <1>4, <1>6 DEF Parses, PayloadStart
<1>8. OpenAfter(rx, p) = << [pts |-> TimeField(frame.pts), size |-> frame.at + lay.n] >>
  <2>1. OpenAfter(rx, p) = << [unit EXCEPT !.size = @ + lay.n] >>
    BY <1>4, <1>6, <1>7 DEF OpenAfter
  <2>2. [unit EXCEPT !.size = @ + lay.n] = [pts |-> TimeField(frame.pts), size |-> frame.at + lay.n]
    OBVIOUS
  <2> QED BY <2>1, <2>2
<1>9. /\ rx'.open = [rx.open EXCEPT ![pid] = OpenAfter(rx, p)]
      /\ rx'.units = rx.units
      /\ "pes" \in rx'.faults => "pes" \in rx.faults \/ ~Parses(rx, p)
  <2>1. RxType(rx) /\ p.pid \in EsPids
    BY <1>2 DEF CountInv
  <2>2. /\ rx'.open = [rx.open EXCEPT ![p.pid] = OpenAfter(rx, p)]
        /\ rx'.units = [rx.units EXCEPT ![p.pid] = IF p.pusi THEN @ \o rx.open[p.pid] ELSE @]
        /\ "pes" \in rx'.faults => "pes" \in rx.faults \/ ~Parses(rx, p)
    BY <1>4, <2>1, ContentsOfEs, Zenon
  <2> QED BY <1>2, <2>2 DEF ContentInv
<1> QED BY <1>7, <1>8, <1>9 DEF ContentInv, lay, pid

LEMMA InitParse == Init => FrameInv /\ ContentInv /\ TailInv
<1> SUFFICES ASSUME Init PROVE FrameInv /\ ContentInv /\ TailInv
  OBVIOUS
<1>1. pc = "idle" /\ rx = ReceiverInit
  BY DEF Init
<1>2. << >> \in Seq(Unit)
  OBVIOUS
<1> QED BY <1>1, <1>2 DEF FrameInv, ContentInv, TailInv, Writing, ReceiverInit

LEMMA HeadKeepsParse ==
  ASSUME NoFrameOf169, TypeInv, CountInv, FrameInv, ContentInv, WriteHead
  PROVE  FrameInv' /\ ContentInv' /\ TailInv'
<1>. DEFINE lay == HeadLayout(Stream.pcr_reference, frame.size)
            pid == PidOf(frame.kind)
            unit == [pts |-> TimeField(frame.pts), size |-> lay.n]
<1>1. /\ pc = "head" /\ pc \in Writing /\ frame.kind \in Kinds /\ frame.size \in Nat /\ frame.pts \in Nat
      /\ frame.at = 0 /\ Stream.pcr_reference \in BOOLEAN /\ pid \in EsPids
  BY StreamPointed, PidOfKind DEF WriteHead, Writing, TypeInv, TypeOK, FrameType, FrameInv
<1>2. PICK p, h : EsWritten(p, lay, frame.size, h) /\ p.pusi = TRUE /\ h.afc = PAYLOAD_ONLY
  BY HeadWritten, Zenon
<1>3. /\ rx'.open = [rx.open EXCEPT ![pid] = << unit >>]
      /\ rx'.units = [rx.units EXCEPT ![pid] = @ \o rx.open[pid]]
      /\ "pes" \notin rx'.faults
  BY <1>2, HeadReceived, Zenon
<1>4. lay.n \in 0..frame.size
  BY <1>1, HeadFits, Zenon
<1>5. h.pusi = FALSE /\ Payload(h, frame.size, lay)
  BY <1>2, Zenon DEF EsWritten
<1> HIDE DEF lay, pid
<1>6. unit \in Unit
  BY <1>1, <1>4, TimeFieldType DEF Unit
<1> HIDE DEF unit
<1>7. << unit >> \in Seq(Unit)
  BY <1>6
<1>8. ContentInv'
  <2>1. rx.units[pid] \o rx.open[pid] \in Seq(Unit)
    BY <1>1 DEF ContentInv
  <2> QED BY <1>3, <1>7, <2>1 DEF ContentInv
<1>9. /\ FrameInv'
      /\ pc' = "idle" \/ /\ frame'.kind = frame.kind /\ frame'.pts = frame.pts /\ frame'.size = frame.size
                         /\ frame'.at = frame.at + lay.n
                         /\ Stream'.header = h /\ Stream'.pes_packet_length = frame.size - lay.n
  BY <1>1, <1>4, <1>5, PayloadStep
<1>10. TailInv'
  <2>1. CASE pc' = "idle"
    BY <2>1 DEF TailInv
  <2>2. CASE pc' # "idle"
    <3>1. rx'.open[PidOf(frame'.kind)] = << unit >>
      BY <1>1, <1>3, <1>9, <2>2 DEF ContentInv, pid
    <3>2. unit = [pts |-> TimeField(frame'.pts), size |-> frame'.at]
      BY <1>1, <1>4, <1>9, <2>2 DEF unit
    <3>3. Stream'.header.pusi = FALSE /\ Stream'.header.afc = PAYLOAD_ONLY
      BY <1>2, <1>5, <1>9, <2>2, Zenon
    <3>4. frame'.at + Stream'.pes_packet_length = frame'.size
      BY <1>1, <1>4, <1>9, <2>2
    <3> QED BY <3>1, <3>2, <3>3, <3>4, Zenon DEF TailInv
  <2> QED BY <2>1, <2>2
<1> QED BY <1>8, <1>9, <1>10

LEMMA TailKeepsParse ==
  ASSUME TypeInv, CountInv, FrameInv, ContentInv, TailInv, WriteTail
  PROVE  FrameInv' /\ ContentInv' /\ TailInv'
<1>. DEFINE left == Stream.pes_packet_length
            lay == TailLayout(left)
            pid == PidOf(frame.kind)
            unit == [pts |-> TimeField(frame.pts), size |-> frame.at + lay.n]
<1>1. /\ pc = "tail" /\ pc \in Writing /\ frame.kind \in Kinds /\ frame.size \in Nat /\ frame.pts \in Nat
      /\ frame.at \in Nat /\ left \in Nat /\ pid \in EsPids
  BY StreamPointed, PidOfKind DEF WriteTail, Writing, TypeInv, TypeOK, FrameType
<1>2. /\ Stream.header.pusi = FALSE /\ Stream.header.afc = PAYLOAD_ONLY
      /\ frame.at + left = frame.size
  BY <1>1 DEF TailInv
<1>3. PICK p, h : EsWritten(p, lay, left, h) /\ p.pusi = FALSE /\ h.afc = lay.afc
  BY <1>2, TailWritten, Zenon
<1>4. /\ rx'.open = [rx.open EXCEPT ![pid] = << unit >>]
      /\ rx'.units = rx.units
      /\ "pes" \notin rx'.faults
  BY <1>3, TailReceived, Zenon
<1>5. lay.n \in 0..left /\ (lay.n # left => lay.afc = PAYLOAD_ONLY)
  BY <1>1, TailFits DEF TailLayout
<1>6. h.pusi = FALSE /\ Payload(h, left, lay)
  BY <1>3, Zenon DEF EsWritten
<1> HIDE DEF lay, pid, left
<1>7. unit \in Unit
  BY <1>1, <1>5, TimeFieldType DEF Unit
<1> HIDE DEF unit
<1>8. << unit >> \in Seq(Unit)
  BY <1>7
<1>9. ContentInv'
  BY <1>4, <1>8 DEF ContentInv
<1>10. /\ FrameInv'
       /\ left = lay.n => pc' = "idle"
       /\ left # lay.n => /\ frame'.kind = frame.kind /\ frame'.pts = frame.pts /\ frame'.size = frame.size
                          /\ frame'.at = frame.at + lay.n
                          /\ Stream'.header = h /\ Stream'.pes_packet_length = left - lay.n
  BY <1>1, <1>5, <1>6, PayloadStep
<1>11. TailInv'
  <2>1. CASE left = lay.n
    BY <1>10, <2>1 DEF TailInv
  <2>2. CASE left # lay.n
    <3>1. rx'.open[PidOf(frame'.kind)] = << unit >>
      BY <1>1, <1>4, <1>10, <2>2 DEF ContentInv, pid
    <3>2. unit = [pts |-> TimeField(frame'.pts), size |-> frame'.at]
      BY <1>10, <2>2 DEF unit
    <3>3. Stream'.header.pusi = FALSE /\ Stream'.header.afc = PAYLOAD_ONLY
      <4>1. h.afc = PAYLOAD_ONLY
        BY <1>3, <1>5, <2>2
      <4> QED BY <1>6, <1>10, <2>2, <4>1, Zenon
    <3>4. frame'.at + Stream'.pes_packet_length = frame'.size
      BY <1>1, <1>2, <1>5, <1>10, <2>2
    <3> QED BY <3>1, <3>2, <3>3, <3>4, Zenon DEF TailInv
  <2> QED BY <2>1, <2>2
<1> QED BY <1>9, <1>10, <1>11

LEMMA PsiKeepsParse ==
  ASSUME CountInv, FrameInv, ContentInv, WriteNull \/ WritePat \/ WritePmt
  PROVE  FrameInv' /\ ContentInv' /\ TailInv' /\ rx'.open = rx.open /\ rx'.units = rx.units
<1>1. PICK p : p.pid \in {PAT_PID, PMT_PID, NULL_PID} /\ rx' = Receive(rx, p)
  <2>1. CASE WriteNull
    <3>. DEFINE p == [pid |-> NULL_PID]
    <3>1. p.pid = NULL_PID /\ rx' = Receive(rx, p)
      BY <2>1 DEF WriteNull, Write
    <3> QED BY <3>1
  <2>2. CASE WritePat
    <3>. DEFINE p == [pid |-> PAT_PID, cc |-> pat.cc, section |-> pat_section]
    <3>1. p.pid = PAT_PID /\ rx' = Receive(rx, p)
      BY <2>2 DEF WritePat, Write
    <3> QED BY <3>1
  <2>3. CASE WritePmt
    <3>. DEFINE p == [pid |-> PMT_PID, cc |-> pmt.cc, section |-> pmt_section]
    <3>1. p.pid = PMT_PID /\ rx' = Receive(rx, p)
      BY <2>3 DEF WritePmt, Write
    <3> QED BY <3>1
  <2> QED BY <2>1, <2>2, <2>3
<1>2. rx'.open = rx.open /\ rx'.units = rx.units /\ ("pes" \in rx'.faults => "pes" \in rx.faults)
  BY <1>1, ContentsOfOthers DEF CountInv
<1>3. /\ pc \in {"pad", "pmt"} /\ pc' \in {"pad", "pmt", "gop"}
      /\ UNCHANGED << first, frame >>
  BY DEF WriteNull, WritePat, WritePmt
<1> QED BY <1>2, <1>3 DEF FrameInv, ContentInv, TailInv, Writing

(* A request adds a stream beside the one that the frame is written to.    *)
LEMMA RequestPadKeepsParse ==
  ASSUME TypeInv, CountInv, FrameInv, ContentInv, TailInv, NEW k \in Kinds, RequestPad(k)
  PROVE  FrameInv' /\ ContentInv' /\ TailInv'
<1>. DEFINE n == numsinkpads[k] + 1
<1>1. UNCHANGED << first, pc, frame, rx >> /\ streams' = [streams EXCEPT ![k][n] = NewStream(k)]
  BY DEF RequestPad, Current
<1>2. FrameInv' /\ ContentInv'
  BY <1>1 DEF FrameInv, ContentInv, Writing
<1>3. ASSUME pc = "tail" PROVE Stream' = Stream
  <2>1. frame.kind \in Kinds /\ frame.n \in 1..MaxPads /\ frame.n <= numsinkpads[frame.kind]
        /\ numsinkpads \in [Kinds -> 0..MaxPads]
        /\ streams \in [Kinds -> [1..MaxPads -> StreamType]]
    BY <1>3 DEF TypeInv, TypeOK, CountInv, PointerInv, Writing
  <2>2. frame.kind # k \/ frame.n # n
    BY <2>1, ProgramAssumption
  <2> HIDE DEF n
  <2>3. streams'[frame.kind][frame.n] = streams[frame.kind][frame.n]
    BY <1>1, <2>1, <2>2
  <2> QED BY <1>1, <2>3 DEF Stream
<1>4. TailInv'
  BY <1>1, <1>3 DEF TailInv
<1> QED BY <1>2, <1>4

LEMMA TakenKeepsParse ==
  ASSUME TypeInv, FrameInv, ContentInv,
         NEW k \in Kinds, NEW idr \in BOOLEAN, NEW size \in VideoSizes \cup AudioSizes,
         NEW ts \in Timestamps,
         frame' = NewFrame(k, idr, size, ts), pc' \in {"pad", "head"}, ~first,
         first' = first, rx' = rx
  PROVE  FrameInv' /\ ContentInv' /\ TailInv'
<1>1. frame'.size = size /\ frame'.pts = mpegtime(ts) /\ frame'.at = 0
  BY Zenon DEF NewFrame
<1>2. FrameInv'
  BY <1>1 DEF FrameInv
<1> QED BY <1>2 DEF ContentInv, TailInv

LEMMA NextKeepsParse ==
  ASSUME NoFrameOf169, TypeInv, CountInv, FrameInv, ContentInv, TailInv, [Next]_vars
  PROVE  FrameInv' /\ ContentInv' /\ TailInv'
<1>1. CASE UNCHANGED vars
  <2>1. UNCHANGED << pc, first, frame, rx, streams >>
    BY <1>1 DEF vars, spts_vars
  <2> QED BY <2>1 DEF FrameInv, ContentInv, TailInv, Stream, Writing
<1>2. CASE WriteHead \/ WriteTail
  BY <1>2, HeadKeepsParse, TailKeepsParse
<1>3. CASE WriteNull \/ WritePat \/ WritePmt
  BY <1>3, PsiKeepsParse
<1>4. CASE CloseGop
  <2>1. pc = "gop" /\ pc' \in {"head", "crashed"} /\ UNCHANGED << first, frame, rx >>
    BY <1>4 DEF CloseGop
  <2> QED BY <2>1 DEF FrameInv, ContentInv, TailInv, Writing
<1>5. ASSUME NEW idr \in BOOLEAN, NEW size \in VideoSizes, NEW ts \in Timestamps,
             WriteVideo(idr, size, ts)
      PROVE  FrameInv' /\ ContentInv' /\ TailInv'
  <2>1. /\ frame' = NewFrame("video", idr, size, ts) /\ pc' \in {"pad", "head"}
        /\ ~first /\ first' = first /\ rx' = rx /\ "video" \in Kinds
    BY <1>5 DEF WriteVideo, Kinds
  <2> QED BY <2>1, TakenKeepsParse
<1>6. ASSUME NEW size \in AudioSizes, NEW ts \in Timestamps, WriteAudio(size, ts)
      PROVE  FrameInv' /\ ContentInv' /\ TailInv'
  <2>1. ~first /\ first' = first /\ rx' = rx /\ pc = "idle" /\ "audio" \in Kinds /\ FALSE \in BOOLEAN
    BY <1>6 DEF WriteAudio, Kinds
  <2>2. CASE AudioKept
    <3>1. frame' = NewFrame("audio", FALSE, size, ts) /\ pc' = "head"
      BY <1>6, <2>2, Zenon DEF WriteAudio
    <3> QED BY <2>1, <3>1, TakenKeepsParse
  <2>3. CASE ~AudioKept
    <3>1. pc' = "idle"
      BY <1>6, <2>1, <2>3 DEF WriteAudio
    <3> QED BY <2>1, <3>1 DEF FrameInv, ContentInv, TailInv, Writing
  <2> QED BY <2>2, <2>3
<1>7. CASE FirstCollected
  <2>1. first /\ pc \notin Writing /\ UNCHANGED << pc, rx >>
    BY <1>7 DEF FirstCollected, FrameInv
  <2> QED BY <2>1 DEF FrameInv, ContentInv, TailInv, Writing
<1>8. ASSUME NEW k \in Kinds, RequestPad(k) PROVE FrameInv' /\ ContentInv' /\ TailInv'
  BY <1>8, RequestPadKeepsParse
<1> QED
  BY <1>1, <1>2, <1>3, <1>4, <1>5, <1>6, <1>7, <1>8 DEF Next, WriteStep, CollectedNothing

LEMMA ParseInvariant ==
  ASSUME NoFrameOf169 PROVE Spec => [](FrameInv /\ ContentInv /\ TailInv)
<1>1. TypeInv /\ CountInv /\ (FrameInv /\ ContentInv /\ TailInv) /\ [Next]_vars
        => (FrameInv /\ ContentInv /\ TailInv)'
  BY NextKeepsParse
<1> QED BY <1>1, InitParse, TypeInvariant, CountInvariant, PTL DEF Spec

(* Every packet of spts.c parses, whatever the sizes of the frames and the *)
(* pads requested in between: the PES header, or the rest of the frame, is *)
(* where the adaptation field ends, and no packet is short (spts.c:430-483)*)
(* - unless a frame has 169 bytes.                                         *)
THEOREM EveryPacketParses ==
  ASSUME NoFrameOf169 PROVE Spec => []PacketsParse
<1>1. ContentInv => PacketsParse
  BY DEF ContentInv, PacketsParse
<1> QED BY <1>1, ParseInvariant, PTL

-----------------------------------------------------------------------------
(* The refinement.  A frame is accepted when its buffer is taken, and      *)
(* delivered with its last packet; no other step is seen.                  *)

(* The program the code is written for: audio is there, and its pad is     *)
(* requested before the first buffers come, or CloseGop ends the process.  *)
AudioInTime == "audio" \in Program /\ ~LateRequests

ReadyInv == ~first => numsinkpads["audio"] > 0

LEMMA NextReady ==
  ASSUME AudioInTime, TypeInv, ReadyInv, [Next]_vars PROVE ReadyInv'
<1>1. CASE UNCHANGED << first, numsinkpads >>
  BY <1>1 DEF ReadyInv
<1>2. CASE FirstCollected
  BY <1>2 DEF FirstCollected, PadsReady, AudioInTime, ReadyInv
<1>3. ASSUME NEW k \in Kinds, RequestPad(k) PROVE ReadyInv'
  <2>1. first' = first /\ numsinkpads' = [numsinkpads EXCEPT ![k] = @ + 1]
    BY <1>3 DEF RequestPad
  <2>2. numsinkpads \in [Kinds -> Nat] /\ "audio" \in Kinds
    BY DEF TypeInv, TypeOK, Kinds
  <2> QED BY <2>1, <2>2 DEF ReadyInv
<1> QED
  BY <1>1, <1>2, <1>3
  DEF Next, WriteVideo, WriteAudio, WriteStep, WriteNull, WritePat, WritePmt, CloseGop,
      WriteHead, WriteTail, Payload, CollectedNothing, vars

LEMMA ReadyInvariant == ASSUME AudioInTime PROVE Spec => []ReadyInv
<1>1. Init => ReadyInv
  BY DEF Init, ReadyInv
<1>2. TypeInv /\ ReadyInv /\ [Next]_vars => ReadyInv'
  BY NextReady
<1> QED BY <1>1, <1>2, TypeInvariant, PTL DEF Spec

Flying == IF pc \in Writing
          THEN << PidOf(frame.kind), [pts |-> TimeField(frame.pts), size |-> frame.size] >>
          ELSE << >>

Arrived == [p \in EsPids |->
              IF pc = "tail" /\ p = PidOf(frame.kind) THEN rx.units[p]
              ELSE rx.units[p] \o rx.open[p]]

LEMMA FrameInFlight ==
  ASSUME TypeInv, FrameInv, pc \in Writing
  PROVE  /\ PidOf(frame.kind) \in EsPids
         /\ [pts |-> TimeField(frame.pts), size |-> frame.size] \in Frames
<1>1. frame.kind \in Kinds
  BY DEF TypeInv
<1>2. PICK t \in Timestamps : frame.pts = mpegtime(t)
  BY DEF FrameInv
<1>3. TimeField(frame.pts) \in {TimeField(mpegtime(u)) : u \in Timestamps}
  BY <1>2
<1>4. frame.size \in VideoSizes \cup AudioSizes
  BY DEF FrameInv
<1> QED BY <1>1, <1>3, <1>4, PidOfKind DEF Frames

(* The steps that leave the frame in flight and what arrived as they were. *)
LEMMA UnseenStep ==
  ASSUME pc # "tail", pc' # "tail", rx'.open = rx.open, rx'.units = rx.units,
         pc \in Writing <=> pc' \in Writing, pc \in Writing => frame' = frame
  PROVE  Flying' = Flying /\ Arrived' = Arrived
<1>1. Flying' = Flying
  BY DEF Flying
<1>2. Arrived = [p \in EsPids |-> rx.units[p] \o rx.open[p]]
  BY DEF Arrived
<1>3. Arrived' = [p \in EsPids |-> rx'.units[p] \o rx'.open[p]]
  BY DEF Arrived
<1> QED BY <1>1, <1>2, <1>3

Delivered ==
  /\ Flying # << >> /\ Flying' = << >>
  /\ Arrived' = [Arrived EXCEPT ![Flying[1]] = Append(@, Flying[2])]

Accepted == Flying = << >> /\ Flying' \in EsPids \X Frames /\ Arrived' = Arrived

Unseen == UNCHANGED << Flying, Arrived >>

LEMMA HeadDelivers ==
  ASSUME NoFrameOf169, TypeInv, CountInv, FrameInv, ContentInv, WriteHead
  PROVE  Delivered \/ Unseen
<1>. DEFINE lay == HeadLayout(Stream.pcr_reference, frame.size)
            pid == PidOf(frame.kind)
            unit == [pts |-> TimeField(frame.pts), size |-> lay.n]
<1>1. /\ pc = "head" /\ pc \in Writing /\ frame.kind \in Kinds /\ frame.size \in Nat /\ frame.pts \in Nat
      /\ Stream.pcr_reference \in BOOLEAN /\ pid \in EsPids
  BY StreamPointed, PidOfKind DEF WriteHead, Writing, TypeInv, TypeOK, FrameType
<1>2. PICK p, h : EsWritten(p, lay, frame.size, h) /\ p.pusi = TRUE
  BY HeadWritten, Zenon
<1>3. /\ rx'.open = [rx.open EXCEPT ![pid] = << unit >>]
      /\ rx'.units = [rx.units EXCEPT ![pid] = @ \o rx.open[pid]]
  BY <1>2, HeadReceived, Zenon
<1>4. lay.n \in 0..frame.size
  BY <1>1, HeadFits, Zenon
<1>5. Payload(h, frame.size, lay)
  BY <1>2, Zenon DEF EsWritten
<1>6. Flying = << pid, [pts |-> TimeField(frame.pts), size |-> frame.size] >>
  BY <1>1 DEF Flying
<1>7. Arrived = [q \in EsPids |-> rx.units[q] \o rx.open[q]]
  BY <1>1 DEF Arrived
<1> HIDE DEF lay
<1>8. /\ frame.size = lay.n => pc' = "idle"
      /\ frame.size # lay.n => /\ pc' = "tail"
                               /\ frame'.kind = frame.kind /\ frame'.pts = frame.pts /\ frame'.size = frame.size
  BY <1>1, <1>4, <1>5, PayloadStep
<1> HIDE DEF pid
<1>9. CASE frame.size = lay.n
  <2>0. unit \in Unit
    BY <1>1, <1>4, TimeFieldType DEF Unit
  <2>1. pc' = "idle"
    BY <1>8, <1>9
  <2>2. Flying' = << >>
    BY <2>1 DEF Flying, Writing
  <2>3. Arrived' = [q \in EsPids |-> rx'.units[q] \o rx'.open[q]]
    BY <2>1 DEF Arrived
  <2>4. unit = Flying[2] /\ Flying[1] = pid /\ Flying # << >>
    BY <1>6, <1>9
  <2> HIDE DEF unit
  <2>5. (rx.units[pid] \o rx.open[pid]) \o << unit >> = Append(rx.units[pid] \o rx.open[pid], unit)
    <3>1. rx.units[pid] \o rx.open[pid] \in Seq(Unit)
      BY <1>1 DEF ContentInv
    <3> QED BY <3>1, <2>0, AppendIsConcat, Zenon
  <2>6. ASSUME NEW q \in EsPids
        PROVE  rx'.units[q] \o rx'.open[q]
                 = IF q = pid THEN Append(rx.units[q] \o rx.open[q], unit)
                   ELSE rx.units[q] \o rx.open[q]
    <3>1. CASE q = pid
      BY <1>1, <1>3, <2>5, <3>1 DEF ContentInv
    <3>2. CASE q # pid
      BY <1>1, <1>3, <3>2 DEF ContentInv
    <3> QED BY <3>1, <3>2
  <2>7. Arrived' = [Arrived EXCEPT ![pid] = Append(@, unit)]
    BY <1>1, <1>7, <2>3, <2>6
  <2> QED BY <2>2, <2>4, <2>7 DEF Delivered
<1>10. CASE frame.size # lay.n
  <2>1. pc' = "tail" /\ frame'.kind = frame.kind /\ frame'.pts = frame.pts /\ frame'.size = frame.size
    BY <1>8, <1>10
  <2>2. Flying' = Flying
    BY <1>6, <2>1 DEF Flying, Writing, pid
  <2>3. Arrived' = [q \in EsPids |-> IF q = pid THEN rx'.units[q] ELSE rx'.units[q] \o rx'.open[q]]
    BY <2>1 DEF Arrived, pid
  <2>4. ASSUME NEW q \in EsPids
        PROVE  (IF q = pid THEN rx'.units[q] ELSE rx'.units[q] \o rx'.open[q])
                 = rx.units[q] \o rx.open[q]
    BY <1>1, <1>3 DEF ContentInv
  <2>5. Arrived' = Arrived
    BY <1>7, <2>3, <2>4
  <2> QED BY <2>2, <2>5 DEF Unseen
<1> QED BY <1>9, <1>10

LEMMA TailDelivers ==
  ASSUME TypeInv, CountInv, FrameInv, ContentInv, TailInv, WriteTail
  PROVE  Delivered \/ Unseen
<1>. DEFINE left == Stream.pes_packet_length
            lay == TailLayout(left)
            pid == PidOf(frame.kind)
            unit == [pts |-> TimeField(frame.pts), size |-> frame.at + lay.n]
<1>1. /\ pc = "tail" /\ pc \in Writing /\ frame.kind \in Kinds /\ frame.size \in Nat /\ frame.pts \in Nat
      /\ frame.at \in Nat /\ left \in Nat /\ pid \in EsPids
  BY StreamPointed, PidOfKind DEF WriteTail, Writing, TypeInv, TypeOK, FrameType
<1>2. /\ Stream.header.pusi = FALSE /\ Stream.header.afc = PAYLOAD_ONLY
      /\ frame.at + left = frame.size
  BY <1>1 DEF TailInv
<1>3. PICK p, h : EsWritten(p, lay, left, h) /\ p.pusi = FALSE
  BY <1>2, TailWritten, Zenon
<1>4. rx'.open = [rx.open EXCEPT ![pid] = << unit >>] /\ rx'.units = rx.units
  BY <1>3, TailReceived, Zenon
<1>5. lay.n \in 0..left
  BY <1>1, TailFits
<1>6. Payload(h, left, lay)
  BY <1>3, Zenon DEF EsWritten
<1>7. Flying = << pid, [pts |-> TimeField(frame.pts), size |-> frame.size] >>
  BY <1>1 DEF Flying
<1>8. Arrived = [q \in EsPids |-> IF q = pid THEN rx.units[q] ELSE rx.units[q] \o rx.open[q]]
  BY <1>1 DEF Arrived
<1> HIDE DEF lay, left
<1>9. /\ left = lay.n => pc' = "idle"
      /\ left # lay.n => /\ pc' = "tail"
                         /\ frame'.kind = frame.kind /\ frame'.pts = frame.pts /\ frame'.size = frame.size
  BY <1>1, <1>5, <1>6, PayloadStep
<1> HIDE DEF pid
<1>10. CASE left = lay.n
  <2>0. unit \in Unit
    BY <1>1, <1>5, TimeFieldType DEF Unit
  <2>1. pc' = "idle"
    BY <1>9, <1>10
  <2>2. Flying' = << >>
    BY <2>1 DEF Flying, Writing
  <2>3. Arrived' = [q \in EsPids |-> rx'.units[q] \o rx'.open[q]]
    BY <2>1 DEF Arrived
  <2>4. unit = Flying[2] /\ Flying[1] = pid /\ Flying # << >>
    BY <1>2, <1>7, <1>10
  <2> HIDE DEF unit
  <2>5. rx.units[pid] \o << unit >> = Append(rx.units[pid], unit)
    <3>1. rx.units[pid] \in Seq(Unit)
      BY <1>1 DEF ContentInv
    <3> QED BY <3>1, <2>0, AppendIsConcat, Zenon
  <2>6. ASSUME NEW q \in EsPids
        PROVE  rx'.units[q] \o rx'.open[q]
                 = IF q = pid THEN Append(rx.units[q], unit) ELSE rx.units[q] \o rx.open[q]
    <3>1. CASE q = pid
      BY <1>1, <1>4, <2>5, <3>1 DEF ContentInv
    <3>2. CASE q # pid
      BY <1>1, <1>4, <3>2 DEF ContentInv
    <3> QED BY <3>1, <3>2
  <2>7. Arrived' = [Arrived EXCEPT ![pid] = Append(@, unit)]
    BY <1>1, <1>8, <2>3, <2>6
  <2> QED BY <2>2, <2>4, <2>7 DEF Delivered
<1>11. CASE left # lay.n
  <2>1. pc' = "tail" /\ frame'.kind = frame.kind /\ frame'.pts = frame.pts /\ frame'.size = frame.size
    BY <1>9, <1>11
  <2>2. Flying' = Flying
    BY <1>7, <2>1 DEF Flying, Writing, pid
  <2>3. Arrived' = [q \in EsPids |-> IF q = pid THEN rx'.units[q] ELSE rx'.units[q] \o rx'.open[q]]
    BY <2>1 DEF Arrived, pid
  <2>4. ASSUME NEW q \in EsPids
        PROVE  (IF q = pid THEN rx'.units[q] ELSE rx'.units[q] \o rx'.open[q])
                 = IF q = pid THEN rx.units[q] ELSE rx.units[q] \o rx.open[q]
    BY <1>1, <1>4 DEF ContentInv
  <2>5. Arrived' = Arrived
    BY <1>8, <2>3, <2>4
  <2> QED BY <2>2, <2>5 DEF Unseen
<1> QED BY <1>10, <1>11

LEMMA TakenAccepted ==
  ASSUME TypeInv, FrameInv, FrameInv', TypeInv', pc = "idle", pc' \in {"pad", "head"}, rx' = rx
  PROVE  Accepted
<1>1. pc' \in Writing /\ pc' # "tail" /\ pc # "tail"
  BY DEF Writing
<1>2. Flying = << >> /\ Flying' \in EsPids \X Frames
  <2>1. Flying = << >>
    BY DEF Flying, Writing
  <2>2. Flying' = << PidOf(frame'.kind), [pts |-> TimeField(frame'.pts), size |-> frame'.size] >>
    BY <1>1 DEF Flying
  <2>3. /\ PidOf(frame'.kind) \in EsPids
        /\ [pts |-> TimeField(frame'.pts), size |-> frame'.size] \in Frames
    <3>1. frame'.kind \in Kinds
      BY <1>1 DEF TypeInv
    <3>2. PICK t \in Timestamps : frame'.pts = mpegtime(t)
      BY <1>1 DEF FrameInv
    <3>3. TimeField(frame'.pts) \in {TimeField(mpegtime(u)) : u \in Timestamps}
      BY <3>2
    <3>4. frame'.size \in VideoSizes \cup AudioSizes
      BY <1>1 DEF FrameInv
    <3> QED BY <3>1, <3>3, <3>4, PidOfKind DEF Frames
  <2> QED BY <2>1, <2>2, <2>3
<1>3. Arrived' = Arrived
  <2>1. Arrived = [p \in EsPids |-> rx.units[p] \o rx.open[p]]
    BY <1>1 DEF Arrived
  <2>2. Arrived' = [p \in EsPids |-> rx.units[p] \o rx.open[p]]
    BY <1>1 DEF Arrived
  <2> QED BY <2>1, <2>2
<1> QED BY <1>2, <1>3 DEF Accepted

LEMMA NextDelivers ==
  ASSUME NoFrameOf169, AudioInTime, TypeInv, TypeInv', CountInv, FrameInv, FrameInv',
         ContentInv, TailInv, ReadyInv, [Next]_vars
  PROVE  Delivered \/ Accepted \/ Unseen
<1>1. CASE WriteHead \/ WriteTail
  BY <1>1, HeadDelivers, TailDelivers
<1>2. CASE WriteNull \/ WritePat \/ WritePmt
  <2>1. rx'.open = rx.open /\ rx'.units = rx.units
    BY <1>2, PsiKeepsParse
  <2>2. frame' = frame /\ pc \in {"pad", "pmt"} /\ pc' \in {"pad", "pmt", "gop"}
    BY <1>2 DEF WriteNull, WritePat, WritePmt
  <2> QED BY <2>1, <2>2, UnseenStep DEF Writing, Unseen
<1>3. CASE CloseGop
  <2>1. pc = "gop" /\ rx' = rx /\ frame' = frame
    BY <1>3 DEF CloseGop
  <2>2. pc' = "head"
    <3>1. Current("audio") # 0
      BY <2>1 DEF FrameInv, ReadyInv, Writing, Current, TypeInv, TypeOK, Kinds
    <3> QED BY <1>3, <3>1 DEF CloseGop
  <2> QED BY <2>1, <2>2, UnseenStep DEF Writing, Unseen
<1>4. ASSUME NEW idr \in BOOLEAN, NEW size \in VideoSizes, NEW ts \in Timestamps,
             WriteVideo(idr, size, ts)
      PROVE  Accepted
  <2>1. pc = "idle" /\ pc' \in {"pad", "head"} /\ rx' = rx
    BY <1>4 DEF WriteVideo
  <2> QED BY <2>1, TakenAccepted
<1>5. ASSUME NEW size \in AudioSizes, NEW ts \in Timestamps, WriteAudio(size, ts)
      PROVE  Accepted \/ Unseen
  <2>1. pc = "idle" /\ rx' = rx
    BY <1>5 DEF WriteAudio
  <2>2. CASE AudioKept
    <3>1. pc' = "head"
      BY <1>5, <2>2 DEF WriteAudio
    <3> QED BY <2>1, <3>1, TakenAccepted
  <2>3. CASE ~AudioKept
    <3>1. pc' = pc /\ frame' = frame
      BY <1>5, <2>3 DEF WriteAudio
    <3> QED BY <2>1, <3>1 DEF Unseen, Flying, Arrived
  <2> QED BY <2>2, <2>3
<1>6. CASE UNCHANGED << pc, frame, rx >>
  BY <1>6 DEF Unseen, Flying, Arrived
<1> QED
  BY <1>1, <1>2, <1>3, <1>4, <1>5, <1>6
  DEF Next, WriteStep, RequestPad, FirstCollected, CollectedNothing, vars

LEMMA DeliveryStep ==
  ASSUME NoFrameOf169, AudioInTime, TypeInv, TypeInv', CountInv, FrameInv, FrameInv',
         ContentInv, TailInv, ReadyInv, [Next]_vars
  PROVE  [Delivery!Next]_<< Flying, Arrived >>
<1>1. CASE Delivered
  BY <1>1 DEF Delivered, Delivery!Next, Delivery!Deliver, Flying, Arrived
<1>2. CASE Accepted
  <2>1. PICK p \in EsPids, f \in Frames : Flying' = << p, f >>
    BY <1>2 DEF Accepted
  <2>2. Delivery!Accept(p, f)
    BY <1>2, <2>1 DEF Accepted, Delivery!Accept, Flying, Arrived
  <2> QED BY <2>2 DEF Delivery!Next
<1>3. CASE Unseen
  BY <1>3 DEF Unseen
<1> QED BY <1>1, <1>2, <1>3, NextDelivers

(* spts_write_frame implements FrameDelivery: every frame that is taken    *)
(* reaches the receiver whole, with its timestamp, in the order of its     *)
(* stream, and nothing else does - whatever the sizes, the timestamps and  *)
(* the GOP slot, unless a frame has 169 bytes or audio comes late or never.*)
THEOREM ImplementsFrameDelivery ==
  ASSUME NoFrameOf169, AudioInTime PROVE Spec => DeliversFrames
<1>1. Init => Delivery!Init
  <2> SUFFICES ASSUME Init PROVE Delivery!Init
    OBVIOUS
  <2>1. pc = "idle" /\ rx = ReceiverInit
    BY DEF Init
  <2>2. \A p \in EsPids : rx.units[p] \o rx.open[p] = << >>
    <3>1. << >> \o << >> = << >>
      OBVIOUS
    <3> QED BY <2>1, <3>1 DEF ReceiverInit
  <2> QED BY <2>1, <2>2 DEF Delivery!Init, Writing
<1>2. /\ TypeInv /\ TypeInv' /\ CountInv /\ ReadyInv
      /\ (FrameInv /\ ContentInv /\ TailInv) /\ (FrameInv /\ ContentInv /\ TailInv)'
      /\ [Next]_vars
      => [Delivery!Next]_<< Flying, Arrived >>
  BY DeliveryStep
<1>3. Spec => Delivery!Init /\ [][Delivery!Next]_<< Flying, Arrived >>
  BY <1>1, <1>2, TypeInvariant, CountInvariant, ReadyInvariant, ParseInvariant, PTL DEF Spec
<1> QED BY <1>3, PTL DEF DeliversFrames, Delivery!Spec, Flying, Arrived
=============================================================================
