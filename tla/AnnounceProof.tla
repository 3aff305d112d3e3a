---------------------------- MODULE AnnounceProof ---------------------------
(***************************************************************************)
(* What the program tables announce: they are valid, name the streams and  *)
(* the clock in use, and the clock runs behind the frames.  And the        *)
(* statistics of the GOPs are true.                                        *)
(***************************************************************************)
EXTENDS PacketProof

-----------------------------------------------------------------------------
(* The clock: what 33-bit fields keep of two times is as far apart as the  *)
(* times are, or less.                                                     *)

LEMMA QuotientAndRest ==
  ASSUME NEW a \in Int, NEW w \in Nat \ {0}
  PROVE  \E q \in Int : a = w * q + (a % w) /\ a % w \in 0..(w-1)
<1>1. a = w * (a \div w) + (a % w)
  OBVIOUS
<1>2. a % w \in 0..(w-1) /\ a \div w \in Int
  OBVIOUS
<1> QED BY <1>1, <1>2

LEMMA LeadInFields ==
  ASSUME NEW w \in Nat \ {0}, NEW a \in Nat, NEW d \in Nat, d <= a
  PROVE  ((a % w) - ((a - d) % w)) % w <= d
<1>. DEFINE y == ((a % w) - ((a - d) % w)) % w
<1>1. a \in Int /\ a % w \in Int /\ (a - d) % w \in Int /\ a - d \in Int
  OBVIOUS
<1>2. PICK q1 \in Int : a = w * q1 + (a % w)
  BY <1>1, QuotientAndRest
<1>3. PICK q2 \in Int : a - d = w * q2 + ((a - d) % w)
  BY <1>1, QuotientAndRest
<1>4. PICK q3 \in Int : (a % w) - ((a - d) % w) = w * q3 + y /\ y \in 0..(w-1)
  <2>1. (a % w) - ((a - d) % w) \in Int
    BY <1>1
  <2> QED BY <2>1, QuotientAndRest
<1> SUFFICES y <= d
  OBVIOUS
<1> HIDE DEF y
<1>5. y = d + w * (q2 - q1 - q3)
  <2>1. w * (q2 - q1 - q3) = w * q2 - w * q1 - w * q3
    OBVIOUS
  <2>2. w * q1 \in Int /\ w * q2 \in Int /\ w * q3 \in Int
    OBVIOUS
  <2> QED BY <1>1, <1>2, <1>3, <1>4, <2>1, <2>2
<1>6. PICK k \in Int : y = d + w * k
  BY <1>5
<1>7. k <= 0
  <2> SUFFICES ASSUME k >= 1 PROVE FALSE
    OBVIOUS
  <2>1. w * k >= w
    OBVIOUS
  <2> QED BY <1>4, <1>6, <2>1
<1>8. w * k <= 0
  BY <1>7
<1>9. w * k \in Int
  OBVIOUS
<1> QED BY <1>4, <1>6, <1>8, <1>9

LEMMA ClockBehind ==
  ASSUME NEW pts \in Nat
  PROVE  /\ TimeField(pcr_base(pts)) \in Nat
         /\ (TimeField(pts) - TimeField(pcr_base(pts))) % PtsWrap <= PCR_LEAD
<1>. DEFINE d == IF pts < PCR_LEAD THEN pts ELSE PCR_LEAD
<1>1. d \in Nat /\ d <= pts /\ d <= PCR_LEAD /\ pcr_base(pts) = pts - d
  BY DEF PCR_LEAD, pcr_base
<1> HIDE DEF d
<1>2. pts - d \in Nat /\ (pts % PtsWrap) \in Nat /\ ((pts - d) % PtsWrap) \in Nat
  BY <1>1, PtsWrapAssumption
<1>3. ((pts % PtsWrap) - ((pts - d) % PtsWrap)) % PtsWrap <= d
  BY <1>1, LeadInFields, PtsWrapAssumption
<1>4. ((pts % PtsWrap) - ((pts - d) % PtsWrap)) % PtsWrap \in Int
  BY <1>2, PtsWrapAssumption
<1>. DEFINE y == ((pts % PtsWrap) - ((pts - d) % PtsWrap)) % PtsWrap
<1>5. y <= PCR_LEAD
  <2> HIDE DEF y
  <2>1. y <= d /\ y \in Int
    BY <1>3, <1>4 DEF y
  <2> QED BY <1>1, <2>1 DEF PCR_LEAD
<1> QED BY <1>1, <1>2, <1>5 DEF TimeField

-----------------------------------------------------------------------------
(* What the receiver makes of the announcements.                           *)

LEMMA NewsCounted ==
  ASSUME NEW r, RxType(r), NEW p
  PROVE  LET c == CountPacket(r, p)
         IN  /\ c.psi = r.psi /\ c.program = r.program
             /\ c.maxEs = r.maxEs /\ c.gopEs = r.gopEs
             /\ \A f \in {"psi", "unannounced", "pcr"} : f \in c.faults => f \in r.faults
BY DEF RxType, RxFields, CountPacket

LEMMA NewsOfEs ==
  ASSUME NEW r, RxType(r), NEW p, p.pid \in EsPids
  PROVE  LET c == Receive(r, p)
         IN  /\ c.psi = r.psi /\ c.program = r.program
             /\ c.maxEs = r.maxEs /\ c.gopEs = [r.gopEs EXCEPT ![p.pid] = @ + 1]
             /\ "psi" \in c.faults => "psi" \in r.faults
             /\ "unannounced" \in c.faults => "unannounced" \in r.faults \/ ~Announced(r, p)
             /\ "pcr" \in c.faults => "pcr" \in r.faults \/ ~ClockOk(r, p)
<1>. DEFINE c == ReceiveEs(r, p)
<1>1. Receive(r, p) = CountPacket(c, p)
  BY Pids DEF Receive
<1>2. RxType(c)
  BY ReceiveEsFields
<1>3. /\ c.psi = r.psi /\ c.program = r.program
      /\ c.maxEs = r.maxEs /\ c.gopEs = [r.gopEs EXCEPT ![p.pid] = @ + 1]
  BY DEF RxType, RxFields, ReceiveEs
<1>4. /\ "psi" \in c.faults => "psi" \in r.faults
      /\ "unannounced" \in c.faults => "unannounced" \in r.faults \/ ~Announced(r, p)
      /\ "pcr" \in c.faults => "pcr" \in r.faults \/ ~ClockOk(r, p)
  BY DEF RxType, RxFields, ReceiveEs
<1> HIDE DEF c
<1> QED BY <1>1, <1>2, <1>3, <1>4, NewsCounted

LEMMA NewsOfPat ==
  ASSUME NEW r, RxType(r), NEW p, p.pid = PAT_PID
  PROVE  LET c == Receive(r, p)
         IN  /\ c.psi = r.psi
             /\ c.program = [program_number |-> p.section.program_number, pid |-> p.section.pmt_pid]
             /\ c.maxEs = [q \in EsPids |-> IF r.gopEs[q] > r.maxEs[q] THEN r.gopEs[q] ELSE r.maxEs[q]]
             /\ c.gopEs = [q \in EsPids |-> 0]
             /\ "psi" \in c.faults => "psi" \in r.faults \/ ~PatValid(p.section)
             /\ \A f \in {"unannounced", "pcr"} : f \in c.faults => f \in r.faults
<1>. DEFINE c == ReceivePat(r, p)
<1>1. Receive(r, p) = CountPacket(c, p)
  BY Pids DEF Receive
<1>2. RxType(c)
  BY ReceivePatFields
<1>3. /\ c.psi = r.psi
      /\ c.program = [program_number |-> p.section.program_number, pid |-> p.section.pmt_pid]
  BY DEF RxType, RxFields, ReceivePat
<1>4. /\ c.maxEs = [q \in EsPids |-> IF r.gopEs[q] > r.maxEs[q] THEN r.gopEs[q] ELSE r.maxEs[q]]
      /\ c.gopEs = [q \in EsPids |-> 0]
  BY DEF RxType, RxFields, ReceivePat
<1>5. /\ "psi" \in c.faults => "psi" \in r.faults \/ ~PatValid(p.section)
      /\ \A f \in {"unannounced", "pcr"} : f \in c.faults => f \in r.faults
  BY DEF RxType, RxFields, ReceivePat
<1> HIDE DEF c
<1> QED BY <1>1, <1>2, <1>3, <1>4, <1>5, NewsCounted

LEMMA NewsOfPmt ==
  ASSUME NEW r, RxType(r), NEW p, p.pid = PMT_PID
  PROVE  LET c == Receive(r, p)
         IN  /\ c.psi = [pcr |-> p.section.PCR_PID,
                         pids |-> {p.section.streams[i].pid : i \in DOMAIN p.section.streams}]
             /\ c.program = r.program /\ c.maxEs = r.maxEs /\ c.gopEs = r.gopEs
             /\ "psi" \in c.faults =>
                  "psi" \in r.faults \/ ~(SectionValid(p.section) /\ PmtExpected(r, p))
             /\ \A f \in {"unannounced", "pcr"} : f \in c.faults => f \in r.faults
<1>. DEFINE c == ReceivePmt(r, p)
<1>1. Receive(r, p) = CountPacket(c, p)
  BY Pids DEF Receive
<1>2. RxType(c)
  BY ReceivePmtFields
<1>3. c.psi = [pcr |-> p.section.PCR_PID,
               pids |-> {p.section.streams[i].pid : i \in DOMAIN p.section.streams}]
  BY DEF RxType, RxFields, ReceivePmt
<1>4. /\ c.program = r.program /\ c.maxEs = r.maxEs /\ c.gopEs = r.gopEs
      /\ "psi" \in c.faults =>
           "psi" \in r.faults \/ ~(SectionValid(p.section) /\ PmtExpected(r, p))
      /\ \A f \in {"unannounced", "pcr"} : f \in c.faults => f \in r.faults
  BY DEF RxType, RxFields, ReceivePmt
<1> HIDE DEF c
<1> QED BY <1>1, <1>2, <1>3, <1>4, NewsCounted

LEMMA NewsOfNull ==
  ASSUME NEW r, RxType(r), NEW p, p.pid = NULL_PID
  PROVE  LET c == Receive(r, p)
         IN  /\ c.psi = r.psi /\ c.program = r.program
             /\ c.maxEs = r.maxEs /\ c.gopEs = r.gopEs
             /\ \A f \in {"psi", "unannounced", "pcr"} : f \in c.faults => f \in r.faults
<1>1. Receive(r, p) = CountPacket(r, p)
  BY Pids DEF Receive
<1> QED BY <1>1, NewsCounted
-----------------------------------------------------------------------------
(* The PMT is edited in place, packet by packet of a frame being written.  *)

SectionFields ==
  {"section_length", "header", "PCR_PID", "streams", "video_pid", "audio_pid", "crc"}
StreamEntry == [type : Nat, pid : Nat]

(* A section whose lengths belong to its streams, ...                      *)
SectionShape(s) ==
  /\ DOMAIN s = SectionFields
  /\ s.streams \in Seq(StreamEntry)
  /\ s.section_length = 13 + 5 * Len(s.streams)
  /\ s.header = section_header_set(2, s.section_length, PROGRAM_NUMBER)

(* ... and one that is sent.                                               *)
SectionSound(s) == SectionShape(s) /\ s.crc = SectionBytes(s)

LEMMA SoundIsValid ==
  ASSUME NEW s, SectionSound(s) PROVE SectionValid(s) /\ s.header.id = PROGRAM_NUMBER
BY DEF SectionSound, SectionShape, SectionValid, SectionBytes, Covers, section_header_set

LEMMA CrcMakesSound ==
  ASSUME NEW s, SectionShape(s) PROVE SectionSound(WithCrc(s))
<1>1. /\ DOMAIN WithCrc(s) = SectionFields
      /\ WithCrc(s).crc = SectionBytes(s)
      /\ \A f \in SectionFields \ {"crc"} : WithCrc(s)[f] = s[f]
  BY DEF SectionShape, SectionFields, WithCrc
<1>2. /\ WithCrc(s).streams = s.streams /\ WithCrc(s).section_length = s.section_length
      /\ WithCrc(s).header = s.header /\ WithCrc(s).PCR_PID = s.PCR_PID
  BY <1>1 DEF SectionFields
<1>3. SectionShape(WithCrc(s))
  BY <1>1, <1>2 DEF SectionShape
<1>4. SectionBytes(WithCrc(s)) = SectionBytes(s)
  BY <1>2 DEF SectionBytes
<1> QED BY <1>1, <1>3, <1>4 DEF SectionSound

LEMMA PcrPidSet ==
  ASSUME NEW s, SectionShape(s), NEW pid
  PROVE  /\ SectionSound(pmt_section_pcr_pid_set(s, pid))
         /\ pmt_section_pcr_pid_set(s, pid).PCR_PID = pid
         /\ pmt_section_pcr_pid_set(s, pid).streams = s.streams
         /\ pmt_section_pcr_pid_set(s, pid).video_pid = s.video_pid
<1>. DEFINE t == [s EXCEPT !.PCR_PID = pid]
<1>1. SectionShape(t) /\ t.PCR_PID = pid /\ t.streams = s.streams /\ t.video_pid = s.video_pid
  BY DEF SectionShape, SectionFields
<1>2. pmt_section_pcr_pid_set(s, pid) = WithCrc(t)
  BY DEF pmt_section_pcr_pid_set
<1> HIDE DEF t
<1>3. /\ WithCrc(t).PCR_PID = t.PCR_PID /\ WithCrc(t).streams = t.streams
      /\ WithCrc(t).video_pid = t.video_pid
  BY <1>1 DEF WithCrc, SectionShape, SectionFields
<1> QED BY <1>1, <1>2, <1>3, CrcMakesSound

LEMMA StreamAdded ==
  ASSUME NEW s, SectionShape(s), NEW k \in Kinds
  PROVE  LET t == pmt_section_stream_add(s, TypeCode(k), PidOf(k))
         IN  /\ SectionSound(t)
             /\ t.PCR_PID = s.PCR_PID
             /\ t.streams = Append(s.streams, [type |-> TypeCode(k), pid |-> PidOf(k)])
             /\ t.video_pid = IF k = "video" THEN VIDEO_PID ELSE s.video_pid
<1>. DEFINE entry == [type |-> TypeCode(k), pid |-> PidOf(k)]
            u == [s EXCEPT !.section_length = s.section_length + 5,
                           !.header.section_length = s.section_length + 5,
                           !.streams = Append(s.streams, entry)]
            v == IF k = "video" THEN [u EXCEPT !.video_pid = PidOf(k)]
                                ELSE [u EXCEPT !.audio_pid = PidOf(k)]
            t == pmt_section_stream_add(s, TypeCode(k), PidOf(k))
<1>1. t = WithCrc(v)
  <2>1. TypeCode(k) = STREAM_TYPE_VIDEO_H264 <=> k = "video"
    BY DEF TypeCode, STREAM_TYPE_VIDEO_H264, STREAM_TYPE_AUDIO_AAC
  <2> QED BY <2>1 DEF pmt_section_stream_add
<1>2. entry \in StreamEntry
  BY DEF StreamEntry, TypeCode, PidOf, STREAM_TYPE_VIDEO_H264, STREAM_TYPE_AUDIO_AAC,
         VIDEO_PID, AUDIO_PID
<1> HIDE DEF entry
<1>3. Len(s.streams) \in Nat /\ s.streams \in Seq(StreamEntry)
  BY DEF SectionShape
<1>4. Append(s.streams, entry) \in Seq(StreamEntry)
      /\ Len(Append(s.streams, entry)) = Len(s.streams) + 1
  BY <1>2, <1>3
<1>5. /\ DOMAIN u = SectionFields /\ u.section_length = s.section_length + 5
      /\ u.header = [s.header EXCEPT !.section_length = s.section_length + 5]
      /\ u.streams = Append(s.streams, entry)
      /\ u.PCR_PID = s.PCR_PID /\ u.video_pid = s.video_pid
  BY DEF SectionShape, SectionFields
<1>6. u.header = section_header_set(2, u.section_length, PROGRAM_NUMBER)
  BY <1>5 DEF SectionShape, section_header_set
<1> HIDE DEF u
<1>7. /\ DOMAIN v = SectionFields /\ v.section_length = u.section_length
      /\ v.header = u.header /\ v.streams = u.streams /\ v.PCR_PID = u.PCR_PID
      /\ v.video_pid = IF k = "video" THEN VIDEO_PID ELSE u.video_pid
  BY <1>5 DEF SectionFields, PidOf
<1> HIDE DEF v
<1>8. SectionShape(v)
  BY <1>3, <1>4, <1>5, <1>6, <1>7 DEF SectionShape
<1>9. /\ WithCrc(v).PCR_PID = v.PCR_PID /\ WithCrc(v).streams = v.streams
      /\ WithCrc(v).video_pid = v.video_pid
  BY <1>7 DEF WithCrc, SectionFields
<1>10. SectionSound(WithCrc(v))
  BY <1>8, CrcMakesSound
<1> HIDE DEF t
<1>11. SectionSound(t) /\ t.PCR_PID = s.PCR_PID /\ t.streams = Append(s.streams, entry)
       /\ t.video_pid = IF k = "video" THEN VIDEO_PID ELSE s.video_pid
  BY <1>1, <1>5, <1>7, <1>9, <1>10
<1> QED BY <1>11 DEF t, entry

LEMMA NewSection ==
  LET s == pmt_section_init(PROGRAM_NUMBER)
  IN  SectionShape(s) /\ s.streams = << >> /\ s.video_pid = 0
<1>1. << >> \in Seq(StreamEntry) /\ Len(<< >>) = 0
  OBVIOUS
<1> QED BY <1>1 DEF SectionShape, SectionFields, pmt_section_init, section_header_set

LEMMA PatIsValid ==
  /\ PatValid(pat_section)
  /\ pat_section.program_number = PROGRAM_NUMBER /\ pat_section.pmt_pid = PMT_PID
BY DEF PatValid, pat_section, pat_section_set, section_header_set, Covers

-----------------------------------------------------------------------------
(* What each step does to the section and to the receiver.                 *)

Program22 == [program_number |-> PROGRAM_NUMBER, pid |-> PMT_PID]

LEMMA FramePacketSent ==
  ASSUME TypeInv, CountInv, WriteHead \/ WriteTail
  PROVE  /\ UNCHANGED << first, numsinkpads, pmt_section >>
         /\ pc \in Writing /\ pc' \in {"idle", "tail"}
         /\ \E p : p.pid = PidOf(frame.kind) /\ p.pid \in EsPids /\ rx' = Receive(rx, p)
<1>1. EsStep
  BY HeadIsEsStep, TailIsEsStep
<1>2. UNCHANGED << first, pmt_section >>
  <2>1. \E h, left, lay : Payload(h, left, lay)
    BY Zenon DEF WriteHead, WriteTail
  <2> QED BY <2>1 DEF Payload
<1>3. pc \in Writing /\ pc' \in {"idle", "tail"} /\ UNCHANGED numsinkpads
  BY <1>1 DEF EsStep, Writing
<1>4. PICK p : p.pid = Stream.header.pid /\ rx' = Receive(rx, p)
  BY <1>1 DEF EsStep, Write
<1>5. Stream.header.pid = PidOf(frame.kind) /\ frame.kind \in Kinds
  BY <1>3, StreamPointed DEF CountInv, HeadersInv
<1>6. p.pid = PidOf(frame.kind) /\ p.pid \in EsPids
  BY <1>4, <1>5, PidsOfKinds
<1> QED BY <1>2, <1>3, <1>4, <1>6

PsiInv ==
  /\ SectionShape(pmt_section)
  /\ ~first => pmt_section.crc = SectionBytes(pmt_section)
  /\ pc \in Writing => ~first
  /\ pc = "pmt" => rx.program = Program22
  /\ "psi" \notin rx.faults

LEMMA InitPsi == Init => PsiInv
BY NewSection DEF Init, PsiInv, Writing, ReceiverInit

LEMMA PmtKeepsPsi ==
  ASSUME CountInv, PsiInv, WritePmt PROVE PsiInv'
<1>. DEFINE p == [pid |-> PMT_PID, cc |-> pmt.cc, section |-> pmt_section]
<1>1. /\ rx' = Receive(rx, p) /\ p.pid = PMT_PID /\ p.section = pmt_section
      /\ pc = "pmt" /\ pc' = "gop" /\ UNCHANGED << first, pmt_section >>
  BY DEF WritePmt, Write
<1> HIDE DEF p
<1>2. SectionSound(pmt_section) /\ ~first /\ rx.program = Program22 /\ RxType(rx)
  BY <1>1 DEF PsiInv, SectionSound, Writing, CountInv
<1>3. SectionValid(p.section) /\ PmtExpected(rx, p)
  BY <1>1, <1>2, SoundIsValid DEF PmtExpected, Program22
<1>4. "psi" \in rx'.faults => "psi" \in rx.faults
  BY <1>1, <1>2, <1>3, NewsOfPmt
<1> QED BY <1>1, <1>2, <1>4 DEF PsiInv

LEMMA PatKeepsPsi ==
  ASSUME CountInv, PsiInv, WritePat PROVE PsiInv'
<1>. DEFINE p == [pid |-> PAT_PID, cc |-> pat.cc, section |-> pat_section]
<1>1. /\ rx' = Receive(rx, p) /\ p.pid = PAT_PID /\ p.section = pat_section
      /\ pc = "pad" /\ pc' = "pmt" /\ UNCHANGED << first, pmt_section >>
  BY DEF WritePat, Write
<1> HIDE DEF p
<1>2. RxType(rx)
  BY DEF CountInv
<1>3. rx'.program = Program22
  BY <1>1, <1>2, NewsOfPat, PatIsValid DEF Program22
<1>4. "psi" \in rx'.faults => "psi" \in rx.faults
  BY <1>1, <1>2, NewsOfPat, PatIsValid
<1> QED BY <1>1, <1>3, <1>4 DEF PsiInv, Writing

LEMMA NextKeepsPsi ==
  ASSUME TypeInv, CountInv, PsiInv, [Next]_vars PROVE PsiInv'
<1>1. CASE UNCHANGED vars
  BY <1>1 DEF vars, spts_vars, PsiInv
<1>2. CASE WriteHead \/ WriteTail
  <2>1. PICK p : p.pid \in EsPids /\ rx' = Receive(rx, p)
    BY <1>2, FramePacketSent
  <2>2. "psi" \in rx'.faults => "psi" \in rx.faults
    BY <2>1, NewsOfEs DEF CountInv
  <2>3. UNCHANGED << first, pmt_section >> /\ pc \in Writing /\ pc' \in {"idle", "tail"}
    BY <1>2, FramePacketSent
  <2> QED BY <2>2, <2>3 DEF PsiInv
<1>3. CASE WriteNull
  <2>. DEFINE p == [pid |-> NULL_PID]
  <2>1. p.pid = NULL_PID /\ rx' = Receive(rx, p) /\ UNCHANGED << first, pmt_section, pc >>
    BY <1>3 DEF WriteNull, Write
  <2> HIDE DEF p
  <2>2. "psi" \in rx'.faults => "psi" \in rx.faults
    BY <2>1, NewsOfNull DEF CountInv
  <2>3. pc = "pad"
    BY <1>3 DEF WriteNull
  <2> QED BY <2>1, <2>2, <2>3 DEF PsiInv
<1>4. CASE CloseGop
  BY <1>4 DEF CloseGop, PsiInv, Writing
<1>5. CASE FirstCollected
  <2>1. /\ pmt_section' = pmt_section_pcr_pid_set(pmt_section, PidOf(ClockKind))
        /\ UNCHANGED << pc, rx >> /\ first
    BY <1>5 DEF FirstCollected
  <2>2. SectionSound(pmt_section')
    BY <2>1, PcrPidSet DEF PsiInv
  <2> QED BY <2>1, <2>2 DEF PsiInv, SectionSound
<1>6. ASSUME NEW k \in Kinds, RequestPad(k) PROVE PsiInv'
  <2>1. /\ pmt_section' = pmt_section_stream_add(pmt_section, TypeCode(k), PidOf(k))
        /\ UNCHANGED << first, pc, rx >>
    BY <1>6 DEF RequestPad
  <2>2. SectionSound(pmt_section')
    BY <2>1, StreamAdded DEF PsiInv
  <2> QED BY <2>1, <2>2 DEF PsiInv, SectionSound
<1>7. ASSUME NEW idr \in BOOLEAN, NEW size \in VideoSizes, NEW ts \in Timestamps,
             WriteVideo(idr, size, ts)
      PROVE  PsiInv'
  BY <1>7 DEF WriteVideo, PsiInv, Writing
<1>8. ASSUME NEW size \in AudioSizes, NEW ts \in Timestamps, WriteAudio(size, ts)
      PROVE  PsiInv'
  <2>1. /\ UNCHANGED << first, pmt_section, rx >> /\ ~first
        /\ pc' = "head" \/ pc' = pc
    BY <1>8 DEF WriteAudio, spts_vars
  <2> QED BY <2>1 DEF PsiInv
<1>9. CASE CollectedNothing
  BY <1>9, <1>1 DEF CollectedNothing
<1> QED BY <1>1, <1>2, <1>3, <1>4, <1>5, <1>6, <1>7, <1>8, <1>9, PatKeepsPsi, PmtKeepsPsi
        DEF Next, WriteStep

LEMMA PsiInvariant == Spec => []PsiInv
<1>1. TypeInv /\ CountInv /\ PsiInv /\ [Next]_vars => PsiInv'
  BY NextKeepsPsi
<1> QED BY <1>1, InitPsi, TypeInvariant, CountInvariant, PTL DEF Spec

(* The PAT and every PMT are valid as sent: pmt_section_stream_add may run *)
(* between any two packets of a frame and leaves length, entries and CRC   *)
(* together (psi.c:151-212), and the PAT before it leads to the PMT.       *)
THEOREM TablesValid == Spec => []PsiValid
<1>1. PsiInv => PsiValid
  BY DEF PsiInv, PsiValid
<1> QED BY <1>1, PsiInvariant, PTL
-----------------------------------------------------------------------------
(* Announced streams.  A stream is listed from the request of its pad on.  *)

Listed(s) == {s.streams[i].pid : i \in DOMAIN s.streams}

ListedInv == \A k \in Kinds : numsinkpads[k] > 0 => PidOf(k) \in Listed(pmt_section)

LEMMA ListedAfterAppend ==
  ASSUME NEW s, NEW t, NEW e \in StreamEntry,
         s.streams \in Seq(StreamEntry), t.streams = Append(s.streams, e)
  PROVE  e.pid \in Listed(t) /\ Listed(s) \subseteq Listed(t)
<1>. DEFINE n == Len(s.streams)
<1>1. n \in Nat /\ DOMAIN s.streams = 1..n
  OBVIOUS
<1>2. DOMAIN t.streams = 1..(n+1) /\ t.streams[n+1] = e
      /\ \A i \in 1..n : t.streams[i] = s.streams[i]
  OBVIOUS
<1> HIDE DEF n
<1>3. n+1 \in DOMAIN t.streams /\ \A i \in DOMAIN s.streams : i \in DOMAIN t.streams
  BY <1>1, <1>2
<1>4. e.pid \in Listed(t)
  BY <1>2, <1>3 DEF Listed
<1>5. Listed(s) \subseteq Listed(t)
  <2> SUFFICES ASSUME NEW i \in DOMAIN s.streams PROVE s.streams[i].pid \in Listed(t)
    BY DEF Listed
  <2>1. i \in DOMAIN t.streams /\ t.streams[i] = s.streams[i]
    BY <1>1, <1>2, <1>3
  <2> QED BY <2>1 DEF Listed
<1> QED BY <1>4, <1>5

LEMMA RequestListed ==
  ASSUME TypeInv, PsiInv, ListedInv, NEW k \in Kinds, RequestPad(k) PROVE ListedInv'
<1>. DEFINE e == [type |-> TypeCode(k), pid |-> PidOf(k)]
<1>1. /\ pmt_section' = pmt_section_stream_add(pmt_section, TypeCode(k), PidOf(k))
      /\ numsinkpads' = [numsinkpads EXCEPT ![k] = @ + 1]
  BY DEF RequestPad
<1>2. pmt_section'.streams = Append(pmt_section.streams, e)
  BY <1>1, StreamAdded DEF PsiInv
<1>3. e \in StreamEntry /\ e.pid = PidOf(k)
  BY DEF StreamEntry, TypeCode, PidOf, STREAM_TYPE_VIDEO_H264, STREAM_TYPE_AUDIO_AAC,
         VIDEO_PID, AUDIO_PID
<1>4. pmt_section.streams \in Seq(StreamEntry)
  BY DEF PsiInv, SectionShape
<1> HIDE DEF e
<1>5. e.pid \in Listed(pmt_section') /\ Listed(pmt_section) \subseteq Listed(pmt_section')
  BY <1>2, <1>3, <1>4, ListedAfterAppend
<1>6. ASSUME NEW j \in Kinds, numsinkpads'[j] > 0 PROVE PidOf(j) \in Listed(pmt_section')
  <2>1. CASE j = k
    BY <1>3, <1>5, <2>1
  <2>2. CASE j # k
    BY <1>1, <1>5, <1>6, <2>2 DEF ListedInv, TypeInv, TypeOK
  <2> QED BY <2>1, <2>2
<1> QED BY <1>6 DEF ListedInv

NoNews == UNCHANGED << rx, first, numsinkpads, pmt_section >>

AnnInv ==
  ~LateRequests =>
    /\ "unannounced" \notin rx.faults
    /\ rx.psi # NoSection =>
         ~first /\ \A k \in Kinds : numsinkpads[k] > 0 => PidOf(k) \in rx.psi.pids

LEMMA InitAnn == Init => ListedInv /\ AnnInv
BY DEF Init, ListedInv, AnnInv, ReceiverInit, NoSection, Kinds

LEMMA FramePacketAnnounced ==
  ASSUME TypeInv, CountInv, AnnInv, WriteHead \/ WriteTail PROVE AnnInv'
<1> SUFFICES ASSUME ~LateRequests PROVE AnnInv'
  BY DEF AnnInv
<1>1. UNCHANGED << first, numsinkpads >> /\ pc \in Writing
  BY FramePacketSent
<1>2. PICK p : p.pid = PidOf(frame.kind) /\ p.pid \in EsPids /\ rx' = Receive(rx, p)
  BY FramePacketSent
<1>3. frame.kind \in Kinds /\ numsinkpads[frame.kind] > 0
  <2>1. /\ frame.kind \in Kinds /\ frame.n \in 1..MaxPads /\ frame.n <= numsinkpads[frame.kind]
        /\ numsinkpads \in [Kinds -> 0..MaxPads]
    BY <1>1 DEF TypeInv, TypeOK, CountInv, PointerInv
  <2> QED BY <2>1, ProgramAssumption
<1>4. Announced(rx, p)
  BY <1>2, <1>3 DEF Announced, AnnInv
<1>5. rx'.psi = rx.psi /\ ("unannounced" \in rx'.faults => "unannounced" \in rx.faults)
  BY <1>2, <1>4, NewsOfEs DEF CountInv
<1> QED BY <1>1, <1>5 DEF AnnInv

LEMMA PmtAnnounces ==
  ASSUME CountInv, PsiInv, ListedInv, AnnInv, WritePmt PROVE AnnInv'
<1> SUFFICES ASSUME ~LateRequests PROVE AnnInv'
  BY DEF AnnInv
<1>. DEFINE p == [pid |-> PMT_PID, cc |-> pmt.cc, section |-> pmt_section]
<1>1. /\ rx' = Receive(rx, p) /\ p.pid = PMT_PID /\ p.section = pmt_section
      /\ pc = "pmt" /\ UNCHANGED << first, numsinkpads >>
  BY DEF WritePmt, Write
<1> HIDE DEF p
<1>2. RxType(rx)
  BY DEF CountInv
<1>3. /\ rx'.psi = [pcr |-> p.section.PCR_PID,
                    pids |-> {p.section.streams[i].pid : i \in DOMAIN p.section.streams}]
      /\ "unannounced" \in rx'.faults => "unannounced" \in rx.faults
  BY <1>1, <1>2, NewsOfPmt
<1>4. rx'.psi.pids = Listed(pmt_section)
  BY <1>1, <1>3 DEF Listed
<1>5. ~first
  BY <1>1 DEF PsiInv, Writing
<1> QED BY <1>1, <1>3, <1>4, <1>5 DEF AnnInv, ListedInv

LEMMA NextAnnounces ==
  ASSUME TypeInv, CountInv, PsiInv, ListedInv, AnnInv, [Next]_vars PROVE ListedInv' /\ AnnInv'
<1>1. CASE NoNews
  BY <1>1 DEF NoNews, ListedInv, AnnInv
<1>2. CASE WriteHead \/ WriteTail
  <2>1. ListedInv'
    BY <1>2, FramePacketSent DEF ListedInv
  <2> QED BY <1>2, <2>1, FramePacketAnnounced
<1>3. CASE WritePmt
  <2>1. ListedInv'
    BY <1>3 DEF WritePmt, ListedInv
  <2> QED BY <1>3, <2>1, PmtAnnounces
<1>4. CASE WriteNull \/ WritePat
  <2>1. UNCHANGED << first, numsinkpads, pmt_section >>
    BY <1>4 DEF WriteNull, WritePat
  <2>2. rx'.psi = rx.psi /\ ("unannounced" \in rx'.faults => "unannounced" \in rx.faults)
    <3>1. CASE WriteNull
      <4>. DEFINE p == [pid |-> NULL_PID]
      <4>1. p.pid = NULL_PID /\ rx' = Receive(rx, p)
        BY <3>1 DEF WriteNull, Write
      <4> HIDE DEF p
      <4> QED BY <4>1, NewsOfNull DEF CountInv
    <3>2. CASE WritePat
      <4>. DEFINE p == [pid |-> PAT_PID, cc |-> pat.cc, section |-> pat_section]
      <4>1. p.pid = PAT_PID /\ rx' = Receive(rx, p)
        BY <3>2 DEF WritePat, Write
      <4> HIDE DEF p
      <4> QED BY <4>1, NewsOfPat DEF CountInv
    <3> QED BY <1>4, <3>1, <3>2
  <2> QED BY <2>1, <2>2 DEF ListedInv, AnnInv
<1>5. CASE FirstCollected
  <2>1. /\ pmt_section' = pmt_section_pcr_pid_set(pmt_section, PidOf(ClockKind))
        /\ UNCHANGED << numsinkpads, rx >> /\ first /\ ~first'
    BY <1>5 DEF FirstCollected
  <2>2. pmt_section'.streams = pmt_section.streams
    BY <2>1, PcrPidSet DEF PsiInv
  <2> QED BY <2>1, <2>2 DEF ListedInv, Listed, AnnInv
<1>6. ASSUME NEW k \in Kinds, RequestPad(k) PROVE ListedInv' /\ AnnInv'
  <2>1. ListedInv'
    BY <1>6, RequestListed
  <2>2. UNCHANGED << first, rx >> /\ (first \/ LateRequests)
    BY <1>6 DEF RequestPad
  <2> QED BY <2>1, <2>2 DEF AnnInv
<1>7. CASE UNCHANGED vars
  BY <1>1, <1>7 DEF NoNews, vars, spts_vars
<1>8. CASE CloseGop
  BY <1>1, <1>8 DEF NoNews, CloseGop
<1>9. ASSUME NEW idr \in BOOLEAN, NEW size \in VideoSizes, NEW ts \in Timestamps,
             WriteVideo(idr, size, ts)
      PROVE  NoNews
  BY <1>9 DEF WriteVideo, NoNews
<1>10. ASSUME NEW size \in AudioSizes, NEW ts \in Timestamps, WriteAudio(size, ts)
       PROVE  NoNews
  BY <1>10 DEF WriteAudio, NoNews, spts_vars
<1> QED BY <1>1, <1>2, <1>3, <1>4, <1>5, <1>6, <1>7, <1>8, <1>9, <1>10
        DEF Next, WriteStep, CollectedNothing

LEMMA AnnInvariant == Spec => [](ListedInv /\ AnnInv)
<1>1. TypeInv /\ CountInv /\ PsiInv /\ (ListedInv /\ AnnInv) /\ [Next]_vars
        => (ListedInv /\ AnnInv)'
  BY NextAnnounces
<1> QED BY <1>1, InitAnn, TypeInvariant, CountInvariant, PsiInvariant, PTL DEF Spec

(* When all pads are requested before the first buffers, every packet of a *)
(* stream is on a PID that the PMT before it lists, for any frames.        *)
THEOREM StreamsAnnounced == Spec => []EsAnnounced
<1>1. AnnInv => EsAnnounced
  BY DEF AnnInv, EsAnnounced
<1> QED BY <1>1, AnnInvariant, PTL
-----------------------------------------------------------------------------
(* The clock.  The header a frame goes on with has no start bit, for any   *)
(* size of the frame.                                                      *)

TemplateInv == pc = "tail" => Stream.header.pusi = FALSE /\ Stream.header.afc = PAYLOAD_ONLY

(* What the last two parts of the proof use of a packet of a frame.        *)
FramePacket(p, s) ==
  /\ rx' = Receive(rx, p) /\ p.pid = PidOf(frame.kind) /\ p.pid \in EsPids
  /\ p.pts = TimeField(frame.pts)
  /\ \/ p.pusi = TRUE /\ p.pcr = IF Stream.pcr_reference THEN TimeField(pcr_base(frame.pts)) ELSE -1
     \/ p.pusi = FALSE /\ p.pcr = -1
  /\ streams' = [streams EXCEPT ![frame.kind][frame.n] = s]
  /\ s.pcr_reference = Stream.pcr_reference
  /\ s.packets_counter = Stream.packets_counter + 1
  /\ s.last_gop_packets_counter = Stream.last_gop_packets_counter
  /\ s.max_gop_packets = Stream.max_gop_packets

LEMMA PayloadStored ==
  ASSUME TypeInv, pc \in Writing, NEW h, NEW left, NEW lay, Payload(h, left, lay)
  PROVE  \E s : /\ streams' = [streams EXCEPT ![frame.kind][frame.n] = s]
                /\ s.pcr_reference = Stream.pcr_reference
                /\ s.packets_counter = Stream.packets_counter + 1
                /\ s.last_gop_packets_counter = Stream.last_gop_packets_counter
                /\ s.max_gop_packets = Stream.max_gop_packets
<1>. DEFINE s == PacketWritten(Stream, h, left - lay.n)
<1>1. streams' = [streams EXCEPT ![frame.kind][frame.n] = s]
  BY DEF Payload
<1>2. Stream \in StreamType
  BY StreamPointed
<1>3. /\ s.pcr_reference = Stream.pcr_reference
      /\ s.packets_counter = Stream.packets_counter + 1
      /\ s.last_gop_packets_counter = Stream.last_gop_packets_counter
      /\ s.max_gop_packets = Stream.max_gop_packets
  <2> HIDE DEF Stream
  <2> QED BY <1>2 DEF PacketWritten, StreamType
<1> HIDE DEF s
<1> QED BY <1>1, <1>3

LEMMA HeadPacket ==
  ASSUME TypeInv, CountInv, FrameInv, WriteHead
  PROVE  FrameInv' /\ TemplateInv' /\ \E p, s : FramePacket(p, s)
<1>. DEFINE lay == HeadLayout(Stream.pcr_reference, frame.size)
<1>1. PICK p, h : /\ EsWritten(p, lay, frame.size, h)
                  /\ p.pusi = TRUE /\ h.afc = PAYLOAD_ONLY
                  /\ p.pcr = IF Stream.pcr_reference THEN TimeField(pcr_base(frame.pts)) ELSE -1
  BY HeadWritten, Zenon
<1>2. /\ pc \in {"head", "tail"} /\ pc \in Writing /\ frame.size \in Nat
      /\ Stream.pcr_reference \in BOOLEAN
  BY StreamPointed DEF WriteHead, Writing, TypeInv, TypeOK, FrameType
<1>3. lay.n \in 0..frame.size
  BY <1>2, HeadFits, Zenon
<1>4. /\ rx' = Receive(rx, p) /\ p.pid = Stream.header.pid /\ p.pts = TimeField(frame.pts)
      /\ h.pusi = FALSE /\ Payload(h, frame.size, lay)
  BY <1>1, Zenon DEF EsWritten
<1> HIDE DEF lay
<1>5. FrameInv' /\ (pc' # "idle" => Stream'.header = h) /\ pc' \in {"idle", "tail"}
  BY <1>2, <1>3, <1>4, PayloadStep
<1>6. TemplateInv'
  BY <1>1, <1>4, <1>5 DEF TemplateInv
<1>7. p.pid = PidOf(frame.kind) /\ p.pid \in EsPids
  BY <1>2, <1>4, StreamPointed, PidsOfKinds DEF CountInv, HeadersInv
<1>8. PICK s : /\ streams' = [streams EXCEPT ![frame.kind][frame.n] = s]
               /\ s.pcr_reference = Stream.pcr_reference
               /\ s.packets_counter = Stream.packets_counter + 1
               /\ s.last_gop_packets_counter = Stream.last_gop_packets_counter
               /\ s.max_gop_packets = Stream.max_gop_packets
  BY <1>2, <1>4, PayloadStored, Zenon
<1>9. FramePacket(p, s)
  BY <1>1, <1>4, <1>7, <1>8, Zenon DEF FramePacket
<1> QED BY <1>5, <1>6, <1>9, Zenon

LEMMA TailPacket ==
  ASSUME TypeInv, CountInv, FrameInv, TemplateInv, WriteTail
  PROVE  FrameInv' /\ TemplateInv' /\ \E p, s : FramePacket(p, s)
<1>. DEFINE left == Stream.pes_packet_length
            lay  == TailLayout(left)
<1>1. /\ pc = "tail" /\ pc \in {"head", "tail"} /\ pc \in Writing /\ left \in Nat
      /\ Stream.header.pusi = FALSE /\ Stream.header.afc = PAYLOAD_ONLY
  BY StreamPointed DEF WriteTail, Writing, TemplateInv
<1>2. PICK p, h : /\ EsWritten(p, lay, left, h)
                  /\ p.pusi = FALSE /\ h.afc = lay.afc /\ p.pcr = -1
  BY <1>1, TailWritten, Zenon
<1>3. lay.n \in 0..left /\ (lay.n # left => lay.afc = PAYLOAD_ONLY)
  BY <1>1, TailFits DEF TailLayout
<1>4. /\ rx' = Receive(rx, p) /\ p.pid = Stream.header.pid /\ p.pts = TimeField(frame.pts)
      /\ h.pusi = FALSE /\ Payload(h, left, lay)
  BY <1>2, Zenon DEF EsWritten
<1> HIDE DEF lay, left
<1>5. /\ FrameInv' /\ pc' \in {"idle", "tail"}
      /\ pc' # "idle" => Stream'.header = h /\ left # lay.n
  BY <1>1, <1>3, <1>4, PayloadStep
<1>6. TemplateInv'
  BY <1>2, <1>3, <1>4, <1>5 DEF TemplateInv
<1>7. p.pid = PidOf(frame.kind) /\ p.pid \in EsPids
  BY <1>1, <1>4, StreamPointed, PidsOfKinds DEF CountInv, HeadersInv
<1>8. PICK s : /\ streams' = [streams EXCEPT ![frame.kind][frame.n] = s]
               /\ s.pcr_reference = Stream.pcr_reference
               /\ s.packets_counter = Stream.packets_counter + 1
               /\ s.last_gop_packets_counter = Stream.last_gop_packets_counter
               /\ s.max_gop_packets = Stream.max_gop_packets
  BY <1>1, <1>4, PayloadStored, Zenon
<1>9. FramePacket(p, s)
  BY <1>2, <1>4, <1>7, <1>8, Zenon DEF FramePacket
<1> QED BY <1>5, <1>6, <1>9, Zenon

(* A request adds a stream beside the one that the frame is written to.    *)
LEMMA RequestBesideFrame ==
  ASSUME TypeInv, CountInv, pc \in Writing, NEW k \in Kinds, RequestPad(k)
  PROVE  Stream' = Stream
<1>. DEFINE n == numsinkpads[k] + 1
<1>1. frame' = frame /\ streams' = [streams EXCEPT ![k][n] = NewStream(k)]
  BY DEF RequestPad, Current
<1>2. frame.kind \in Kinds /\ frame.n \in 1..MaxPads /\ frame.n <= numsinkpads[frame.kind]
      /\ numsinkpads \in [Kinds -> 0..MaxPads]
      /\ streams \in [Kinds -> [1..MaxPads -> StreamType]]
  BY DEF TypeInv, TypeOK, CountInv, PointerInv, Writing
<1>3. frame.kind # k \/ frame.n # n
  BY <1>2, ProgramAssumption
<1> HIDE DEF n
<1>4. streams'[frame.kind][frame.n] = streams[frame.kind][frame.n]
  BY <1>1, <1>2, <1>3
<1> QED BY <1>1, <1>4 DEF Stream

LEMMA InitFrame == Init => FrameInv /\ TemplateInv
BY DEF Init, FrameInv, TemplateInv, Writing

LEMMA NextKeepsFrame ==
  ASSUME TypeInv, CountInv, FrameInv, TemplateInv, [Next]_vars PROVE FrameInv' /\ TemplateInv'
<1>1. CASE UNCHANGED vars
  <2>1. UNCHANGED << pc, first, frame, streams >>
    BY <1>1 DEF vars, spts_vars
  <2> QED BY <2>1 DEF FrameInv, TemplateInv, Stream, Writing
<1>2. CASE WriteHead \/ WriteTail
  BY <1>2, HeadPacket, TailPacket
<1>3. CASE WriteNull \/ WritePat \/ WritePmt
  <2>1. /\ pc \in {"pad", "pmt"} /\ pc' \in {"pad", "pmt", "gop"}
        /\ UNCHANGED << first, frame >>
    BY <1>3 DEF WriteNull, WritePat, WritePmt
  <2> QED BY <2>1 DEF FrameInv, TemplateInv, Writing
<1>4. CASE CloseGop
  <2>1. pc = "gop" /\ pc' \in {"head", "crashed"} /\ UNCHANGED << first, frame >>
    BY <1>4 DEF CloseGop
  <2> QED BY <2>1 DEF FrameInv, TemplateInv, Writing
<1>5. ASSUME NEW k \in Kinds, NEW idr \in BOOLEAN, NEW size \in VideoSizes \cup AudioSizes,
             NEW ts \in Timestamps, frame' = NewFrame(k, idr, size, ts),
             pc' \in {"pad", "head"}, ~first, first' = first
      PROVE  FrameInv' /\ TemplateInv'
  <2>1. frame'.size = size /\ frame'.pts = mpegtime(ts) /\ frame'.at = 0
    BY <1>5, Zenon DEF NewFrame
  <2> QED BY <1>5, <2>1 DEF FrameInv, TemplateInv
<1>6. ASSUME NEW idr \in BOOLEAN, NEW size \in VideoSizes, NEW ts \in Timestamps,
             WriteVideo(idr, size, ts)
      PROVE  FrameInv' /\ TemplateInv'
  <2>1. /\ frame' = NewFrame("video", idr, size, ts) /\ pc' \in {"pad", "head"}
        /\ ~first /\ first' = first /\ "video" \in Kinds
    BY <1>6 DEF WriteVideo, Kinds
  <2> QED BY <1>5, <2>1
<1>7. ASSUME NEW size \in AudioSizes, NEW ts \in Timestamps, WriteAudio(size, ts)
      PROVE  FrameInv' /\ TemplateInv'
  <2>1. ~first /\ first' = first /\ pc = "idle" /\ "audio" \in Kinds /\ FALSE \in BOOLEAN
    BY <1>7 DEF WriteAudio, Kinds
  <2>2. CASE AudioKept
    <3>1. frame' = NewFrame("audio", FALSE, size, ts) /\ pc' = "head"
      BY <1>7, <2>2, Zenon DEF WriteAudio
    <3> QED BY <1>5, <2>1, <3>1
  <2>3. CASE ~AudioKept
    <3>1. pc' = "idle"
      BY <1>7, <2>1, <2>3 DEF WriteAudio
    <3> QED BY <2>1, <3>1 DEF FrameInv, TemplateInv, Writing
  <2> QED BY <2>2, <2>3
<1>8. CASE FirstCollected
  <2>1. first /\ pc \notin Writing /\ UNCHANGED pc
    BY <1>8 DEF FirstCollected, FrameInv
  <2> QED BY <2>1 DEF FrameInv, TemplateInv, Writing
<1>9. ASSUME NEW k \in Kinds, RequestPad(k) PROVE FrameInv' /\ TemplateInv'
  <2>1. UNCHANGED << first, pc, frame >>
    BY <1>9 DEF RequestPad
  <2>2. pc = "tail" => Stream' = Stream
    BY <1>9, RequestBesideFrame DEF Writing
  <2> QED BY <2>1, <2>2 DEF FrameInv, TemplateInv, Writing
<1> QED
  BY <1>1, <1>2, <1>3, <1>4, <1>6, <1>7, <1>8, <1>9 DEF Next, WriteStep, CollectedNothing

LEMMA FrameInvariant == Spec => [](FrameInv /\ TemplateInv)
<1>1. TypeInv /\ CountInv /\ (FrameInv /\ TemplateInv) /\ [Next]_vars => (FrameInv /\ TemplateInv)'
  BY NextKeepsFrame
<1> QED BY <1>1, InitFrame, TypeInvariant, CountInvariant, PTL DEF Spec
(* Once the first buffers came, the PMT names the PID of the one stream    *)
(* that is marked as the clock reference.                                  *)
ClockOn(c) ==
  /\ numsinkpads[c] = 1 /\ pmt_section.PCR_PID = PidOf(c)
  /\ \A k \in Kinds : numsinkpads[k] = 1 => streams[k][1].pcr_reference = (k = c)

ClockInv ==
  /\ pmt_section.video_pid # 0 <=> numsinkpads["video"] > 0
  /\ rx.psi # NoSection => ~first /\ rx.psi.pcr = pmt_section.PCR_PID
  /\ OneStreamPerPid =>
       /\ "pcr" \notin rx.faults
       /\ first => \A k \in Kinds : numsinkpads[k] = 1 => streams[k][1].pcr_reference = FALSE
       /\ ~first => \E c \in Kinds : ClockOn(c)

LEMMA InitClock == Init => ClockInv
<1> SUFFICES ASSUME Init PROVE ClockInv
  OBVIOUS
<1>1. /\ first /\ \A k \in Kinds : numsinkpads[k] = 0
      /\ "video" \in Kinds /\ rx = ReceiverInit /\ pmt_section.video_pid = 0
  BY NewSection DEF Init, Kinds
<1> QED BY <1>1 DEF ClockInv, ReceiverInit

LEMMA OnlyStream ==
  ASSUME TypeInv, CountInv, OneStreamPerPid, pc \in Writing
  PROVE  frame.kind \in Kinds /\ numsinkpads[frame.kind] = 1 /\ frame.n = 1
<1>1. /\ frame.kind \in Kinds /\ frame.n \in 1..MaxPads /\ frame.n <= numsinkpads[frame.kind]
      /\ numsinkpads \in [Kinds -> 0..MaxPads]
  BY DEF TypeInv, TypeOK, CountInv, PointerInv
<1>2. numsinkpads[frame.kind] <= 1 /\ numsinkpads[frame.kind] \in Nat
  BY <1>1, ProgramAssumption DEF OneStreamPerPid
<1> QED BY <1>1, <1>2

LEMMA FramePacketClocked ==
  ASSUME TypeInv, CountInv, PsiInv, FrameInv, ClockInv, pc \in Writing,
         NEW p, NEW s, FramePacket(p, s),
         UNCHANGED << first, numsinkpads, pmt_section >>
  PROVE  ClockInv'
<1>1. /\ rx' = Receive(rx, p) /\ p.pid = PidOf(frame.kind) /\ p.pid \in EsPids
      /\ p.pts = TimeField(frame.pts)
      /\ streams' = [streams EXCEPT ![frame.kind][frame.n] = s]
      /\ s.pcr_reference = Stream.pcr_reference
  BY DEF FramePacket
<1>2. /\ \/ p.pusi = TRUE /\ p.pcr = IF Stream.pcr_reference THEN TimeField(pcr_base(frame.pts)) ELSE -1
         \/ p.pusi = FALSE /\ p.pcr = -1
  BY Zenon DEF FramePacket
<1>3. RxType(rx) /\ rx'.psi = rx.psi
      /\ ("pcr" \in rx'.faults => "pcr" \in rx.faults \/ ~ClockOk(rx, p))
  BY <1>1, NewsOfEs DEF CountInv
<1> SUFFICES ASSUME OneStreamPerPid
             PROVE  /\ "pcr" \notin rx'.faults
                    /\ \E c \in Kinds : ClockOn(c)'
  BY <1>3 DEF ClockInv, OneStreamPerPid, PsiInv
<1>4. frame.kind \in Kinds /\ numsinkpads[frame.kind] = 1 /\ frame.n = 1
      /\ 1 \in 1..MaxPads
  BY OnlyStream, ProgramAssumption
<1>5. PICK c \in Kinds : ClockOn(c)
  BY DEF ClockInv, PsiInv
<1>6. Stream.pcr_reference = (frame.kind = c)
  BY <1>4, <1>5 DEF ClockOn, Stream
<1>7. ClockOn(c)'
  <2>1. streams \in [Kinds -> [1..MaxPads -> StreamType]]
    BY DEF TypeInv, TypeOK
  <2>2. ASSUME NEW k \in Kinds, numsinkpads[k] = 1
        PROVE  streams'[k][1].pcr_reference = streams[k][1].pcr_reference
    <3>1. CASE k = frame.kind
      <4>1. streams'[k][1] = s
        BY <1>1, <1>4, <2>1, <3>1
      <4> QED BY <1>1, <1>4, <3>1, <4>1, Zenon DEF Stream
    <3>2. CASE k # frame.kind
      <4>1. streams'[k] = streams[k]
        BY <1>1, <1>4, <2>1, <3>2
      <4> QED BY <4>1
    <3> QED BY <3>1, <3>2
  <2> QED BY <1>5, <2>2, Zenon DEF ClockOn
<1>8. ClockOk(rx, p)
  <2>. DEFINE base == TimeField(pcr_base(frame.pts))
  <2>1. base \in Nat /\ (TimeField(frame.pts) - base) % PtsWrap <= PCR_LEAD
    <3>1. frame.pts \in Nat
      BY DEF TypeInv, TypeOK, FrameType
    <3> QED BY <3>1, ClockBehind
  <2> HIDE DEF base
  <2>2. rx.psi # NoSection => (p.pid = rx.psi.pcr <=> frame.kind = c)
    BY <1>1, <1>4, <1>5, PidsDistinguishKinds DEF ClockInv, ClockOn
  <2>3. CASE p.pusi = TRUE /\ p.pcr = IF Stream.pcr_reference THEN base ELSE -1
    <3>1. CASE frame.kind = c
      <4>1. Stream.pcr_reference = TRUE
        BY <1>6, <3>1
      <4>2. p.pcr = base
        BY <2>3, <4>1, Zenon
      <4>3. p.pcr # -1
        BY <2>1, <4>2
      <4> QED BY <1>1, <2>1, <2>2, <2>3, <3>1, <4>2, <4>3 DEF ClockOk
    <3>2. CASE frame.kind # c
      <4>1. Stream.pcr_reference = FALSE
        BY <1>6, <3>2
      <4>2. p.pcr = -1
        BY <2>3, <4>1, Zenon
      <4> QED BY <2>2, <2>3, <3>2, <4>2 DEF ClockOk
    <3> QED BY <3>1, <3>2
  <2>4. CASE p.pusi = FALSE /\ p.pcr = -1
    BY <2>4 DEF ClockOk
  <2> QED BY <1>2, <2>3, <2>4, Zenon DEF base
<1>9. "pcr" \notin rx'.faults
  BY <1>3, <1>8 DEF ClockInv
<1> QED BY <1>5, <1>7, <1>9

(* The steps that neither store a stream's mark nor are received.          *)
SameMarks ==
  \A k \in Kinds, i \in 1..MaxPads :
    streams'[k][i].pcr_reference = streams[k][i].pcr_reference

LEMMA QuietKeepsClock ==
  ASSUME ClockInv, SameMarks, UNCHANGED << first, numsinkpads, pmt_section >>,
         rx'.psi = rx.psi, "pcr" \in rx'.faults => "pcr" \in rx.faults
  PROVE  ClockInv'
<1>1. 1 \in 1..MaxPads
  BY ProgramAssumption
<1>2. ASSUME NEW c \in Kinds, ClockOn(c) PROVE ClockOn(c)'
  BY <1>1, <1>2, Zenon DEF ClockOn, SameMarks
<1>3. OneStreamPerPid' = OneStreamPerPid
  BY DEF OneStreamPerPid
<1>4. (\A k \in Kinds : numsinkpads[k] = 1 => streams[k][1].pcr_reference = FALSE)
        => (\A k \in Kinds : numsinkpads[k] = 1 => streams'[k][1].pcr_reference = FALSE)
  BY <1>1 DEF SameMarks
<1> QED BY <1>2, <1>3, <1>4 DEF ClockInv

LEMMA PmtNamesClock ==
  ASSUME CountInv, PsiInv, ClockInv, WritePmt PROVE ClockInv'
<1>. DEFINE p == [pid |-> PMT_PID, cc |-> pmt.cc, section |-> pmt_section]
<1>1. /\ rx' = Receive(rx, p) /\ p.pid = PMT_PID /\ p.section = pmt_section
      /\ pc = "pmt" /\ UNCHANGED << first, numsinkpads, streams, pmt_section >>
  BY DEF WritePmt, Write
<1> HIDE DEF p
<1>2. RxType(rx)
  BY DEF CountInv
<1>3. /\ rx'.psi = [pcr |-> p.section.PCR_PID,
                    pids |-> {p.section.streams[i].pid : i \in DOMAIN p.section.streams}]
      /\ "pcr" \in rx'.faults => "pcr" \in rx.faults
  BY <1>1, <1>2, NewsOfPmt
<1>4. rx'.psi.pcr = pmt_section.PCR_PID
  BY <1>1, <1>3
<1>5. ~first
  BY <1>1 DEF PsiInv, Writing
<1>6. \A c \in Kinds : ClockOn(c) => ClockOn(c)'
  BY <1>1 DEF ClockOn
<1> QED BY <1>1, <1>3, <1>4, <1>5, <1>6 DEF ClockInv, OneStreamPerPid

LEMMA FirstMarksClock ==
  ASSUME TypeInv, PsiInv, ClockInv, FirstCollected PROVE ClockInv'
<1>0. PICK c : c = ClockKind
  OBVIOUS
<1>1. /\ first /\ ~first' /\ UNCHANGED << numsinkpads, rx >>
      /\ pmt_section' = pmt_section_pcr_pid_set(pmt_section, PidOf(c))
      /\ streams' = [streams EXCEPT ![c][numsinkpads[c]].pcr_reference = TRUE]
  BY <1>0 DEF FirstCollected, Current
<1>2. c \in Kinds /\ numsinkpads[c] > 0
  <2>1. PICK k \in Kinds : numsinkpads[k] > 0
    BY ProgramAssumption DEF FirstCollected, PadsReady
  <2>2. c = IF numsinkpads["video"] > 0 THEN "video" ELSE "audio"
    BY <1>0 DEF ClockKind, ClockInv
  <2> QED BY <2>1, <2>2 DEF Kinds
<1>3. pmt_section'.PCR_PID = PidOf(c) /\ pmt_section'.video_pid = pmt_section.video_pid
  BY <1>1, PcrPidSet DEF PsiInv
<1>4. rx.psi = NoSection
  BY <1>1 DEF ClockInv
<1>5. ASSUME OneStreamPerPid PROVE ClockOn(c)'
  <2>1. numsinkpads[c] = 1 /\ 1 \in 1..MaxPads
    BY <1>2, <1>5, ProgramAssumption DEF OneStreamPerPid, TypeInv, TypeOK
  <2>2. /\ streams \in [Kinds -> [1..MaxPads -> StreamType]]
        /\ streams' = [streams EXCEPT ![c][1].pcr_reference = TRUE]
    BY <1>1, <2>1 DEF TypeInv, TypeOK
  <2>3. streams'[c][1].pcr_reference = TRUE
    <3>1. streams'[c][1] = [streams[c][1] EXCEPT !.pcr_reference = TRUE]
      BY <1>2, <2>1, <2>2
    <3>2. streams[c][1] \in StreamType
      BY <1>2, <2>1, <2>2
    <3> QED BY <3>1, <3>2 DEF StreamType
  <2>4. ASSUME NEW k \in Kinds, numsinkpads[k] = 1, k # c
        PROVE  streams'[k][1].pcr_reference = FALSE
    <3>1. streams'[k] = streams[k]
      BY <1>2, <2>2, <2>4
    <3>2. streams[k][1].pcr_reference = FALSE
      BY <1>1, <1>5, <2>4 DEF ClockInv
    <3> QED BY <3>1, <3>2
  <2>5. ASSUME NEW k \in Kinds, numsinkpads[k] = 1
        PROVE  streams'[k][1].pcr_reference = (k = c)
    <3>1. CASE k = c
      BY <2>3, <3>1
    <3>2. CASE k # c
      BY <2>4, <2>5, <3>2
    <3> QED BY <3>1, <3>2
  <2>6. numsinkpads'[c] = 1
    BY <1>1, <2>1
  <2>7. ASSUME NEW k \in Kinds, numsinkpads'[k] = 1
        PROVE  streams'[k][1].pcr_reference = (k = c)
    BY <1>1, <2>5, <2>7
  <2> QED BY <1>3, <2>6, <2>7 DEF ClockOn
<1> QED BY <1>1, <1>2, <1>3, <1>4, <1>5 DEF ClockInv, OneStreamPerPid

LEMMA RequestKeepsClock ==
  ASSUME TypeInv, CountInv, PsiInv, ClockInv, NEW k \in Kinds, RequestPad(k) PROVE ClockInv'
<1>. DEFINE n == numsinkpads[k] + 1
<1>1. /\ UNCHANGED << first, rx >>
      /\ numsinkpads' = [numsinkpads EXCEPT ![k] = n]
      /\ streams' = [streams EXCEPT ![k][n] = NewStream(k)]
      /\ pmt_section' = pmt_section_stream_add(pmt_section, TypeCode(k), PidOf(k))
  BY DEF RequestPad, Current
<1>2. /\ numsinkpads \in [Kinds -> 0..MaxPads] /\ \A j \in Kinds : numsinkpads[j] \in Nat
      /\ n \in 1..MaxPads /\ streams \in [Kinds -> [1..MaxPads -> StreamType]]
  <2>1. numsinkpads[k] < MaxPads /\ numsinkpads \in [Kinds -> 0..MaxPads]
    BY DEF RequestPad, TypeInv, TypeOK
  <2> QED BY <2>1, ProgramAssumption DEF TypeInv, TypeOK
<1>3. /\ pmt_section'.PCR_PID = pmt_section.PCR_PID
      /\ pmt_section'.video_pid = IF k = "video" THEN VIDEO_PID ELSE pmt_section.video_pid
  BY <1>1, StreamAdded DEF PsiInv
<1>4. pmt_section'.video_pid # 0 <=> numsinkpads'["video"] > 0
  <2>1. VIDEO_PID # 0 /\ "video" \in Kinds
    BY DEF VIDEO_PID, Kinds
  <2> QED BY <1>1, <1>2, <1>3, <2>1 DEF ClockInv
<1>5. ASSUME OneStreamPerPid'
      PROVE  /\ OneStreamPerPid /\ numsinkpads[k] = 0
             /\ streams'[k][1].pcr_reference = FALSE
             /\ \A j \in Kinds : j # k =>
                  numsinkpads'[j] = numsinkpads[j] /\ streams'[j] = streams[j]
  <2>1. ASSUME NEW j \in Kinds PROVE numsinkpads[j] <= 1
    <3>1. numsinkpads'[j] <= 1
      BY <1>5, <2>1 DEF OneStreamPerPid
    <3> QED BY <1>1, <1>2, <3>1
  <2>2. numsinkpads[k] = 0
    <3>1. numsinkpads'[k] <= 1 /\ numsinkpads'[k] = n
      BY <1>1, <1>2, <1>5 DEF OneStreamPerPid
    <3>2. numsinkpads[k] \in Nat /\ numsinkpads[k] + 1 <= 1
      BY <1>2, <3>1
    <3> HIDE DEF n
    <3> QED BY <3>2
  <2>3. streams'[k][1] = NewStream(k)
    <3>1. n = 1
      BY <2>2
    <3> HIDE DEF n
    <3> QED BY <1>1, <1>2, <3>1
  <2>4. NewStream(k).pcr_reference = FALSE
    BY DEF NewStream
  <2> QED BY <1>1, <1>2, <2>1, <2>2, <2>3, <2>4 DEF OneStreamPerPid
<1>6. ASSUME OneStreamPerPid', first, NEW j \in Kinds, numsinkpads'[j] = 1
      PROVE  streams'[j][1].pcr_reference = FALSE
  <2>1. CASE j = k
    BY <1>5, <1>6, <2>1
  <2>2. CASE j # k
    BY <1>5, <1>6, <2>2 DEF ClockInv
  <2> QED BY <2>1, <2>2
<1>7. ASSUME OneStreamPerPid', ~first PROVE \E c \in Kinds : ClockOn(c)'
  <2>1. PICK c \in Kinds : ClockOn(c)
    BY <1>5, <1>7 DEF ClockInv
  <2>2. c # k
    BY <1>5, <1>7, <2>1 DEF ClockOn
  <2>3. numsinkpads'[c] = 1 /\ pmt_section'.PCR_PID = PidOf(c)
    BY <1>3, <1>5, <1>7, <2>1, <2>2 DEF ClockOn
  <2>4. ASSUME NEW j \in Kinds, numsinkpads'[j] = 1
        PROVE  streams'[j][1].pcr_reference = (j = c)
    <3>1. CASE j = k
      BY <1>5, <1>7, <2>2, <3>1
    <3>2. CASE j # k
      BY <1>5, <1>7, <2>1, <2>4, <3>2 DEF ClockOn
    <3> QED BY <3>1, <3>2
  <2>5. ClockOn(c)'
    BY <2>3, <2>4 DEF ClockOn
  <2> QED BY <2>5
<1> HIDE DEF n
<1>8. OneStreamPerPid' => "pcr" \notin rx'.faults
  BY <1>1, <1>5 DEF ClockInv
<1>9. rx'.psi # NoSection => ~first' /\ rx'.psi.pcr = pmt_section'.PCR_PID
  BY <1>1, <1>3 DEF ClockInv
<1> QED BY <1>1, <1>4, <1>6, <1>7, <1>8, <1>9 DEF ClockInv
LEMMA RecordGopFields ==
  ASSUME NEW s \in StreamType
  PROVE  LET r == RecordGop(s)
             packets == s.packets_counter - s.last_gop_packets_counter
         IN  /\ r.pcr_reference = s.pcr_reference
             /\ r.packets_counter = s.packets_counter
             /\ r.last_gop_packets_counter = s.packets_counter
             /\ r.max_gop_packets = IF packets > s.max_gop_packets THEN packets ELSE s.max_gop_packets
BY DEF RecordGop, StreamType

(* What CloseGop stores: the stream of the frame, and the audio stream     *)
(* unless there is none.                                                   *)
GopClosed(v, a) ==
  /\ v.pcr_reference = Stream.pcr_reference
  /\ v.packets_counter = Stream.packets_counter
  /\ v.last_gop_packets_counter = Stream.packets_counter
  /\ v.max_gop_packets = RecordGop(Stream).max_gop_packets
  /\ a = numsinkpads["audio"]
  /\ a = 0 => pc' = "crashed" /\ streams' = [streams EXCEPT ![frame.kind][frame.n] = v]
  /\ a # 0 => /\ pc' = "head"
              /\ streams' = [streams EXCEPT ![frame.kind][frame.n] = v,
                                            !["audio"][a] = RecordGop(streams["audio"][a])]

LEMMA GopStored == ASSUME TypeInv, CloseGop PROVE \E v, a : GopClosed(v, a)
<1>. DEFINE v == [RecordGop(Stream) EXCEPT !.last_gop_frames_counter = Stream.frames_counter]
            a == numsinkpads["audio"]
<1>1. Stream \in StreamType
  BY StreamPointed DEF CloseGop, Writing
<1>2. /\ v.pcr_reference = Stream.pcr_reference
      /\ v.packets_counter = Stream.packets_counter
      /\ v.last_gop_packets_counter = Stream.packets_counter
      /\ v.max_gop_packets = RecordGop(Stream).max_gop_packets
  <2>1. RecordGop(Stream) \in StreamType
    BY <1>1, RecordGopType
  <2>2. /\ v.pcr_reference = RecordGop(Stream).pcr_reference
        /\ v.packets_counter = RecordGop(Stream).packets_counter
        /\ v.last_gop_packets_counter = RecordGop(Stream).last_gop_packets_counter
        /\ v.max_gop_packets = RecordGop(Stream).max_gop_packets
    <3> HIDE DEF Stream
    <3> QED BY <2>1 DEF StreamType
  <2> HIDE DEF v
  <2> QED BY <1>1, <2>2, RecordGopFields
<1>3. GopClosed(v, a)
  BY <1>2, Zenon DEF CloseGop, Current, GopClosed
<1> HIDE DEF v, a
<1> QED BY <1>3

LEMMA CloseGopKeepsMarks == ASSUME TypeInv, CloseGop PROVE SameMarks
<1>0. PICK v, a : GopClosed(v, a)
  BY GopStored
<1>1. /\ v.pcr_reference = Stream.pcr_reference
      /\ a = numsinkpads["audio"]
      /\ a = 0 => streams' = [streams EXCEPT ![frame.kind][frame.n] = v]
      /\ a # 0 => streams' = [streams EXCEPT ![frame.kind][frame.n] = v,
                                             !["audio"][a] = RecordGop(streams["audio"][a])]
  BY <1>0 DEF GopClosed
<1>2. /\ frame.kind \in Kinds /\ frame.n \in 1..MaxPads /\ Stream = streams[frame.kind][frame.n]
      /\ streams \in [Kinds -> [1..MaxPads -> StreamType]] /\ "audio" \in Kinds
      /\ a # 0 => a \in 1..MaxPads
  BY <1>1, StreamPointed, ProgramAssumption DEF CloseGop, Writing, TypeInv, TypeOK, Kinds
<1>. DEFINE mid == [streams EXCEPT ![frame.kind][frame.n] = v]
<1>3. ASSUME NEW k \in Kinds, NEW i \in 1..MaxPads
      PROVE  mid[k][i].pcr_reference = streams[k][i].pcr_reference
  <2>1. CASE k = frame.kind /\ i = frame.n
    BY <1>1, <1>2, <2>1, Zenon
  <2>2. CASE ~(k = frame.kind /\ i = frame.n)
    <3>1. mid[k][i] = streams[k][i]
      BY <1>2, <2>2
    <3> QED BY <3>1
  <2> QED BY <2>1, <2>2
<1>4. CASE a = 0
  BY <1>1, <1>3, <1>4 DEF SameMarks
<1>5. CASE a # 0
  <2>1. a \in 1..MaxPads /\ streams["audio"][a] \in StreamType
    BY <1>2, <1>5
  <2>2. RecordGop(streams["audio"][a]).pcr_reference = streams["audio"][a].pcr_reference
    BY <2>1, RecordGopFields
  <2>3. streams' = [mid EXCEPT !["audio"][a] = RecordGop(streams["audio"][a])]
    BY <1>1, <1>5
  <2>4. /\ DOMAIN mid = Kinds /\ \A k \in Kinds : DOMAIN mid[k] = 1..MaxPads
    BY <1>2
  <2>5. ASSUME NEW k \in Kinds, NEW i \in 1..MaxPads
        PROVE  streams'[k][i].pcr_reference = streams[k][i].pcr_reference
    <3> HIDE DEF mid
    <3>1. CASE k = "audio" /\ i = a
      <4>1. streams'[k][i] = RecordGop(streams["audio"][a])
        BY <1>2, <2>1, <2>3, <2>4, <3>1
      <4> QED BY <2>2, <3>1, <4>1
    <3>2. CASE ~(k = "audio" /\ i = a)
      <4>1. streams'[k][i] = mid[k][i]
        BY <1>2, <2>1, <2>3, <2>4, <3>2
      <4> QED BY <1>3, <4>1
    <3> QED BY <3>1, <3>2
  <2> QED BY <2>5 DEF SameMarks
<1> QED BY <1>4, <1>5

(* A buffer taken only counts a frame.                                     *)
LEMMA FrameCounted ==
  ASSUME TypeInv, NEW idr \in BOOLEAN, NEW size \in VideoSizes, NEW ts \in Timestamps,
         WriteVideo(idr, size, ts), NEW k \in Kinds, NEW i \in 1..MaxPads
  PROVE  /\ streams'[k][i].pcr_reference = streams[k][i].pcr_reference
         /\ streams'[k][i].packets_counter = streams[k][i].packets_counter
         /\ streams'[k][i].last_gop_packets_counter = streams[k][i].last_gop_packets_counter
         /\ streams'[k][i].max_gop_packets = streams[k][i].max_gop_packets
<1>. DEFINE n == numsinkpads["video"]
            s == [streams["video"][n] EXCEPT !.frames_counter = @ + 1]
<1>1. streams \in [Kinds -> [1..MaxPads -> StreamType]] /\ n \in 1..MaxPads /\ "video" \in Kinds
  BY ProgramAssumption DEF WriteVideo, TypeInv, TypeOK, Kinds
<1>2. streams["video"][n] \in StreamType
  <2> HIDE DEF n
  <2> QED BY <1>1
<1>3. streams' = [streams EXCEPT !["video"][n] = s]
  BY DEF WriteVideo, Current
<1>4. /\ s.pcr_reference = streams["video"][n].pcr_reference
      /\ s.packets_counter = streams["video"][n].packets_counter
      /\ s.last_gop_packets_counter = streams["video"][n].last_gop_packets_counter
      /\ s.max_gop_packets = streams["video"][n].max_gop_packets
  BY <1>2 DEF StreamType
<1> HIDE DEF n, s
<1>5. CASE k = "video" /\ i = n
  <2>1. streams'[k][i] = s
    BY <1>1, <1>3, <1>5
  <2> QED BY <1>4, <1>5, <2>1, Zenon
<1>6. CASE ~(k = "video" /\ i = n)
  <2>1. streams'[k][i] = streams[k][i]
    BY <1>1, <1>3, <1>6
  <2> QED BY <2>1
<1> QED BY <1>5, <1>6

LEMMA WriteVideoKeepsMarks ==
  ASSUME TypeInv, NEW idr \in BOOLEAN, NEW size \in VideoSizes, NEW ts \in Timestamps,
         WriteVideo(idr, size, ts)
  PROVE  SameMarks
<1>1. ASSUME NEW k \in Kinds, NEW i \in 1..MaxPads
      PROVE  streams'[k][i].pcr_reference = streams[k][i].pcr_reference
  BY FrameCounted
<1> QED BY <1>1 DEF SameMarks

LEMMA NextKeepsClock ==
  ASSUME TypeInv, CountInv, PsiInv, FrameInv, TemplateInv, ClockInv, [Next]_vars
  PROVE  ClockInv'
<1>. DEFINE Quiet == UNCHANGED << first, numsinkpads, pmt_section >>
<1>1. CASE Quiet /\ UNCHANGED << rx, streams >>
  BY <1>1, QuietKeepsClock DEF SameMarks
<1>2. CASE WriteHead \/ WriteTail
  <2>1. PICK p, s : FramePacket(p, s)
    BY <1>2, HeadPacket, TailPacket
  <2>2. Quiet /\ pc \in Writing
    BY <1>2, FramePacketSent
  <2> QED BY <2>1, <2>2, FramePacketClocked
<1>3. CASE WriteNull \/ WritePat
  <2>1. Quiet /\ UNCHANGED streams
    BY <1>3 DEF WriteNull, WritePat
  <2>2. rx'.psi = rx.psi /\ ("pcr" \in rx'.faults => "pcr" \in rx.faults)
    <3>1. CASE WriteNull
      <4>. DEFINE p == [pid |-> NULL_PID]
      <4>1. p.pid = NULL_PID /\ rx' = Receive(rx, p)
        BY <3>1 DEF WriteNull, Write
      <4> HIDE DEF p
      <4> QED BY <4>1, NewsOfNull DEF CountInv
    <3>2. CASE WritePat
      <4>. DEFINE p == [pid |-> PAT_PID, cc |-> pat.cc, section |-> pat_section]
      <4>1. p.pid = PAT_PID /\ rx' = Receive(rx, p)
        BY <3>2 DEF WritePat, Write
      <4> HIDE DEF p
      <4> QED BY <4>1, NewsOfPat DEF CountInv
    <3> QED BY <1>3, <3>1, <3>2
  <2> QED BY <2>1, <2>2, QuietKeepsClock DEF SameMarks
<1>4. CASE CloseGop
  <2>1. Quiet /\ UNCHANGED rx
    BY <1>4 DEF CloseGop
  <2>2. SameMarks
    BY <1>4, CloseGopKeepsMarks
  <2> QED BY <2>1, <2>2, QuietKeepsClock
<1>5. ASSUME NEW idr \in BOOLEAN, NEW size \in VideoSizes, NEW ts \in Timestamps,
             WriteVideo(idr, size, ts)
      PROVE  ClockInv'
  <2>1. Quiet /\ UNCHANGED rx
    BY <1>5 DEF WriteVideo
  <2>2. SameMarks
    BY <1>5, WriteVideoKeepsMarks
  <2> QED BY <2>1, <2>2, QuietKeepsClock
<1>6. ASSUME NEW size \in AudioSizes, NEW ts \in Timestamps, WriteAudio(size, ts)
      PROVE  Quiet /\ UNCHANGED << rx, streams >>
  BY <1>6 DEF WriteAudio, spts_vars
<1>7. CASE UNCHANGED vars
  BY <1>1, <1>7 DEF vars, spts_vars
<1> QED
  BY <1>1, <1>2, <1>3, <1>4, <1>5, <1>6, <1>7, PmtNamesClock, FirstMarksClock, RequestKeepsClock
  DEF Next, WriteStep, CollectedNothing

LEMMA ClockInvariant == Spec => []ClockInv
<1>1. TypeInv /\ CountInv /\ PsiInv /\ (FrameInv /\ TemplateInv) /\ ClockInv /\ [Next]_vars
        => ClockInv'
  BY NextKeepsClock
<1> QED BY <1>1, InitClock, TypeInvariant, CountInvariant, PsiInvariant, FrameInvariant,
           PTL DEF Spec

(* The clock comes with every frame of the PID that the PMT names, with no *)
(* other packet, and is never ahead of the frame, nor behind it by more    *)
(* than the lead, across the wrap of the 33-bit fields (spts.c:420-425).   *)
THEOREM ClockNamed == Spec => []ClockAnnounced
<1>1. ClockInv => ClockAnnounced
  BY DEF ClockInv, ClockAnnounced
<1> QED BY <1>1, ClockInvariant, PTL
-----------------------------------------------------------------------------
(* The statistics of the GOPs.  Between the PAT and the end of the GOP's   *)
(* bookkeeping the receiver has closed its count and the stream has not.   *)

Since(s) == s.packets_counter - s.last_gop_packets_counter

StatOf(s, pid) ==
  IF pc \in {"pmt", "gop"}
  THEN /\ rx.maxEs[pid] = IF Since(s) > s.max_gop_packets THEN Since(s) ELSE s.max_gop_packets
       /\ rx.gopEs[pid] = 0
  ELSE rx.maxEs[pid] = s.max_gop_packets /\ rx.gopEs[pid] = Since(s)

KindStat(k) ==
  /\ numsinkpads[k] = 0 => rx.maxEs[PidOf(k)] = 0 /\ rx.gopEs[PidOf(k)] = 0
  /\ numsinkpads[k] = 1 => StatOf(streams[k][1], PidOf(k))

StatInv ==
  /\ rx.maxEs \in [EsPids -> Nat] /\ rx.gopEs \in [EsPids -> Nat]
  /\ pc \in {"pad", "pmt", "gop"} => frame.kind = "video"
  /\ OneStreamPerPid /\ pc # "crashed" => \A k \in Kinds : KindStat(k)

LEMMA InitStat == Init => StatInv
<1> SUFFICES ASSUME Init PROVE StatInv
  OBVIOUS
<1>1. /\ rx = ReceiverInit /\ pc = "idle" /\ \A k \in Kinds : numsinkpads[k] = 0
  BY DEF Init
<1>2. \A k \in Kinds : KindStat(k)
  BY <1>1, PidsOfKinds DEF KindStat, ReceiverInit
<1> QED BY <1>1, <1>2 DEF StatInv, ReceiverInit

LEMMA FramePacketInGop ==
  ASSUME TypeInv, CountInv, StatInv, pc \in {"head", "tail"}, pc' \in {"idle", "tail"},
         NEW p, NEW s, FramePacket(p, s), UNCHANGED numsinkpads
  PROVE  StatInv'
<1>1. /\ rx' = Receive(rx, p) /\ p.pid = PidOf(frame.kind) /\ p.pid \in EsPids
      /\ streams' = [streams EXCEPT ![frame.kind][frame.n] = s]
      /\ s.packets_counter = Stream.packets_counter + 1
      /\ s.last_gop_packets_counter = Stream.last_gop_packets_counter
      /\ s.max_gop_packets = Stream.max_gop_packets
  BY DEF FramePacket
<1>2. rx'.maxEs = rx.maxEs /\ rx'.gopEs = [rx.gopEs EXCEPT ![p.pid] = @ + 1]
  BY <1>1, NewsOfEs DEF CountInv
<1>3. rx'.maxEs \in [EsPids -> Nat] /\ rx'.gopEs \in [EsPids -> Nat]
  BY <1>1, <1>2 DEF StatInv
<1>4. ASSUME OneStreamPerPid, NEW k \in Kinds PROVE KindStat(k)'
  <2>1. frame.kind \in Kinds /\ numsinkpads[frame.kind] = 1 /\ frame.n = 1 /\ 1 \in 1..MaxPads
    BY <1>4, OnlyStream, ProgramAssumption DEF Writing
  <2>2. streams \in [Kinds -> [1..MaxPads -> StreamType]]
    BY DEF TypeInv, TypeOK
  <2>3. KindStat(k) /\ PidOf(k) \in EsPids
    BY <1>4, PidsOfKinds DEF StatInv
  <2>4. CASE k = frame.kind
    <3>1. Stream = streams[k][1] /\ streams'[k][1] = s /\ Stream \in StreamType
      BY <1>1, <2>1, <2>2, <2>4 DEF Stream
    <3>2. Since(s) = Since(Stream) + 1
      <4> HIDE DEF Stream
      <4> QED BY <1>1, <3>1 DEF Since, StreamType
    <3>3. rx'.gopEs[PidOf(k)] = rx.gopEs[PidOf(k)] + 1 /\ rx'.maxEs[PidOf(k)] = rx.maxEs[PidOf(k)]
      BY <1>1, <1>2, <2>3, <2>4 DEF StatInv
    <3>4. rx.maxEs[PidOf(k)] = Stream.max_gop_packets /\ rx.gopEs[PidOf(k)] = Since(Stream)
      BY <2>1, <2>3, <2>4, <3>1 DEF KindStat, StatOf
    <3>5. StatOf(streams[k][1], PidOf(k))'
      BY <1>1, <3>1, <3>2, <3>3, <3>4 DEF StatOf, Since
    <3> QED BY <2>1, <2>4, <3>5 DEF KindStat
  <2>5. CASE k # frame.kind
    <3>1. streams'[k] = streams[k]
      BY <1>1, <2>1, <2>2, <2>5
    <3>2. PidOf(k) # p.pid
      BY <1>1, <2>1, <2>5, PidsDistinguishKinds
    <3>3. rx'.gopEs[PidOf(k)] = rx.gopEs[PidOf(k)] /\ rx'.maxEs[PidOf(k)] = rx.maxEs[PidOf(k)]
      BY <1>2, <2>3, <3>2 DEF StatInv
    <3>4. pc \notin {"pmt", "gop"} /\ pc' \notin {"pmt", "gop"}
      OBVIOUS
    <3> QED BY <2>3, <3>1, <3>3, <3>4 DEF KindStat, StatOf, Since
  <2> QED BY <2>4, <2>5
<1> QED BY <1>3, <1>4 DEF StatInv, OneStreamPerPid

LEMMA PatClosesCount ==
  ASSUME TypeInv, CountInv, StatInv, WritePat PROVE StatInv'
<1>. DEFINE p == [pid |-> PAT_PID, cc |-> pat.cc, section |-> pat_section]
<1>1. /\ rx' = Receive(rx, p) /\ p.pid = PAT_PID /\ pc = "pad" /\ pc' = "pmt"
      /\ UNCHANGED << numsinkpads, streams, frame >>
  BY DEF WritePat, Write
<1> HIDE DEF p
<1>2. RxType(rx)
  BY DEF CountInv
<1>3. /\ rx'.maxEs = [q \in EsPids |-> IF rx.gopEs[q] > rx.maxEs[q] THEN rx.gopEs[q] ELSE rx.maxEs[q]]
      /\ rx'.gopEs = [q \in EsPids |-> 0]
  BY <1>1, <1>2, NewsOfPat
<1>4. rx'.maxEs \in [EsPids -> Nat] /\ rx'.gopEs \in [EsPids -> Nat]
  BY <1>3 DEF StatInv
<1>5. ASSUME OneStreamPerPid, NEW k \in Kinds PROVE KindStat(k)'
  <2>1. KindStat(k) /\ PidOf(k) \in EsPids
    BY <1>1, <1>5, PidsOfKinds DEF StatInv
  <2>2. /\ rx'.gopEs[PidOf(k)] = 0
        /\ rx'.maxEs[PidOf(k)] = IF rx.gopEs[PidOf(k)] > rx.maxEs[PidOf(k)]
                                 THEN rx.gopEs[PidOf(k)] ELSE rx.maxEs[PidOf(k)]
    BY <1>3, <2>1
  <2>3. numsinkpads[k] = 0 => rx'.maxEs[PidOf(k)] = 0
    BY <2>1, <2>2 DEF KindStat
  <2>4. numsinkpads[k] = 1 => StatOf(streams[k][1], PidOf(k))'
    BY <1>1, <2>1, <2>2 DEF KindStat, StatOf, Since
  <2> QED BY <1>1, <2>2, <2>3, <2>4 DEF KindStat
<1> QED BY <1>1, <1>4, <1>5 DEF StatInv, OneStreamPerPid

(* Steps that neither the streams' counters nor the receiver's see.        *)
QuietStat ==
  /\ rx'.maxEs = rx.maxEs /\ rx'.gopEs = rx.gopEs
  /\ UNCHANGED numsinkpads
  /\ \A k \in Kinds, i \in 1..MaxPads :
       /\ streams'[k][i].packets_counter = streams[k][i].packets_counter
       /\ streams'[k][i].last_gop_packets_counter = streams[k][i].last_gop_packets_counter
       /\ streams'[k][i].max_gop_packets = streams[k][i].max_gop_packets

LEMMA QuietKeepsStat ==
  ASSUME StatInv, QuietStat, pc' \in {"pmt", "gop"} <=> pc \in {"pmt", "gop"},
         pc = "crashed" => pc' = "crashed",
         pc' \in {"pad", "pmt", "gop"} => frame'.kind = "video"
  PROVE  StatInv'
<1>1. 1 \in 1..MaxPads
  BY ProgramAssumption
<1>2. ASSUME OneStreamPerPid, pc # "crashed", NEW k \in Kinds PROVE KindStat(k)'
  <2>1. KindStat(k)
    BY <1>2 DEF StatInv
  <2>2. Since(streams[k][1])' = Since(streams[k][1])
        /\ streams'[k][1].max_gop_packets = streams[k][1].max_gop_packets
    BY <1>1 DEF QuietStat, Since
  <2>3. StatOf(streams[k][1], PidOf(k)) => StatOf(streams[k][1], PidOf(k))'
    BY <2>2 DEF StatOf, QuietStat
  <2> QED BY <2>1, <2>3 DEF KindStat, QuietStat
<1> QED BY <1>2 DEF StatInv, QuietStat, OneStreamPerPid

LEMMA CloseGopKeepsStat ==
  ASSUME TypeInv, CountInv, StatInv, CloseGop PROVE StatInv'
<1>0. PICK v, a : GopClosed(v, a)
  BY GopStored
<1>1. /\ v.packets_counter = Stream.packets_counter
      /\ v.last_gop_packets_counter = Stream.packets_counter
      /\ v.max_gop_packets = RecordGop(Stream).max_gop_packets
      /\ a = numsinkpads["audio"]
      /\ a = 0 => pc' = "crashed"
      /\ a # 0 => /\ pc' = "head"
                  /\ streams' = [streams EXCEPT ![frame.kind][frame.n] = v,
                                                !["audio"][a] = RecordGop(streams["audio"][a])]
  BY <1>0 DEF GopClosed
<1>2. pc = "gop" /\ UNCHANGED << numsinkpads, rx, frame >>
  BY DEF CloseGop
<1>3. CASE a = 0
  BY <1>1, <1>2, <1>3 DEF StatInv
<1>4. CASE a # 0
  <2>1. ASSUME OneStreamPerPid, NEW k \in Kinds PROVE KindStat(k)'
    <3>1. /\ frame.kind = "video" /\ frame.n = 1 /\ numsinkpads["video"] = 1 /\ 1 \in 1..MaxPads
          /\ streams \in [Kinds -> [1..MaxPads -> StreamType]]
      BY <1>2, <2>1, OnlyStream, ProgramAssumption DEF StatInv, Writing, TypeInv, TypeOK
    <3>2. a = 1 /\ "audio" \in Kinds /\ "video" \in Kinds
      BY <1>1, <1>4, <2>1 DEF OneStreamPerPid, TypeInv, TypeOK, Kinds
    <3>3. KindStat(k)
      BY <1>2, <2>1 DEF StatInv
    <3>4. streams' = [streams EXCEPT !["video"][1] = v, !["audio"][1] = RecordGop(streams["audio"][1])]
      BY <1>1, <1>4, <3>1, <3>2
    <3>5. CASE k = "video"
      <4>1. streams'[k][1] = v /\ Stream = streams[k][1] /\ Stream \in StreamType
        BY <3>1, <3>2, <3>4, <3>5 DEF Stream
      <4>2. v.max_gop_packets = IF Since(Stream) > Stream.max_gop_packets
                                THEN Since(Stream) ELSE Stream.max_gop_packets
        <5> HIDE DEF Stream
        <5> QED BY <1>1, <4>1, RecordGopFields DEF Since
      <4>3. Since(v) = 0 /\ v.max_gop_packets = rx.maxEs[PidOf(k)] /\ rx.gopEs[PidOf(k)] = 0
        <5>1. Stream.packets_counter \in Nat
          <6> HIDE DEF Stream
          <6> QED BY <4>1 DEF StreamType
        <5>2. Since(v) = 0
          <6> HIDE DEF Stream
          <6> QED BY <1>1, <5>1 DEF Since
        <5>3. StatOf(Stream, PidOf(k))
          BY <3>1, <3>3, <3>5, <4>1 DEF KindStat
        <5> QED BY <1>2, <4>2, <5>2, <5>3 DEF StatOf
      <4>4. StatOf(streams[k][1], PidOf(k))'
        BY <1>1, <1>2, <1>4, <4>1, <4>3 DEF StatOf, Since
      <4> QED BY <1>2, <3>1, <3>5, <4>4 DEF KindStat
    <3>6. CASE k = "audio"
      <4>. DEFINE s == streams["audio"][1]
      <4>1. streams'[k][1] = RecordGop(s) /\ s \in StreamType
        BY <3>1, <3>2, <3>4, <3>6
      <4>2. StatOf(s, PidOf(k))
        BY <1>1, <3>2, <3>3, <3>6 DEF KindStat
      <4>3. numsinkpads'[k] = 1
        BY <1>1, <1>2, <3>2, <3>6
      <4> HIDE DEF s
      <4>4. /\ Since(RecordGop(s)) = 0
            /\ RecordGop(s).max_gop_packets = rx.maxEs[PidOf(k)] /\ rx.gopEs[PidOf(k)] = 0
        <5>1. /\ RecordGop(s).packets_counter = s.packets_counter
              /\ RecordGop(s).last_gop_packets_counter = s.packets_counter
              /\ RecordGop(s).max_gop_packets = IF Since(s) > s.max_gop_packets
                                                THEN Since(s) ELSE s.max_gop_packets
          BY <4>1, RecordGopFields DEF Since
        <5>2. s.packets_counter \in Nat
          BY <4>1 DEF StreamType
        <5> QED BY <1>2, <4>2, <5>1, <5>2 DEF StatOf, Since
      <4>5. StatOf(streams[k][1], PidOf(k))'
        BY <1>1, <1>2, <1>4, <4>1, <4>4 DEF StatOf, Since
      <4> QED BY <4>3, <4>5 DEF KindStat
    <3> QED BY <3>5, <3>6 DEF Kinds
  <2> QED BY <1>1, <1>2, <1>4, <2>1 DEF StatInv, OneStreamPerPid
<1> QED BY <1>3, <1>4

LEMMA RequestKeepsStat ==
  ASSUME TypeInv, CountInv, StatInv, NEW k \in Kinds, RequestPad(k) PROVE StatInv'
<1>. DEFINE n == numsinkpads[k] + 1
<1>1. /\ UNCHANGED << rx, pc, frame >>
      /\ numsinkpads' = [numsinkpads EXCEPT ![k] = n]
      /\ streams' = [streams EXCEPT ![k][n] = NewStream(k)]
  BY DEF RequestPad, Current
<1>2. /\ numsinkpads \in [Kinds -> 0..MaxPads] /\ \A j \in Kinds : numsinkpads[j] \in Nat
      /\ n \in 1..MaxPads /\ streams \in [Kinds -> [1..MaxPads -> StreamType]]
  <2>1. numsinkpads[k] < MaxPads /\ numsinkpads \in [Kinds -> 0..MaxPads]
    BY DEF RequestPad, TypeInv, TypeOK
  <2> QED BY <2>1, ProgramAssumption DEF TypeInv, TypeOK
<1>3. ASSUME OneStreamPerPid', pc # "crashed", NEW j \in Kinds PROVE KindStat(j)'
  <2>1. ASSUME NEW i \in Kinds PROVE numsinkpads[i] <= 1
    <3>1. numsinkpads'[i] <= 1
      BY <1>3, <2>1 DEF OneStreamPerPid
    <3> QED BY <1>1, <1>2, <3>1
  <2>2. KindStat(j)
    BY <1>3, <2>1 DEF StatInv, OneStreamPerPid
  <2>3. CASE j = k
    <3>1. numsinkpads[k] = 0
      <4>1. numsinkpads'[k] <= 1 /\ numsinkpads'[k] = n
        BY <1>1, <1>2, <1>3 DEF OneStreamPerPid
      <4>2. numsinkpads[k] \in Nat /\ numsinkpads[k] + 1 <= 1
        BY <1>2, <4>1
      <4> HIDE DEF n
      <4> QED BY <4>2
    <3>2. n = 1
      BY <3>1
    <3> HIDE DEF n
    <3>3. streams'[k][1] = NewStream(k) /\ numsinkpads'[k] = 1
      BY <1>1, <1>2, <3>2
    <3>4. Since(NewStream(k)) = 0 /\ NewStream(k).max_gop_packets = 0
      BY DEF Since, NewStream
    <3>5. rx.maxEs[PidOf(k)] = 0 /\ rx.gopEs[PidOf(k)] = 0
      BY <2>2, <2>3, <3>1 DEF KindStat
    <3>6. StatOf(streams[k][1], PidOf(k))'
      BY <1>1, <3>3, <3>4, <3>5 DEF StatOf, Since
    <3> QED BY <2>3, <3>3, <3>6 DEF KindStat
  <2>4. CASE j # k
    <3>1. streams'[j] = streams[j] /\ numsinkpads'[j] = numsinkpads[j]
      BY <1>1, <1>2, <2>4
    <3> QED BY <1>1, <2>2, <3>1 DEF KindStat, StatOf, Since
  <2> QED BY <2>3, <2>4
<1> QED BY <1>1, <1>3 DEF StatInv

LEMMA FirstMarkCounts ==
  ASSUME TypeInv, FirstCollected, NEW k \in Kinds, NEW i \in 1..MaxPads
  PROVE  /\ streams'[k][i].packets_counter = streams[k][i].packets_counter
         /\ streams'[k][i].last_gop_packets_counter = streams[k][i].last_gop_packets_counter
         /\ streams'[k][i].max_gop_packets = streams[k][i].max_gop_packets
<1>0. PICK c, n : c = ClockKind /\ n = numsinkpads[c]
  OBVIOUS
<1>1. /\ streams' = [streams EXCEPT ![c][n].pcr_reference = TRUE]
      /\ streams \in [Kinds -> [1..MaxPads -> StreamType]] /\ c \in Kinds
  BY <1>0 DEF FirstCollected, Current, TypeInv, TypeOK, ClockKind, Kinds
<1>2. CASE k = c /\ i = n
  <2>1. streams'[k][i] = [streams[k][i] EXCEPT !.pcr_reference = TRUE]
    BY <1>1, <1>2
  <2>2. streams[k][i] \in StreamType
    BY <1>1
  <2> QED BY <2>1, <2>2 DEF StreamType
<1>3. CASE ~(k = c /\ i = n)
  <2>1. streams'[k][i] = streams[k][i]
    BY <1>1, <1>3
  <2> QED BY <2>1
<1> QED BY <1>2, <1>3

LEMMA NextKeepsStat ==
  ASSUME TypeInv, CountInv, FrameInv, TemplateInv, StatInv, [Next]_vars PROVE StatInv'
<1>1. CASE UNCHANGED << rx, numsinkpads, streams, pc, frame >>
  BY <1>1, QuietKeepsStat DEF QuietStat, StatInv
<1>2. CASE WriteHead \/ WriteTail
  <2>1. PICK p, s : FramePacket(p, s)
    BY <1>2, HeadPacket, TailPacket
  <2>2. UNCHANGED numsinkpads /\ pc' \in {"idle", "tail"} /\ pc \in {"head", "tail"}
    BY <1>2, FramePacketSent DEF WriteHead, WriteTail
  <2> QED BY <2>1, <2>2, FramePacketInGop
<1>3. CASE WriteNull \/ WritePmt
  <2>1. /\ UNCHANGED << numsinkpads, streams, frame >>
        /\ \/ pc = "pad" /\ pc' = "pad"
           \/ pc = "pmt" /\ pc' = "gop"
    BY <1>3 DEF WriteNull, WritePmt
  <2>2. rx'.maxEs = rx.maxEs /\ rx'.gopEs = rx.gopEs
    <3>1. CASE WriteNull
      <4>. DEFINE p == [pid |-> NULL_PID]
      <4>1. p.pid = NULL_PID /\ rx' = Receive(rx, p)
        BY <3>1 DEF WriteNull, Write
      <4> HIDE DEF p
      <4> QED BY <4>1, NewsOfNull DEF CountInv
    <3>2. CASE WritePmt
      <4>. DEFINE p == [pid |-> PMT_PID, cc |-> pmt.cc, section |-> pmt_section]
      <4>1. p.pid = PMT_PID /\ rx' = Receive(rx, p)
        BY <3>2 DEF WritePmt, Write
      <4> HIDE DEF p
      <4> QED BY <4>1, NewsOfPmt DEF CountInv
    <3> QED BY <1>3, <3>1, <3>2
  <2>3. QuietStat
    BY <2>1, <2>2 DEF QuietStat
  <2>4. frame'.kind = "video"
    BY <2>1 DEF StatInv
  <2> QED BY <2>1, <2>3, <2>4, QuietKeepsStat
<1>4. ASSUME NEW idr \in BOOLEAN, NEW size \in VideoSizes, NEW ts \in Timestamps,
             WriteVideo(idr, size, ts)
      PROVE  StatInv'
  <2>1. /\ UNCHANGED << numsinkpads, rx >> /\ pc = "idle" /\ pc' \in {"pad", "head"}
        /\ frame' = NewFrame("video", idr, size, ts)
    BY <1>4 DEF WriteVideo
  <2>2. frame'.kind = "video"
    BY <2>1, Zenon DEF NewFrame
  <2>3. ASSUME NEW k \in Kinds, NEW i \in 1..MaxPads
        PROVE  /\ streams'[k][i].packets_counter = streams[k][i].packets_counter
               /\ streams'[k][i].last_gop_packets_counter = streams[k][i].last_gop_packets_counter
               /\ streams'[k][i].max_gop_packets = streams[k][i].max_gop_packets
    BY <1>4, FrameCounted
  <2>4. QuietStat
    BY <2>1, <2>3 DEF QuietStat
  <2> QED BY <2>1, <2>2, <2>4, QuietKeepsStat
<1>5. ASSUME NEW size \in AudioSizes, NEW ts \in Timestamps, WriteAudio(size, ts) PROVE StatInv'
  <2>1. /\ UNCHANGED << numsinkpads, streams, rx >> /\ pc = "idle"
        /\ pc' = "head" \/ pc' = pc
    BY <1>5 DEF WriteAudio, spts_vars
  <2>2. QuietStat
    BY <2>1 DEF QuietStat
  <2> QED BY <2>1, <2>2, QuietKeepsStat
<1>6. CASE FirstCollected
  <2>1. UNCHANGED << numsinkpads, rx, pc, frame >>
    BY <1>6 DEF FirstCollected
  <2>2. QuietStat
    BY <1>6, <2>1, FirstMarkCounts DEF QuietStat
  <2> QED BY <2>1, <2>2, QuietKeepsStat DEF StatInv
<1>7. CASE UNCHANGED vars
  BY <1>1, <1>7 DEF vars, spts_vars
<1> QED
  BY <1>1, <1>2, <1>3, <1>4, <1>5, <1>6, <1>7, PatClosesCount, CloseGopKeepsStat, RequestKeepsStat
  DEF Next, WriteStep, CollectedNothing

LEMMA StatInvariant == Spec => []StatInv
<1>1. TypeInv /\ CountInv /\ (FrameInv /\ TemplateInv) /\ StatInv /\ [Next]_vars => StatInv'
  BY NextKeepsStat
<1> QED BY <1>1, InitStat, TypeInvariant, CountInvariant, FrameInvariant, PTL DEF Spec

(* What spts.c records of its GOPs (spts.c:378-399) is what a receiver     *)
(* counts between two PATs, for any number and length of GOPs and whenever *)
(* the pads were requested.                                                *)
THEOREM StatisticsTrue == Spec => []GopStatistics
<1>1. ASSUME StatInv PROVE GopStatistics
  <2> SUFFICES ASSUME OneStreamPerPid, pc \notin {"pmt", "gop", "crashed"},
                      NEW k \in Kinds, numsinkpads[k] = 1
               PROVE  /\ streams[k][1].max_gop_packets = rx.maxEs[PidOf(k)]
                      /\ streams[k][1].packets_counter - streams[k][1].last_gop_packets_counter
                           = rx.gopEs[PidOf(k)]
    BY DEF GopStatistics
  <2>1. StatOf(streams[k][1], PidOf(k))
    BY <1>1 DEF StatInv, KindStat
  <2> QED BY <2>1 DEF StatOf, Since
<1> QED BY <1>1, StatInvariant, PTL
=============================================================================
