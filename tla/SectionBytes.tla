---------------------------- MODULE SectionBytes ----------------------------
(***************************************************************************)
(* The PAT and the PMT as bytes, as psi.c writes them and edits the PMT in *)
(* the payload of its packet, and what a receiver reads there.  The module *)
(* Psi, where the CRC is the bytes that it covers, is shown to say what    *)
(* these bytes say.  Offsets count from 0, as in the code.                 *)
(***************************************************************************)
EXTENDS Psi, Crc32

CONSTANT MaxStreams  (* bound: streams added                               *)

Kinds == {"video", "audio"}
TypeOf(kind) == IF kind = "video" THEN STREAM_TYPE_VIDEO_H264 ELSE STREAM_TYPE_AUDIO_AAC
PidOf(kind)  == IF kind = "video" THEN VIDEO_PID ELSE AUDIO_PID

VARIABLES
  data,          (* the payload of the PMT packet                           *)
  section_info,  (* section_length, video_pid and audio_pid of it           *)
  first          (* the first collected callback is still to come           *)

vars == << data, section_info, first >>

-----------------------------------------------------------------------------
(* psi.c.                                                                  *)

TwoBytes(n)    == << n \div 256, n % 256 >>
LengthBytes(n) == << 176 + n \div 256, n % 256 >>
PidBytes(pid)  == << 224 + pid \div 256, pid % 256 >>

Put(d, at, bytes) ==
  [i \in DOMAIN d |-> IF i - at \in DOMAIN bytes THEN bytes[i - at] ELSE d[i]]

HeaderBytes(table_id, section_length, id) ==
  << 0, table_id >> \o LengthBytes(section_length) \o TwoBytes(id) \o << 193, 0, 0 >>
EntryBytes(kind) == << TypeOf(kind) >> \o PidBytes(PidOf(kind)) \o << 240, 0 >>

Blank == [i \in 1..TSPACKET_PAYLOAD_LENGTH |-> 255]

(* The PAT packet is filled once.                                          *)
PatBytes(program_number, pmt_pid) ==
  LET bytes == HeaderBytes(0, 13, 1) \o TwoBytes(program_number) \o PidBytes(pmt_pid)
  IN  Put(Put(Blank, 0, bytes), 13, FourBytes[calc_crc32(Tail(bytes))])

(* The CRC covers section_length - 1 bytes after the pointer field.        *)
WithCrcAt(d, section_length, at) ==
  Put(d, at, FourBytes[calc_crc32(SubSeq(d, 2, section_length))])

(* psi_pmt_section_init: a PMT without streams, and no CRC yet.            *)
EmptyPmt ==
  Put(Blank, 0, HeaderBytes(2, 13, PROGRAM_NUMBER) \o PidBytes(0) \o << 240, 0 >>)

Init ==
  /\ data = EmptyPmt
  /\ section_info = [section_length |-> 13, video_pid |-> 0, audio_pid |-> 0]
  /\ first = TRUE

StreamAdd(kind) ==
  LET n == section_info.section_length + 5
  IN  /\ n <= 13 + 5 * MaxStreams
      /\ data' = WithCrcAt(Put(Put(data, 2, LengthBytes(n)), n - 5, EntryBytes(kind)), n, n)
      /\ section_info' =
           IF kind = "video"
           THEN [section_info EXCEPT !.section_length = n, !.video_pid = PidOf(kind)]
           ELSE [section_info EXCEPT !.section_length = n, !.audio_pid = PidOf(kind)]
      /\ UNCHANGED first

(* psi_pmt_section_pcr_pid_set in the first collected callback.            *)
CrcPlaceOfEntry == section_info.section_length - 5
CrcPlace == section_info.section_length

PcrPidSet ==
  /\ first /\ section_info.section_length > 13
  /\ first' = FALSE
  /\ data' = LET pid == IF section_info.video_pid # 0 THEN section_info.video_pid
                                                     ELSE section_info.audio_pid
             IN  WithCrcAt(Put(data, 9, PidBytes(pid)), section_info.section_length, CrcPlace)
  /\ UNCHANGED section_info

(* Nothing edits the section any more.                                     *)
Complete ==
  /\ ~first /\ section_info.section_length = 13 + 5 * MaxStreams
  /\ UNCHANGED vars

Next == (\E kind \in Kinds : StreamAdd(kind)) \/ PcrPidSet \/ Complete

Spec == Init /\ [][Next]_vars

-----------------------------------------------------------------------------
(* What a receiver reads, by the section syntax.                           *)

Word(d, at)   == d[at + 1] * 256 + d[at + 2]
Pid(d, at)    == Word(d, at) % 8192
LengthOf(d)   == Word(d, 2) % 4096
HeaderOf(d)   == section_header_set(d[2], LengthOf(d), Word(d, 4))
StreamsOf(d)  ==
  [i \in 1..((LengthOf(d) - 13) \div 5) |->
     [type |-> d[5 * i + 9], pid |-> Pid(d, 5 * i + 9)]]

(* The last four bytes of the section are the CRC of all before them.      *)
CrcHolds(d) ==
  LET n == LengthOf(d)
  IN  n + 4 <= Len(d) /\ SubSeq(d, n + 1, n + 4) = FourBytes[calc_crc32(SubSeq(d, 2, n))]

(* What fills the packet behind an empty PMT is not its CRC.               *)
ASSUME SectionBytesAssumption == MaxStreams \in Nat /\ ~CrcHolds(EmptyPmt)

DecodedPat ==
  LET d == PatBytes(PROGRAM_NUMBER, PMT_PID)
      s == [header |-> HeaderOf(d), program_number |-> Word(d, 9), pmt_pid |-> Pid(d, 11)]
  IN  [header |-> s.header, program_number |-> s.program_number, pmt_pid |-> s.pmt_pid,
       crc |-> IF CrcHolds(d)
               THEN [header |-> s.header, covered |-> Covers(s.header),
                     program_number |-> s.program_number, pmt_pid |-> s.pmt_pid]
               ELSE NoCrc]

DecodedPmt(d, info) ==
  LET s == [section_length |-> info.section_length, header |-> HeaderOf(d),
            PCR_PID |-> Pid(d, 9), streams |-> StreamsOf(d),
            video_pid |-> info.video_pid, audio_pid |-> info.audio_pid, crc |-> NoCrc]
  IN  IF CrcHolds(d) THEN WithCrc(s) ELSE s
Decoded == DecodedPmt(data, section_info)

(* psi.c on bytes implements its abstraction in Psi, on which Spts is      *)
(* built: the PAT says what pat_section_set returns, and each call on the  *)
(* PMT has the effect of the operator of that name, on the lengths, the    *)
(* entries, the PIDs and the CRC (psi.c:92-234).                           *)
ImplementsPsi ==
  /\ DecodedPat = pat_section_set(PROGRAM_NUMBER, PMT_PID)
  /\ Decoded = pmt_section_init(PROGRAM_NUMBER)
  /\ [][LET old == Decoded
            new == Decoded'
        IN  \/ \E kind \in Kinds : new = pmt_section_stream_add(old, TypeOf(kind), PidOf(kind))
            \/ \E pid \in {VIDEO_PID, AUDIO_PID} : new = pmt_section_pcr_pid_set(old, pid)]_vars

(* The PAT, and from the first stream on the PMT, are sections that every  *)
(* receiver takes: what psi.c appends is the remainder of the polynomial   *)
(* for the bytes that the length in the packet covers, in the place where  *)
(* the length says (psi.c:126, 189, 229, crc.h:47).                        *)
Section(d) == SubSeq(d, 2, LengthOf(d) + 4)
Accepts(d) == LengthOf(d) + 4 <= Len(d) /\ Remainder(Section(d)) = {}

ReceiverAccepts ==
  /\ Accepts(PatBytes(PROGRAM_NUMBER, PMT_PID))
  /\ section_info.section_length > 13 => Accepts(data)

(* While a call edits the section the packet may be sent: of every mixture *)
(* of the fields before and after, a receiver accepts only those that say  *)
(* what one of the two says.  PadRequest takes that for granted, where it  *)
(* compares a CRC by the bytes that it covers.  The receiver uses          *)
(* calc_crc32 here, which computes the same.                               *)
Fields(n) == << {3, 4}, {10, 11}, {n + 1}, (n + 2)..(n + 5), (n + 6)..(n + 9) >>
Mixtures(old, new, n) ==
  {[i \in DOMAIN old |-> IF \E f \in taken : i \in Fields(n)[f] THEN new[i] ELSE old[i]] :
     taken \in SUBSET (1..5)}
Says(d) == << Pid(d, 9), StreamsOf(d) >>

TornRejected ==
  [][\A mix \in Mixtures(data, data', section_info.section_length) :
       Says(mix) \in {Says(data), Says(data)'} \/ calc_crc32(Section(mix)) # {}]_vars
=============================================================================
