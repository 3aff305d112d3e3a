--------------------------------- MODULE Psi --------------------------------
(***************************************************************************)
(* The two sections that psi.c makes: the PAT, written once, and the PMT,  *)
(* edited in place inside its packet.  calc_crc32 is abstracted to the     *)
(* bytes it was computed over, so a section is valid when its crc equals   *)
(* what a receiver would compute.                                          *)
(***************************************************************************)
EXTENDS Sequences, TsPacket

STREAM_TYPE_VIDEO_H264 == 27
STREAM_TYPE_AUDIO_AAC  == 15

PROGRAM_NUMBER == 22

(* The fields of a section header that differ; the others are constant.    *)
section_header_set(table_id, section_length, id) ==
  [table_id |-> table_id, section_length |-> section_length, id |-> id]

(* section_length counts what follows it: of the 8 bytes of the header 5,  *)
(* then the body and the 4 bytes of the CRC, which covers all but itself.  *)
Covers(header) == header.section_length - 1

pat_section_set(program_number, pmt_pid) ==
  LET header == section_header_set(0, 13, 1)
  IN  [header |-> header, program_number |-> program_number, pmt_pid |-> pmt_pid,
       crc |-> [header |-> header, covered |-> 12,
                program_number |-> program_number, pmt_pid |-> pmt_pid]]

PatValid(s) ==
  /\ s.header.table_id = 0
  /\ s.header.section_length = 9 + 4
  /\ s.crc = [header |-> s.header, covered |-> Covers(s.header),
              program_number |-> s.program_number, pmt_pid |-> s.pmt_pid]

(* The bytes covered by the CRC: the section up to the last stream entry.  *)
(* section_length is written to the header when a stream is added, and     *)
(* kept a second time in section_info; the CRC is computed over the latter.*)
SectionBytes(s) ==
  [header |-> s.header, covered |-> s.section_length - 1, pcr |-> s.PCR_PID, streams |-> s.streams]

WithCrc(s) == [s EXCEPT !.crc = SectionBytes(s)]

(* A receiver takes the length from the header: 13 bytes of fixed fields   *)
(* and CRC, and 5 for each stream.                                         *)
SectionValid(s) ==
  /\ s.header.table_id = 2
  /\ s.header.section_length = 13 + 5 * Len(s.streams)
  /\ s.crc = [header |-> s.header, covered |-> Covers(s.header),
              pcr |-> s.PCR_PID, streams |-> s.streams]

(* No CRC is written at this point; the fill bytes of the packet are there.*)
NoCrc == [header |-> section_header_set(0, 0, 0), covered |-> 0, pcr |-> 0, streams |-> << >>]

pmt_section_init(program_number) ==
  [section_length |-> 13, header |-> section_header_set(2, 13, program_number),
   PCR_PID |-> 0, streams |-> << >>, video_pid |-> 0, audio_pid |-> 0, crc |-> NoCrc]

pmt_pcr_without_crc(s, pid) == [s EXCEPT !.PCR_PID = pid]
pmt_pcr_always_video(s, pid) == WithCrc([s EXCEPT !.PCR_PID = VIDEO_PID])
pmt_section_pcr_pid_set(s, pid) == WithCrc([s EXCEPT !.PCR_PID = pid])

pmt_stream_replace(s, stream_type, pid) ==
  LET added == [s EXCEPT !.streams = << [type |-> stream_type, pid |-> pid] >>]
  IN  WithCrc(IF stream_type = STREAM_TYPE_VIDEO_H264
              THEN [added EXCEPT !.video_pid = pid]
              ELSE [added EXCEPT !.audio_pid = pid])
pmt_section_stream_add(s, stream_type, pid) ==
  LET added == [s EXCEPT !.section_length = @ + 5,
                         !.header.section_length = s.section_length + 5,
                         !.streams = Append(@, [type |-> stream_type, pid |-> pid])]
  IN  WithCrc(IF stream_type = STREAM_TYPE_VIDEO_H264
              THEN [added EXCEPT !.video_pid = pid]
              ELSE [added EXCEPT !.audio_pid = pid])
=============================================================================
