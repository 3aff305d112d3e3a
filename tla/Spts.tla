-------------------------------- MODULE Spts --------------------------------
(***************************************************************************)
(* The single program transport stream of spts.c, driven by the element of *)
(* sptsmuxer.c: streams are added when an application requests pads, the   *)
(* first collected callback picks the clock reference, and then frames are *)
(* handed to spts_write_frame one at a time.  spts_write_frame is split at *)
(* its calls of write_func: each step writes at most one packet.  Pads are *)
(* requested by another thread, which takes no lock, so a request can fall *)
(* between any two packets of a frame.                                     *)
(***************************************************************************)
EXTENDS TsReceiver

CONSTANTS
  Program,       (* the kinds of stream the application requests pads for   *)
  LateRequests,  (* may it request pads after the first buffers arrived?    *)
  MaxPads,       (* bound: pads requested of one kind                       *)
  MaxFrames,     (* bound: buffers that reach the element                   *)
  VideoSizes,    (* sizes of the video buffers, in bytes                    *)
  AudioSizes,    (* sizes of the audio buffers, in bytes                    *)
  Timestamps     (* their timestamps, in nanoseconds                        *)

Kinds == {"video", "audio"}

ASSUME ProgramAssumption ==
  /\ Program \subseteq Kinds
  /\ LateRequests \in BOOLEAN
  /\ MaxPads \in Nat \ {0}
  /\ MaxFrames \in Nat
  /\ VideoSizes \subseteq Nat
  /\ AudioSizes \subseteq Nat
  /\ Timestamps \subseteq Nat

VARIABLES
  first,            (* the collected callback has not run yet               *)
  numsinkpads,      (* numvideosinkpads and numaudiosinkpads                *)
  streams,          (* every SpTsStream allocated, by kind and number       *)
  pmt_section,
  pat, pmt,         (* the header templates of the PAT and PMT packets      *)
  packets_counter, gop_counter,
  pc,               (* where spts_write_frame is; "idle" outside of it      *)
  frame,            (* its buffer, and how far it has been copied           *)
  collected,        (* buffers taken so far; for the bound only             *)
  rx                (* what a receiver made of the packets written          *)

spts_vars == << streams, pmt_section, pat, pmt, packets_counter, gop_counter >>
vars == << first, numsinkpads, spts_vars, pc, frame, collected, rx >>

PidOf(kind)  == IF kind = "video" THEN VIDEO_PID ELSE AUDIO_PID
TypeCode(kind) == IF kind = "video" THEN STREAM_TYPE_VIDEO_H264 ELSE STREAM_TYPE_AUDIO_AAC

(* spts->video_stream and spts->audio_stream point to the last stream added *)
(* of their kind; number 0 is the null pointer.                             *)
Current(kind) == numsinkpads[kind]

NewStream(kind) ==
  [header |-> tspacket_header_init(PidOf(kind)), pcr_reference |-> FALSE,
   packets_counter |-> 0, last_gop_packets_counter |-> 0, max_gop_packets |-> 0,
   frames_counter |-> 0, last_gop_frames_counter |-> 0, pes_packet_length |-> 0]

(* The section in the PAT packet never changes.                            *)
pat_section == pat_section_set(PROGRAM_NUMBER, PMT_PID)

NoFrame == [kind |-> "none", n |-> 0, idr |-> FALSE, size |-> 0, pts |-> 0, at |-> 0]

Init ==
  /\ first = TRUE
  /\ numsinkpads = [k \in Kinds |-> 0]
  /\ streams = [k \in Kinds |-> [i \in 1..MaxPads |-> NewStream(k)]]
  /\ pmt_section = pmt_section_init(PROGRAM_NUMBER)
  /\ pat = tspacket_header_init(PAT_PID)
  /\ pmt = tspacket_header_init(PMT_PID)
  /\ packets_counter = 0
  /\ gop_counter = 0
  /\ pc = "idle"
  /\ frame = NoFrame
  /\ collected = 0
  /\ rx = ReceiverInit

-----------------------------------------------------------------------------
(* The element around it.                                                  *)

(* sptsmuxer_request_new_pad, as far as the stream is concerned.           *)
RequestPad(kind) ==
  /\ pc # "crashed"
  /\ kind \in Program
  /\ first \/ LateRequests
  /\ numsinkpads[kind] < MaxPads
  /\ numsinkpads' = [numsinkpads EXCEPT ![kind] = @ + 1]
  /\ streams' = [streams EXCEPT ![kind][Current(kind) + 1] = NewStream(kind)]
  /\ pmt_section' = pmt_section_stream_add(pmt_section, TypeCode(kind), PidOf(kind))
  /\ UNCHANGED << first, pat, pmt, packets_counter, gop_counter, pc, frame, collected, rx >>

(* The kind of stream that becomes the clock reference: video if there is  *)
(* any, else audio.                                                        *)
ClockKind  == IF pmt_section.video_pid # 0 THEN "video" ELSE "audio"

(* GstCollectPads calls back once every pad it knows has a buffer; which   *)
(* pads it knows by then is up to the application.                         *)
PadsReady ==
  /\ \E k \in Program : numsinkpads[k] > 0
  /\ LateRequests \/ \A k \in Program : numsinkpads[k] > 0

FirstCollected ==
  /\ first
  /\ PadsReady
  /\ first' = FALSE
  /\ pmt_section' = pmt_section_pcr_pid_set(pmt_section, PidOf(ClockKind))
  /\ streams' = [streams EXCEPT ![ClockKind][Current(ClockKind)].pcr_reference = TRUE]
  /\ UNCHANGED << numsinkpads, pat, pmt, packets_counter, gop_counter, pc, frame, collected, rx >>

-----------------------------------------------------------------------------
(* spts_write_frame.                                                       *)

Stream == streams[frame.kind][frame.n]
NewFrame(kind, idr, size, ts) ==
  [kind |-> kind, n |-> Current(kind), idr |-> idr, size |-> size, pts |-> mpegtime(ts), at |-> 0]

WriteVideo(idr, size, ts) ==
  /\ pc = "idle" /\ ~first
  /\ numsinkpads["video"] > 0
  /\ collected < MaxFrames
  /\ collected' = collected + 1
  /\ frame' = NewFrame("video", idr, size, ts)
  /\ streams' = [streams EXCEPT !["video"][Current("video")].frames_counter = @ + 1]
  /\ pc' = IF idr THEN "pad" ELSE "head"
  /\ UNCHANGED << first, numsinkpads, pmt_section, pat, pmt, packets_counter, gop_counter, rx >>

(* Audio that comes before any packet was written is dropped.              *)
AudioKept == packets_counter > 0
WriteAudio(size, ts) ==
  /\ pc = "idle" /\ ~first
  /\ numsinkpads["audio"] > 0
  /\ collected < MaxFrames
  /\ collected' = collected + 1
  /\ IF AudioKept
     THEN frame' = NewFrame("audio", FALSE, size, ts) /\ pc' = "head"
     ELSE UNCHANGED << frame, pc >>
  /\ UNCHANGED << first, numsinkpads, spts_vars, rx >>

WriteNullUncounted(packet) ==
  /\ rx' = Receive(rx, packet)
  /\ packets_counter' = packets_counter + (IF packet.pid = NULL_PID THEN 0 ELSE 1)
Write(packet) ==
  /\ rx' = Receive(rx, packet)
  /\ packets_counter' = packets_counter + 1

SlotOpenTooLong == packets_counter <= gop_counter * GopPackets
SlotOpenTooShort == packets_counter < (gop_counter - 1) * GopPackets
SlotOpen == packets_counter < gop_counter * GopPackets

(* An IDR frame starts a GOP: null packets up to its slot, ...             *)
WriteNullDisabled ==
  /\ pc = "pad"
  /\ SlotOpen
  /\ UNCHANGED vars
WriteNull ==
  /\ pc = "pad"
  /\ SlotOpen
  /\ Write([pid |-> NULL_PID])
  /\ UNCHANGED << first, numsinkpads, streams, pmt_section, pat, pmt, gop_counter, pc, frame, collected >>

(* ... then the PAT and the PMT, ...                                       *)
WritePat ==
  /\ pc = "pad"
  /\ ~SlotOpen
  /\ Write([pid |-> PAT_PID, cc |-> pat.cc, section |-> pat_section])
  /\ pat' = header_cc_inc(pat)
  /\ pc' = "pmt"
  /\ UNCHANGED << first, numsinkpads, streams, pmt_section, pmt, gop_counter, frame, collected >>

WritePmt ==
  /\ pc = "pmt"
  /\ Write([pid |-> PMT_PID, cc |-> pmt.cc, section |-> pmt_section])
  /\ pmt' = header_cc_inc(pmt)
  /\ pc' = "gop"
  /\ UNCHANGED << first, numsinkpads, streams, pmt_section, pat, gop_counter, frame, collected >>

(* ... then the statistics of the GOP that ends, of both streams.          *)
RecordGopNoReset(s) ==
  LET packets == s.packets_counter - s.last_gop_packets_counter
  IN  [s EXCEPT !.max_gop_packets = IF packets > @ THEN packets ELSE @]
RecordGop(s) ==
  LET packets == s.packets_counter - s.last_gop_packets_counter
  IN  [s EXCEPT !.max_gop_packets = IF packets > @ THEN packets ELSE @,
                !.last_gop_packets_counter = s.packets_counter]

CloseGop ==
  /\ pc = "gop"
  /\ gop_counter' = gop_counter + 1
  /\ LET video == [RecordGop(Stream) EXCEPT !.last_gop_frames_counter = Stream.frames_counter]
         a     == Current("audio")
     IN  IF a = 0
         THEN /\ pc' = "crashed"       \* audio_stream is dereferenced
              /\ streams' = [streams EXCEPT ![frame.kind][frame.n] = video]
         ELSE /\ pc' = "head"
              /\ streams' = [streams EXCEPT ![frame.kind][frame.n] = video,
                                            !["audio"][a] = RecordGop(streams["audio"][a])]
  /\ UNCHANGED << first, numsinkpads, pmt_section, pat, pmt, packets_counter, frame, collected, rx >>

(* A packet of the frame in layout `lay', sent with header h.              *)
EsPacket(h, lay, pcr) ==
  [pid |-> h.pid, cc |-> h.cc, pusi |-> h.pusi, afc |-> h.afc, afLen |-> lay.afLen,
   pes |-> lay.pes, es |-> lay.es, n |-> lay.n, from |-> frame.at,
   pts |-> TimeField(frame.pts), pcr |-> pcr]

(* The stream after one packet with header h, `left' bytes still to write. *)
PacketWritten(s, h, left) ==
  [s EXCEPT !.header = h, !.packets_counter = @ + 1, !.pes_packet_length = left]

Payload(h, left, lay) ==
  /\ streams' = [streams EXCEPT ![frame.kind][frame.n] = PacketWritten(Stream, h, left - lay.n)]
  /\ frame' = IF left = lay.n THEN NoFrame ELSE [frame EXCEPT !.at = @ + lay.n]
  /\ pc' = IF left = lay.n THEN "idle" ELSE "tail"
  /\ UNCHANGED << first, numsinkpads, pmt_section, pat, pmt, gop_counter, collected >>

(* The first packet of a frame.                                            *)
WriteHead ==
  /\ pc = "head"
  /\ LET s   == Stream
         lay == HeadLayout(s.pcr_reference, frame.size)
         h   == header_set_adaptation_field_control(
                  header_set_start_unit_indicator(s.header, TRUE), lay.afc)
         pcr == IF s.pcr_reference THEN TimeField(pcr_base(frame.pts)) ELSE -1
         after == header_set_start_unit_indicator(
                    header_set_adaptation_field_control(header_cc_inc(h), PAYLOAD_ONLY), FALSE)
     IN  /\ Write(EsPacket(h, lay, pcr))
         /\ Payload(after, frame.size, lay)

(* One turn of the loop that writes the rest of it.                        *)
WriteTail ==
  /\ pc = "tail"
  /\ LET s   == Stream
         lay == TailLayout(s.pes_packet_length)
         h   == IF lay.afc = ADAPTATION_AND_PAYLOAD
                THEN header_set_adaptation_field_control(s.header, lay.afc)
                ELSE s.header
     IN  /\ Write(EsPacket(h, lay, -1))
         /\ Payload(header_cc_inc(h), s.pes_packet_length, lay)

(* All pads are at their end: the callback finds no buffer and returns.    *)
CollectedNothing ==
  /\ pc = "idle" /\ ~first
  /\ collected = MaxFrames
  /\ UNCHANGED vars

-----------------------------------------------------------------------------
WriteStep == WriteNull \/ WritePat \/ WritePmt \/ CloseGop \/ WriteHead \/ WriteTail

Next ==
  \/ \E k \in Kinds : RequestPad(k)
  \/ FirstCollected
  \/ \E idr \in BOOLEAN, size \in VideoSizes, ts \in Timestamps : WriteVideo(idr, size, ts)
  \/ \E size \in AudioSizes, ts \in Timestamps : WriteAudio(size, ts)
  \/ WriteStep
  \/ CollectedNothing

Spec == Init /\ [][Next]_vars

(* The streaming thread that entered spts_write_frame keeps running.       *)
FairSpec == Spec /\ WF_vars(WriteStep)
=============================================================================
