----------------------------- MODULE FrameStamp -----------------------------
(***************************************************************************)
(* The bytes at the start of a frame that tell its time and its length:    *)
(* the PES header of pes.c, and the PCR of spts_tspacket_adaptation_set,   *)
(* read back by a receiver.  A 64-bit time is three digits << t30, t15,    *)
(* t0 >> of base 2^15, the first unbounded, so that the shifts of the code *)
(* by 15 and 30 select digits and TLC's integers suffice.                  *)
(***************************************************************************)
EXTENDS Sequences, TsPacket

CONSTANTS
  Tops, Digits,  (* the digits of the times tried                           *)
  Sizes          (* the sizes of frames, in bytes                           *)

Base  == 32768
Kinds == {"video", "audio"}
Times == Tops \X Digits \X Digits

ASSUME FrameStampAssumption ==
  Tops \subseteq Nat /\ Digits \subseteq 0..(Base - 1) /\ Sizes \subseteq Nat

VARIABLES
  frame,  (* [kind, size, pts] of the last frame                            *)
  pes,    (* the PES header of it                                           *)
  pcr     (* the six bytes of the PCR sent with it, << >> if there is none  *)

vars == << frame, pes, pcr >>

-----------------------------------------------------------------------------
(* pes_header_set.                                                         *)

STREAM_ID_AUDIO == 192
STREAM_ID_VIDEO == 224
StreamId(kind)  == IF kind = "video" THEN STREAM_ID_VIDEO ELSE STREAM_ID_AUDIO

LowBytes(val) == << (val \div 256) % 256, val % 256 >>

(* A video frame has no length; the length of another counts what follows  *)
(* it of the header.                                                       *)
LengthOfFrame(kind, size) == IF kind = "video" THEN << 0, 0 >> ELSE LowBytes(size)
LengthBytes(kind, size) == IF kind = "video" THEN << 0, 0 >> ELSE LowBytes(size + 8)

(* The mask of the middle digit leaves four bits of the first digit in the *)
(* value, above the two bytes that are written.                            *)
PtsBytesUnmasked(pts) ==
  << 33 + ((pts[1] * 2) % 256) >>
    \o LowBytes(pts[2] * 2 + 1) \o LowBytes(pts[3] * 2 + 1)
PtsBytes(pts) ==
  << 32 + (pts[1] % 8) * 2 + 1 >>
    \o LowBytes(((pts[1] % 16) * Base + pts[2]) * 2 + 1)
    \o LowBytes(pts[3] * 2 + 1)

pes_header_set(kind, size, pts) ==
  << 0, 0, 1, StreamId(kind) >> \o LengthBytes(kind, size) \o << 128, 128, 5 >> \o PtsBytes(pts)

(* The PCR.  The product with 300 and the division by it cancel, and leave *)
(* an extension of 0.                                                      *)
BeforeLead(t) == t[1] = 0 /\ t[2] = 0 /\ t[3] < PCR_LEAD

MinusLeadNoBorrow(t) == << t[1], t[2], (t[3] + Base - PCR_LEAD) % Base >>
MinusLead(t) ==
  IF t[3] >= PCR_LEAD   THEN << t[1], t[2], t[3] - PCR_LEAD >>
  ELSE IF t[2] > 0  THEN << t[1], t[2] - 1, t[3] + Base - PCR_LEAD >>
                    ELSE << t[1] - 1, Base - 1, t[3] + Base - PCR_LEAD >>

PcrBase(pts) == IF BeforeLead(pts) THEN << 0, 0, 0 >> ELSE MinusLead(pts)

(* The base shifted right by 25, 17, 9 and 1, each cut to a byte, then its *)
(* last bit with the six reserved ones, and the extension.                 *)
PcrBytes(base) ==
  << (base[1] * 32 + base[2] \div 1024) % 256,
     (base[2] \div 4) % 256,
     ((base[2] % 4) * 64 + base[3] \div 512) % 256,
     (base[3] \div 2) % 256,
     (base[3] % 2) * 128 + 126,
     0 >>

NoPts == [kind |-> "none", size |-> 0, pts |-> << 0, 0, 0 >>]

Init == frame = NoPts /\ pes = << >> /\ pcr = << >>

WriteHead(kind, size, pts, pcr_reference) ==
  /\ frame' = [kind |-> kind, size |-> size, pts |-> pts]
  /\ pes' = pes_header_set(kind, size, pts)
  /\ pcr' = IF pcr_reference THEN PcrBytes(PcrBase(pts)) ELSE << >>

Next ==
  \E kind \in Kinds, size \in Sizes, pts \in Times, pcr_reference \in BOOLEAN :
    WriteHead(kind, size, pts, pcr_reference)

Spec == Init /\ [][Next]_vars

-----------------------------------------------------------------------------
(* A receiver: the fields of 33 bits, as digits of 3, 15 and 15 bits.      *)

ReadPts == << (pes[10] \div 2) % 8, pes[11] * 128 + pes[12] \div 2, pes[13] * 128 + pes[14] \div 2 >>
Markers == pes[10] \div 16 = 2 /\ \A i \in {10, 12, 14} : pes[i] % 2 = 1

ReadPcr ==
  << pcr[1] \div 32,
     (pcr[1] % 32) * 1024 + pcr[2] * 4 + pcr[3] \div 64,
     (pcr[3] % 64) * 512 + pcr[4] * 2 + pcr[5] \div 128 >>
ReadExtension == (pcr[5] % 2) * 256 + pcr[6]

PlusLead(t) ==
  LET low    == t[3] + PCR_LEAD
      middle == t[2] + low \div Base
  IN  << (t[1] + middle \div Base) % 8, middle % Base, low % Base >>

Sent == frame # NoPts

(* A receiver finds the PTS of the frame, cut to 33 bits and with its      *)
(* marker bits, at the end of a header of the length that spts.c counts on *)
(* (pes.c:79-85, 91).                                                      *)
PtsArrives ==
  Sent =>
    /\ Len(pes) = 9 + pes[9] /\ Len(pes) = pes_header_length
    /\ Markers
    /\ ReadPts = << frame.pts[1] % 8, frame.pts[2], frame.pts[3] >>

(* The PCR read is the lead before the PTS read, also where one of them    *)
(* has wrapped and the other has not, or 0 near the start (spts.c:417).    *)
PcrBeforePts ==
  Sent /\ pcr # << >> =>
    /\ ReadExtension = 0
    /\ IF BeforeLead(frame.pts) THEN ReadPcr = << 0, 0, 0 >> ELSE PlusLead(ReadPcr) = ReadPts

(* The packet of an audio frame ends with the frame: its length, as long   *)
(* as the field can hold it, is what follows the field (pes.c:69-71).      *)
PacketEndsWithFrame ==
  frame.kind = "audio" /\ frame.size + Len(pes) - 6 < 65536 =>
    pes[5] * 256 + pes[6] = Len(pes) - 6 + frame.size
=============================================================================
