------------------------------ MODULE TsPacket ------------------------------
(***************************************************************************)
(* The layout of the 188-byte packets that spts.c builds, as positions and *)
(* lengths inside the packet.  Payload bytes are not represented: a packet *)
(* says which range of which frame it carries, and where it carries it.    *)
(***************************************************************************)
EXTENDS Integers

CONSTANT PtsWrap  (* the size of the PTS and PCR base fields, 2^33 in MPEG *)

ASSUME PtsWrapAssumption == PtsWrap \in Nat \ {0}

TSPACKET_HEADER_LENGTH  == 4
TSPACKET_PAYLOAD_LENGTH == 184
TSPACKET_LENGTH         == 188

PAT_PID   == 0
PMT_PID   == 32
VIDEO_PID == 64
AUDIO_PID == 65
NULL_PID  == 8191

(* The two values of adaptation_field_control the code uses. *)
PAYLOAD_ONLY           == 1
ADAPTATION_AND_PAYLOAD == 3

(* pes_header_set always writes 14 bytes, and pes_header_length says so. *)
pes_header_length == 14

-----------------------------------------------------------------------------
(* The header bytes kept in a packet template between two writes.          *)

tspacket_header_init(pid) ==
  [pid |-> pid, pusi |-> TRUE, afc |-> PAYLOAD_ONLY, cc |-> 0]

header_cc_stuck(h) == h
header_cc_inc(h)   == [h EXCEPT !.cc = (@ + 1) % 16]

header_pusi_sticky(h, pusi)               == [h EXCEPT !.pusi = @ \/ pusi]
header_set_start_unit_indicator(h, pusi)  == [h EXCEPT !.pusi = pusi]
header_afc_sticky(h, afc)                 == [h EXCEPT !.afc = IF @ > afc THEN @ ELSE afc]
header_set_adaptation_field_control(h, afc) == [h EXCEPT !.afc = afc]

-----------------------------------------------------------------------------
(* The adaptation field.  adaptation_set advances past the length and flag *)
(* bytes, past the 6 bytes of a PCR, and past the stuffing, whose length   *)
(* is computed in a guint8.                                                *)

adaptation_set(length, pcr) ==
  LET fixed == 2 + (IF pcr THEN 6 ELSE 0)
  IN  fixed + (IF length > 0 THEN (length - (fixed - 1)) % 256 ELSE 0)

(* What byte 4 holds when no adaptation field was written: a payload byte. *)
NoAdaptation == 255

-----------------------------------------------------------------------------
(* Layout of the first packet of a frame.  With a PCR there is always an   *)
(* adaptation field; without, only when the frame does not fill the packet.*)

pcr_head_adaptation_length(size) ==
  IF TSPACKET_PAYLOAD_LENGTH > 7 + 1 + pes_header_length + size
  THEN TSPACKET_PAYLOAD_LENGTH - pes_header_length - size - 1
  ELSE 7

head_stuffing_needed(size) == TSPACKET_PAYLOAD_LENGTH > pes_header_length + size
stuffing_length(size) == TSPACKET_PAYLOAD_LENGTH - pes_header_length - size - 1

(* [afc, afLen, pes, es, n]: the adaptation bytes, the offset of the PES   *)
(* header, the offset of the first frame byte and how many there are.      *)
HeadLayout(pcr, size) ==
  LET stuffed == pcr \/ head_stuffing_needed(size)
      afLen   == CASE pcr -> pcr_head_adaptation_length(size)
                   [] ~pcr /\ stuffed -> stuffing_length(size)
                   [] OTHER -> NoAdaptation
      pesAt   == TSPACKET_HEADER_LENGTH + (IF stuffed THEN adaptation_set(afLen, pcr) ELSE 0)
      esAt    == pesAt + pes_header_length
  IN  [afc   |-> IF stuffed THEN ADAPTATION_AND_PAYLOAD ELSE PAYLOAD_ONLY,
       afLen |-> afLen, pes |-> pesAt, es |-> esAt, n |-> TSPACKET_LENGTH - esAt]

(* Layout of a later packet of a frame with `left' bytes still to write.   *)
TailLayoutUnclamped(left) ==
  [afc |-> PAYLOAD_ONLY, afLen |-> NoAdaptation, pes |-> 0,
   es |-> TSPACKET_HEADER_LENGTH, n |-> TSPACKET_PAYLOAD_LENGTH]
TailLayout(left) ==
  IF left < TSPACKET_PAYLOAD_LENGTH
  THEN LET afLen == TSPACKET_PAYLOAD_LENGTH - left - 1
       IN  [afc |-> ADAPTATION_AND_PAYLOAD, afLen |-> afLen, pes |-> 0,
            es |-> afLen + 1 + TSPACKET_HEADER_LENGTH, n |-> left]
  ELSE [afc |-> PAYLOAD_ONLY, afLen |-> NoAdaptation, pes |-> 0,
        es |-> TSPACKET_HEADER_LENGTH, n |-> TSPACKET_PAYLOAD_LENGTH]

-----------------------------------------------------------------------------
(* Timestamps.  GSTTIME_TO_MPEGTIME scales nanoseconds to 90 kHz, rounding *)
(* down; the quotient is split so that no intermediate product is large.   *)
mpegtime(ns) == (ns \div 100000) * 9 + ((ns % 100000) * 9) \div 100000

(* The PCR sent with a frame, in the 90 kHz units of its base field (its   *)
(* extension is always 0): the PTS less 10250 ticks, or 0 near the start.  *)
PCR_LEAD == 10250
pcr_base_ahead(pts) == pts + PCR_LEAD
pcr_base(pts) == IF pts < PCR_LEAD THEN 0 ELSE pts - PCR_LEAD

(* What the 33-bit field of a PES header or an adaptation field retains.   *)
TimeField(ticks) == ticks % PtsWrap
=============================================================================
