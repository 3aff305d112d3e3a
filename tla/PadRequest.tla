----------------------------- MODULE PadRequest -----------------------------
(***************************************************************************)
(* Two threads at the grain of their stores: the application's, inside     *)
(* sptsmuxer_request_new_pad, and the streaming thread, which picks the    *)
(* clock in the first collected callback and then sends frames and PMTs.   *)
(* They share the stream pointers of SpTs and the bytes of the PMT packet, *)
(* and take no lock.                                                       *)
(*                                                                         *)
(* section_length is counted in stream entries (13 + 5 n bytes).  The      *)
(* bytes after the fixed fields are cells of five: cell i is the entry of  *)
(* stream i, and the CRC of a section of n streams is the first four bytes *)
(* of cell n + 1, where the next entry will go.                            *)
(***************************************************************************)
EXTENDS Integers, Sequences

CONSTANT MaxRequests  (* bound: pads requested                             *)

ASSUME PadRequestAssumption == MaxRequests \in Nat

Kinds == {"video", "audio"}
Cells == 1..(MaxRequests + 1)

VARIABLES
  apc,             (* the next store of the application's thread            *)
  requests,        (* the kinds requested so far, the current one included  *)
  published,       (* video_stream and audio_stream: a request, 0 is NULL   *)
  initialised,     (* the requests whose packet template is initialised     *)
  collected,       (* the requests whose pad is with GstCollectPads         *)
  section_length,  (* section_info                                          *)
  pids,            (* the kinds whose pid in section_info is not 0          *)
  length, pcr,     (* section_length and PCR_PID as they are in the packet  *)
  cells,           (* the rest of it                                        *)
  acrc, scrc,      (* the CRC each thread computed and has not stored       *)
  place,           (* the cell where the streaming thread will store it     *)
  spc,             (* where the streaming thread is                         *)
  clock,           (* the kind it picked                                    *)
  copied,          (* what write_func has copied of the PMT packet so far   *)
  flowing,         (* the requests collected when it began to               *)
  seen,            (* the last PMT sent, << >> if a receiver rejects it     *)
  raw,             (* a frame was sent with an uninitialised template       *)
  clash,           (* the two threads were editing the section at once      *)
  displaced        (* the late CRC of the first callback went over an entry *)

app    == << requests, published, initialised, collected, section_length, pids, length, acrc >>
stream == << pcr, scrc, place, spc, clock, copied, flowing, seen, raw >>
vars   == << apc, app, cells, stream, clash, displaced >>

(* What a cell holds.  A CRC is the bytes that it was computed over.       *)
Fill        == << "fill" >>
Torn(kind)  == << "torn", kind >>
Entry(kind) == << "entry", kind >>
Crc(bytes)  == << "crc", bytes >>
Garbage     == << "garbage" >>

Bytes(n, len, clk, cs) == [length |-> len, pcr |-> clk, entries |-> [i \in 1..n |-> cs[i]]]
NoBytes == Bytes(0, 0, "none", << >>)

(* A copy of the packet, nothing of it copied yet.                         *)
Missing == << "missing" >>
NoCopy  == [length |-> -1, pcr |-> "missing", cells |-> [i \in Cells |-> Missing]]

Init ==
  /\ apc = "idle"
  /\ requests = << >>
  /\ published = [k \in Kinds |-> 0]
  /\ initialised = {} /\ collected = {}
  /\ section_length = 0 /\ length = 0
  /\ pids = {}
  /\ pcr = "none"
  /\ cells = [i \in Cells |-> Fill]
  /\ acrc = NoBytes /\ scrc = NoBytes
  /\ place = 0
  /\ spc = "first"
  /\ clock = "none"
  /\ copied = NoCopy
  /\ flowing = {}
  /\ seen = << >>
  /\ raw = FALSE
  /\ clash = FALSE /\ displaced = FALSE

-----------------------------------------------------------------------------
(* sptsmuxer_request_new_pad: spts_add_stream, ...                         *)

Current == Len(requests)
Kind    == requests[Current]

AppStep(from, to) == apc = from /\ apc' = to /\ UNCHANGED << stream, displaced >>

PublishAsAudio(kind) ==
  published' = [published EXCEPT !["audio"] = Current + 1] /\ UNCHANGED collected
PublishCollected(kind) ==
  /\ published' = [published EXCEPT ![kind] = Current + 1]
  /\ collected' = collected \cup {Current + 1}
Publish(kind) ==
  published' = [published EXCEPT ![kind] = Current + 1] /\ UNCHANGED collected

Request(kind) ==
  /\ AppStep("idle", "header")
  /\ spc # "crashed"
  /\ Current < MaxRequests
  /\ requests' = Append(requests, kind)
  /\ Publish(kind)
  /\ UNCHANGED << initialised, section_length, pids, length, acrc, cells >>

InitHeader ==
  /\ AppStep("header", "grow")
  /\ initialised' = initialised \cup {Current}
  /\ UNCHANGED << requests, published, collected, section_length, pids, length, acrc, cells >>

(* ... psi_pmt_section_stream_add: the two lengths, ...                    *)
GrownTwice == section_length' = section_length + 2
Grown == section_length' = section_length + 1

Grow ==
  /\ AppStep("grow", "length")
  /\ Grown
  /\ UNCHANGED << requests, published, initialised, collected, pids, length, acrc, cells >>

WriteLength ==
  /\ AppStep("length", "type")
  /\ length' = section_length
  /\ UNCHANGED << requests, published, initialised, collected, section_length, pids, acrc, cells >>

(* ... the first byte of the entry, the pid in section_info, the rest of   *)
(* the entry, ...                                                          *)
WriteType ==
  /\ AppStep("type", "pid")
  /\ cells' = [cells EXCEPT ![Current] = Torn(Kind)]
  /\ UNCHANGED app

SetPid ==
  /\ AppStep("pid", "entry")
  /\ pids' = pids \cup {Kind}
  /\ UNCHANGED << requests, published, initialised, collected, section_length, length, acrc, cells >>

FinishAsVideo(cell) == IF cell = Torn(Kind) THEN Entry("video") ELSE Garbage
Finish(cell) == IF cell = Torn(Kind) THEN Entry(Kind) ELSE Garbage

WriteEntry ==
  /\ AppStep("entry", "crc")
  /\ cells' = [cells EXCEPT ![Current] = Finish(cells[Current])]
  /\ UNCHANGED app

(* ... and the CRC, computed and then stored after the entry.              *)
ComputeCrc ==
  /\ AppStep("crc", "store")
  /\ acrc' = Bytes(section_length, length, pcr, cells)
  /\ UNCHANGED << requests, published, initialised, collected, section_length, pids, length, cells >>

StoredOverEntry == cells' = [cells EXCEPT ![Current] = Crc(acrc)]
Stored == cells' = [cells EXCEPT ![Current + 1] = Crc(acrc)]

StoreCrc ==
  /\ AppStep("store", "collect")
  /\ Stored
  /\ acrc' = NoBytes
  /\ UNCHANGED << requests, published, initialised, collected, section_length, pids, length >>

(* At last the pad is given to GstCollectPads, and buffers may come on it. *)
CollectPad ==
  /\ AppStep("collect", "idle")
  /\ collected' = collected \cup {Current}
  /\ UNCHANGED << requests, published, initialised, section_length, pids, length, acrc, cells >>

RequestPad ==
  \/ \E k \in Kinds : Request(k)
  \/ InitHeader \/ Grow \/ WriteLength \/ WriteType \/ SetPid \/ WriteEntry
  \/ ComputeCrc \/ StoreCrc \/ CollectPad

-----------------------------------------------------------------------------
(* The first collected callback.                                           *)

PickClock ==
  /\ spc = "first"
  /\ collected # {}
  /\ clock' = IF "video" \in pids THEN "video" ELSE IF "audio" \in pids THEN "audio" ELSE "none"
  /\ spc' = IF pids = {} THEN "ready" ELSE "pcr"
  /\ UNCHANGED << apc, app, cells, pcr, scrc, place, displaced, copied, flowing, seen, raw >>

SetPcr ==
  /\ spc = "pcr"
  /\ pcr' = clock
  /\ spc' = "compute"
  /\ UNCHANGED << apc, app, cells, scrc, place, displaced, clock, copied, flowing, seen, raw >>

ComputePcrCrc ==
  /\ spc = "compute"
  /\ scrc' = Bytes(section_length, length, pcr, cells)
  /\ spc' = "locate"
  /\ UNCHANGED << apc, app, cells, pcr, place, displaced, clock, copied, flowing, seen, raw >>

(* section_length is read again for the place of the CRC, before the CRC   *)
(* is stored there: a request in between puts its entry at that place.     *)
LocatePcrCrc ==
  /\ spc = "locate"
  /\ place' = section_length + 1
  /\ spc' = "store"
  /\ UNCHANGED << apc, app, cells, pcr, scrc, displaced, clock, copied, flowing, seen, raw >>

IsEntry(cell) == \E k \in Kinds : cell \in {Torn(k), Entry(k)}

StorePcrCrc ==
  /\ spc = "store"
  /\ cells' = [cells EXCEPT ![place] = Crc(scrc)]
  /\ displaced' = (displaced \/ IsEntry(cells[place]))
  /\ scrc' = NoBytes /\ place' = 0
  /\ spc' = "mark"
  /\ UNCHANGED << apc, app, pcr, clock, copied, flowing, seen, raw >>

(* pcr_reference of the stream that the pointer leads to.                  *)
MarkReference ==
  /\ spc = "mark"
  /\ spc' = IF published[clock] = 0 THEN "crashed" ELSE "ready"
  /\ UNCHANGED << apc, app, cells, pcr, scrc, place, displaced, clock, copied, flowing, seen, raw >>

-----------------------------------------------------------------------------
(* After it.  A frame takes the packet template of the current stream, ... *)
WriteFrame(r) ==
  /\ spc = "ready"
  /\ r \in collected
  /\ raw' = (raw \/ published[requests[r]] \notin initialised)
  /\ UNCHANGED << apc, app, cells, pcr, scrc, place, displaced, spc, clock, copied, flowing, seen >>

(* ... and the PMT packet is copied while the other thread may edit it.    *)
BeginPmt ==
  /\ spc = "ready"
  /\ spc' = "copy"
  /\ flowing' = collected
  /\ seen' = << >>
  /\ UNCHANGED << apc, app, cells, pcr, scrc, place, displaced, clock, copied, raw >>

CopyPart(copy) ==
  /\ spc = "copy"
  /\ copied' = copy
  /\ UNCHANGED << apc, app, cells, pcr, scrc, place, displaced, spc, clock, flowing, seen, raw >>

CopyLength  == copied.length = -1     /\ CopyPart([copied EXCEPT !.length = length])
CopyPcr     == copied.pcr = "missing" /\ CopyPart([copied EXCEPT !.pcr = pcr])
CopyCell(i) == copied.cells[i] = Missing /\ CopyPart([copied EXCEPT !.cells[i] = cells[i]])

(* A receiver checks the CRC that it finds where the length says, over the *)
(* bytes that it received.                                                 *)
Accepts(bytes, last) == last = Crc(bytes)

EndPmt ==
  /\ spc = "copy"
  /\ copied.length # -1 /\ copied.pcr # "missing"
  /\ \A i \in Cells : copied.cells[i] # Missing
  /\ LET n     == copied.length
         bytes == Bytes(n, n, copied.pcr, copied.cells)
     IN  seen' = IF Accepts(bytes, copied.cells[n + 1]) THEN << bytes >> ELSE << >>
  /\ copied' = NoCopy
  /\ spc' = "ready"
  /\ UNCHANGED << apc, app, cells, pcr, scrc, place, displaced, clock, flowing, raw >>

Streaming ==
  \/ PickClock \/ SetPcr \/ ComputePcrCrc \/ LocatePcrCrc \/ StorePcrCrc \/ MarkReference
  \/ \E r \in collected : WriteFrame(r)
  \/ BeginPmt \/ CopyLength \/ CopyPcr \/ (\E i \in Cells : CopyCell(i)) \/ EndPmt

-----------------------------------------------------------------------------
(* Between the first store into the section and the CRC that covers it.    *)
Overlap ==
  /\ apc \in {"length", "type", "pid", "entry", "crc", "store"}
  /\ spc \in {"compute", "locate", "store"}

Next == (RequestPad \/ Streaming) /\ clash' = (clash \/ Overlap')

Spec == Init /\ [][Next]_vars

-----------------------------------------------------------------------------
TypeOK ==
  /\ requests \in Seq(Kinds) /\ Current <= MaxRequests
  /\ published \in [Kinds -> 0..Current]
  /\ initialised \subseteq 1..Current /\ collected \subseteq 1..Current
  /\ section_length \in 0..Current /\ length \in 0..section_length
  /\ pids \subseteq Kinds /\ pcr \in Kinds \cup {"none"} /\ clock \in Kinds \cup {"none"}
  /\ DOMAIN cells = Cells /\ place \in 0..(section_length + 1)
  /\ apc \in {"idle", "header", "grow", "length", "type", "pid", "entry", "crc", "store", "collect"}
  /\ spc \in {"first", "pcr", "compute", "locate", "store", "mark", "ready", "copy", "crashed"}

(* A PMT that a receiver accepts, however the copy of it was interleaved   *)
(* with requests, lists streams that were requested, in order, and names   *)
(* the clock: the CRC sorts the others out (psi.c:228-233), unless it was  *)
(* itself computed while both threads were at the section.                 *)
Lists(n) == [i \in 1..n |-> Entry(requests[i])]
AcceptedReal ==
  ~clash /\ seen # << >> =>
    /\ seen[1].length \in 0..Current
    /\ seen[1].entries = Lists(seen[1].length)
    /\ seen[1].pcr = clock

(* A PMT that a receiver accepts has the entry of every stream that was    *)
(* flowing when the PMT was begun, even if both threads were editing the   *)
(* section at once, but for one order of their steps: a request that puts  *)
(* its entry there between psi.c:190, where the place of the CRC is found, *)
(* and lines 191-194, where it is stored, has that entry overwritten, and  *)
(* then computes a CRC that fits the damage (psi.c:229).                   *)
AcceptedFresh ==
  ~displaced /\ seen # << >> =>
    \A r \in flowing :
      r \in 1..seen[1].length /\ seen[1].entries[r] = Entry(requests[r])

(* Once both threads are done with it the section is valid, and lists all. *)
Settled == apc \in {"idle", "collect", "header", "grow"} /\ spc \in {"mark", "ready", "copy"}
Added   == IF apc \in {"idle", "collect"} THEN Current ELSE Current - 1
SectionComplete ==
  /\ length = Added
  /\ Accepts(Bytes(Added, Added, clock, Lists(Added)), cells[Added + 1])
  /\ \A i \in 1..Added : cells[i] = Entry(requests[i])
SettledComplete == Settled /\ ~clash => SectionComplete

(* The pid in section_info is set after the pointer: the first callback    *)
(* never marks a stream that is not there (sptsmuxer.c:264-269).           *)
ClockHasStream == spc # "crashed"

(* A pad gets buffers only when its stream is complete: with one pad of    *)
(* each kind no frame is sent with a template that is not initialised.     *)
OnePerKind == \A i, j \in 1..Current : requests[i] = requests[j] => i = j
TemplatesReady == OnePerKind => ~raw

(* "recalculate CRC" (psi.c:188): after the first callback has done so,    *)
(* and no request is going on, the CRC of the section is that of its bytes.*)
CrcRecalculated == Settled => SectionComplete
=============================================================================
