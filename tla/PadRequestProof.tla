--------------------------- MODULE PadRequestProof --------------------------
(***************************************************************************)
(* Theorems about PadRequest, for any number of pads.                      *)
(***************************************************************************)
EXTENDS PadRequest, SequenceTheorems, TLAPS

AppSteps    == {"idle", "header", "grow", "length", "type", "pid", "entry", "crc", "store", "collect"}
StreamSteps == {"first", "pcr", "compute", "locate", "store", "mark", "ready", "copy", "crashed"}

(* How far the request in progress has come, field by field: each is as it *)
(* will be for all the pads requested, or still without the current one.   *)
Before(steps) == IF apc \in steps THEN Current - 1 ELSE Current

Progress ==
  /\ requests \in Seq(Kinds) /\ Current <= MaxRequests
  /\ apc \in AppSteps /\ spc \in StreamSteps
  /\ apc # "idle" => Current > 0
  /\ section_length = Before({"header", "grow"})
  /\ length = Before({"header", "grow", "length"})
  /\ initialised = 1..Before({"header"})
  /\ collected = 1..Before(AppSteps \ {"idle"})
  /\ pids \subseteq Kinds
  /\ Before({"header", "grow", "length", "type", "pid"}) > 0 => pids # {}
  /\ pcr \in Kinds \cup {"none"} /\ clock \in Kinds \cup {"none"}
  /\ DOMAIN cells = Cells
  /\ place \in 0..(section_length + 1)

LEMMA AddedIsBefore ==
  ASSUME Progress PROVE Added = Before(AppSteps \ {"idle", "collect"})
BY DEF Progress, Added, Before, AppSteps

LEMMA InitProgress == Init => Progress
<1> SUFFICES ASSUME Init PROVE Progress
  OBVIOUS
<1>1. requests = << >> /\ requests \in Seq(Kinds) /\ Current = 0
  BY DEF Init, Current
<1>2. Current <= MaxRequests
  BY <1>1, PadRequestAssumption
<1>3. DOMAIN cells = Cells
  BY DEF Init
<1> QED BY <1>1, <1>2, <1>3 DEF Init, Progress, Before, AppSteps, StreamSteps

LEMMA RequestProgress ==
  ASSUME Progress, NEW k \in Kinds, Request(k)
  PROVE  /\ Progress'
         /\ Len(requests') = Len(requests) + 1
         /\ \A i \in 1..Current : requests'[i] = requests[i]
         /\ requests'[Current + 1] = k
<1>1. requests \in Seq(Kinds) /\ requests' = Append(requests, k) /\ Current < MaxRequests
  BY DEF Progress, Request
<1>2. /\ requests' \in Seq(Kinds)
      /\ Len(requests') = Len(requests) + 1
      /\ \A i \in 1..Current : requests'[i] = requests[i]
      /\ requests'[Current + 1] = k
  BY <1>1, AppendProperties DEF Current
<1>3. Current \in Nat /\ Current' = Current + 1
  BY <1>1, <1>2, LenProperties DEF Current
<1>4. /\ apc = "idle" /\ apc' = "header"
      /\ UNCHANGED << section_length, length, initialised, collected, pids, cells, place, pcr, clock, spc >>
  BY DEF Request, AppStep, Publish, stream
<1>5. Progress'
  BY <1>1, <1>2, <1>3, <1>4, PadRequestAssumption DEF Progress, Before, AppSteps, StreamSteps
<1> QED BY <1>2, <1>5

LEMMA OtherAppStepsProgress ==
  ASSUME Progress, RequestPad, UNCHANGED requests
  PROVE  Progress'
<1>1. Current \in Nat /\ Current' = Current
  BY LenProperties DEF Progress, Current
<1>2. ASSUME NEW k \in Kinds, Request(k) PROVE FALSE
  BY <1>1, <1>2, RequestProgress DEF Current
<1> USE DEF Progress, Before, AppSteps, StreamSteps, AppStep, app, stream
<1>3. CASE InitHeader
  BY <1>1, <1>3 DEF InitHeader
<1>4. CASE Grow
  BY <1>1, <1>4 DEF Grow, Grown
<1>5. CASE WriteLength
  BY <1>1, <1>5 DEF WriteLength
<1>6. CASE WriteType
  BY <1>1, <1>6 DEF WriteType
<1>7. CASE SetPid
  <2>1. Kind \in Kinds
    BY <1>1, <1>7, ElementOfSeq DEF SetPid, Kind, Current
  <2> QED BY <1>1, <1>7, <2>1 DEF SetPid
<1>8. CASE WriteEntry
  BY <1>1, <1>8 DEF WriteEntry
<1>9. CASE ComputeCrc
  BY <1>1, <1>9 DEF ComputeCrc
<1>10. CASE StoreCrc
  BY <1>1, <1>10 DEF StoreCrc, Stored
<1>11. CASE CollectPad
  BY <1>1, <1>11 DEF CollectPad
<1> QED
  BY <1>2, <1>3, <1>4, <1>5, <1>6, <1>7, <1>8, <1>9, <1>10, <1>11 DEF RequestPad

(* The streaming thread leaves the application's fields alone.             *)
LEMMA StreamingKeepsApp ==
  ASSUME Streaming PROVE UNCHANGED << apc, app >>
BY DEF Streaming, PickClock, SetPcr, ComputePcrCrc, LocatePcrCrc, StorePcrCrc, MarkReference, WriteFrame,
       BeginPmt, CopyLength, CopyPcr, CopyCell, CopyPart, EndPmt

LEMMA StreamingProgress ==
  ASSUME Progress, Streaming PROVE Progress'
<1>1. UNCHANGED << apc, app >>
  BY StreamingKeepsApp
<1>2. spc' \in StreamSteps /\ pcr' \in Kinds \cup {"none"} /\ clock' \in Kinds \cup {"none"}
  BY DEF Progress, StreamSteps, Kinds, Streaming, PickClock, SetPcr, ComputePcrCrc, LocatePcrCrc, StorePcrCrc,
         MarkReference, WriteFrame, BeginPmt, CopyLength, CopyPcr, CopyCell, CopyPart, EndPmt
<1>3. DOMAIN cells' = Cells
  BY DEF Progress, Streaming, PickClock, SetPcr, ComputePcrCrc, LocatePcrCrc, StorePcrCrc,
         MarkReference, WriteFrame, BeginPmt, CopyLength, CopyPcr, CopyCell, CopyPart, EndPmt
<1>4. place' \in 0..(section_length + 1)
  <2>1. section_length \in Nat
    BY LenProperties DEF Progress, Before, Current
  <2>2. place' = place \/ place' = section_length + 1 \/ place' = 0
    BY DEF Streaming, PickClock, SetPcr, ComputePcrCrc, LocatePcrCrc, StorePcrCrc, MarkReference,
           WriteFrame, BeginPmt, CopyLength, CopyPcr, CopyCell, CopyPart, EndPmt
  <2> QED BY <2>1, <2>2 DEF Progress
<1> QED BY <1>1, <1>2, <1>3, <1>4 DEF Progress, Before, Current, app

LEMMA RequestPadCases ==
  ASSUME RequestPad
  PROVE  (\E k \in Kinds : Request(k)) \/ UNCHANGED requests
BY DEF RequestPad, InitHeader, Grow, WriteLength, WriteType, SetPid, WriteEntry, ComputeCrc,
       StoreCrc, CollectPad, app

LEMMA NextProgress ==
  ASSUME Progress, [Next]_vars PROVE Progress'
<1>1. CASE UNCHANGED vars
  BY <1>1 DEF vars, app, stream, Progress, Before, Current
<1>2. CASE RequestPad
  BY <1>2, RequestPadCases, RequestProgress, OtherAppStepsProgress
<1>3. CASE Streaming
  BY <1>3, StreamingProgress
<1> QED BY <1>1, <1>2, <1>3 DEF Next

-----------------------------------------------------------------------------
(* A pointer leads to the last stream of its kind, and is set before the   *)
(* pid is: so the clock, once picked, has a stream.                        *)
Pointers ==
  /\ published \in [Kinds -> Nat]
  /\ \A k \in Kinds : published[k] # 0 =>
       published[k] \in 1..Current /\ requests[published[k]] = k
  /\ \A i \in 1..Current : published[requests[i]] # 0
  /\ \A k \in pids : published[k] # 0
  /\ spc \in {"pcr", "compute", "locate", "store", "mark"} => clock \in Kinds /\ published[clock] # 0
  /\ spc # "crashed"

LEMMA InitPointers == Init => Pointers
BY DEF Init, Pointers, Current

LEMMA NextPointers ==
  ASSUME Progress, Progress', Pointers, [Next]_vars PROVE Pointers'
<1>0. requests \in Seq(Kinds) /\ Current \in Nat
  BY LenProperties DEF Progress, Current
<1>1. CASE UNCHANGED << requests, published, pids, spc, clock >>
  BY <1>1 DEF Pointers, Current
<1>2. ASSUME NEW k \in Kinds, Request(k) PROVE Pointers'
  <2>1. /\ Current' = Current + 1
        /\ \A i \in 1..Current : requests'[i] = requests[i]
        /\ requests'[Current + 1] = k
    BY <1>2, RequestProgress DEF Current
  <2>2. /\ published' = [published EXCEPT ![k] = Current + 1]
        /\ UNCHANGED << pids, spc, clock >>
    BY <1>2 DEF Request, Publish, AppStep, stream
  <2>3. published' \in [Kinds -> Nat]
    BY <1>0, <2>2 DEF Pointers
  <2>4. ASSUME NEW j \in Kinds, published'[j] # 0
        PROVE  published'[j] \in 1..Current' /\ requests'[published'[j]] = j
    BY <1>0, <2>1, <2>2, <2>4 DEF Pointers
  <2>5. \A j \in Kinds : published[j] # 0 => published'[j] # 0
    BY <1>0, <2>2 DEF Pointers
  <2>6. ASSUME NEW i \in 1..Current' PROVE published'[requests'[i]] # 0
    <3>1. CASE i = Current + 1
      BY <1>0, <2>1, <2>2, <3>1 DEF Pointers
    <3>2. CASE i \in 1..Current
      <4>1. requests[i] \in Kinds
        BY <1>0, <3>2, ElementOfSeq DEF Current
      <4> QED BY <2>1, <2>5, <3>2, <4>1 DEF Pointers
    <3> QED BY <1>0, <2>1, <3>1, <3>2
  <2>7. pids \subseteq Kinds
    BY DEF Progress
  <2> QED BY <2>2, <2>3, <2>4, <2>5, <2>6, <2>7 DEF Pointers
<1>3. CASE SetPid
  <2>1. /\ pids' = pids \cup {requests[Current]} /\ Current > 0
        /\ UNCHANGED << requests, published, spc, clock >>
    BY <1>3 DEF SetPid, AppStep, Kind, stream, Progress
  <2>2. published[requests[Current]] # 0
    BY <1>0, <2>1 DEF Pointers
  <2>3. \A k \in pids' : published'[k] # 0
    BY <2>1, <2>2 DEF Pointers
  <2> QED BY <2>1, <2>3 DEF Pointers, Current
<1>4. CASE PickClock
  <2>1. UNCHANGED << requests, published, pids >> /\ clock' = (IF "video" \in pids THEN "video"
          ELSE IF "audio" \in pids THEN "audio" ELSE "none")
        /\ spc' = IF pids = {} THEN "ready" ELSE "pcr"
    BY <1>4 DEF PickClock, app
  <2>2. pids # {} => clock' \in Kinds /\ clock' \in pids
    BY <2>1 DEF Progress, Kinds
  <2> QED BY <2>1, <2>2 DEF Pointers, Current
<1>5. CASE UNCHANGED << requests, published, pids, clock >> /\ spc' \in {"compute", "locate", "store", "mark", "ready", "copy"}
           /\ (spc' \in {"compute", "locate", "store", "mark"} => spc \in {"pcr", "compute", "locate", "store"})
  BY <1>5 DEF Pointers, Current
<1>6. CASE MarkReference
  <2>1. spc' = "ready"
    BY <1>6 DEF MarkReference, Pointers
  <2> QED BY <1>6, <2>1 DEF MarkReference, app, Pointers, Current
<1>7. CASE RequestPad
  <2>1. (\E k \in Kinds : Request(k)) \/ SetPid \/ UNCHANGED << requests, published, pids, spc, clock >>
    BY <1>7 DEF RequestPad, InitHeader, Grow, WriteLength, WriteType, WriteEntry, ComputeCrc,
                StoreCrc, CollectPad, AppStep, app, stream
  <2> QED BY <1>1, <1>2, <1>3, <2>1
<1>8. CASE Streaming
  <2>1. CASE PickClock \/ MarkReference
    BY <1>4, <1>6, <2>1
  <2>2. CASE SetPcr \/ ComputePcrCrc \/ LocatePcrCrc \/ StorePcrCrc \/ BeginPmt \/ EndPmt
    BY <1>5, <2>2 DEF SetPcr, ComputePcrCrc, LocatePcrCrc, StorePcrCrc, BeginPmt, EndPmt, app
  <2>3. CASE (\E r \in collected : WriteFrame(r)) \/ CopyLength \/ CopyPcr \/ (\E i \in Cells : CopyCell(i))
    BY <1>1, <2>3 DEF WriteFrame, CopyLength, CopyPcr, CopyCell, CopyPart, app
  <2> QED BY <1>8, <2>1, <2>2, <2>3 DEF Streaming
<1> QED BY <1>1, <1>7, <1>8 DEF Next, vars, app, stream

(* The first callback never marks a stream that is not there: the pid by   *)
(* which it picks one is set after the pointer (sptsmuxer.c:264-269).      *)
THEOREM ClockAlwaysHasStream == Spec => []ClockHasStream
<1>1. Init => Progress /\ Pointers
  BY InitProgress, InitPointers
<1>2. (Progress /\ Pointers) /\ [Next]_vars => (Progress /\ Pointers)'
  BY NextProgress, NextPointers
<1>3. Pointers => ClockHasStream
  BY DEF Pointers, ClockHasStream
<1> QED BY <1>1, <1>2, <1>3, PTL DEF Spec

(* Types: a lemma of the two.                                              *)
THEOREM PadRequestTypeCorrect == Spec => []TypeOK
<1>1. Init => Progress /\ Pointers
  BY InitProgress, InitPointers
<1>2. (Progress /\ Pointers) /\ [Next]_vars => (Progress /\ Pointers)'
  BY NextProgress, NextPointers
<1>3. Progress /\ Pointers => TypeOK
  <2> SUFFICES ASSUME Progress, Pointers PROVE TypeOK
    OBVIOUS
  <2>1. Current \in Nat
    BY LenProperties DEF Progress, Current
  <2>2. published \in [Kinds -> 0..Current]
    BY <2>1 DEF Pointers
  <2>3. section_length \in 0..Current /\ length \in 0..section_length
    BY <2>1 DEF Progress, Before
  <2>4. initialised \subseteq 1..Current /\ collected \subseteq 1..Current
    BY <2>1 DEF Progress, Before
  <2> QED BY <2>2, <2>3, <2>4 DEF Progress, AppSteps, StreamSteps, TypeOK
<1> QED BY <1>1, <1>2, <1>3, PTL DEF Spec

-----------------------------------------------------------------------------
(* With one pad of each kind a frame finds the template of its own pad,    *)
(* which was initialised before the pad was collected.                     *)
LEMMA NextTemplates ==
  ASSUME Progress, Pointers, TemplatesReady, [Next]_vars PROVE TemplatesReady'
<1>0. requests \in Seq(Kinds) /\ Current \in Nat
  BY LenProperties DEF Progress, Current
<1>1. CASE UNCHANGED << requests, raw >>
  BY <1>1 DEF TemplatesReady, OnePerKind, Current
<1>2. ASSUME NEW k \in Kinds, Request(k) PROVE TemplatesReady'
  <2>1. /\ Current' = Current + 1
        /\ \A i \in 1..Current : requests'[i] = requests[i]
    BY <1>2, RequestProgress DEF Current
  <2>2. OnePerKind' => OnePerKind
    BY <1>0, <2>1 DEF OnePerKind
  <2>3. raw' = raw
    BY <1>2 DEF Request, AppStep, stream
  <2> QED BY <2>2, <2>3, Zenon DEF TemplatesReady
<1>3. ASSUME NEW r \in collected, WriteFrame(r) PROVE TemplatesReady'
  <2>1. UNCHANGED requests /\ r \in 1..Current /\ r \in initialised
    BY <1>0, <1>3 DEF WriteFrame, app, Progress, Before, AppSteps
  <2>2. OnePerKind' = OnePerKind
    BY <2>1 DEF OnePerKind, Current
  <2>3. requests[r] \in Kinds
    BY <1>0, <2>1, ElementOfSeq DEF Current
  <2>4. OnePerKind => published[requests[r]] = r
    BY <2>1, <2>3 DEF Pointers, OnePerKind
  <2>5. OnePerKind => ~(published[requests[r]] \notin initialised)
    BY <2>1, <2>4
  <2>6. raw' = (raw \/ published[requests[r]] \notin initialised)
    BY <1>3, Zenon DEF WriteFrame
  <2> QED BY <2>2, <2>5, <2>6, Zenon DEF TemplatesReady
<1>4. CASE RequestPad
  <2>1. raw' = raw
    BY <1>4 DEF RequestPad, Request, InitHeader, Grow, WriteLength, WriteType, SetPid, WriteEntry,
                ComputeCrc, StoreCrc, CollectPad, AppStep, stream
  <2> QED BY <1>1, <1>2, <1>4, <2>1, RequestPadCases
<1>5. CASE Streaming
  BY <1>1, <1>3, <1>5
  DEF Streaming, PickClock, SetPcr, ComputePcrCrc, LocatePcrCrc, StorePcrCrc, MarkReference,
      BeginPmt, CopyLength, CopyPcr, CopyCell, CopyPart, EndPmt, app
<1> QED BY <1>1, <1>4, <1>5 DEF Next, vars, app, stream

(* No frame is sent with a template that is not initialised (spts.c:328).  *)
THEOREM NoRawTemplates == Spec => []TemplatesReady
<1>1. Init => Progress /\ Pointers /\ TemplatesReady
  BY InitProgress, InitPointers DEF Init, TemplatesReady
<1>2. (Progress /\ Pointers /\ TemplatesReady) /\ [Next]_vars
        => (Progress /\ Pointers /\ TemplatesReady)'
  BY NextProgress, NextPointers, NextTemplates
<1> QED BY <1>1, <1>2, PTL DEF Spec

-----------------------------------------------------------------------------
(* The length in the packet only grows, and a pad is collected after its   *)
(* stream was counted in it.                                               *)
Fresh ==
  /\ flowing \subseteq collected
  /\ spc # "copy" => copied = NoCopy
  /\ copied.length \in (0..MaxRequests) \cup {-1}
  /\ copied.length # -1 => flowing \subseteq 1..copied.length
  /\ seen # << >> => seen[1].length \in Nat /\ flowing \subseteq 1..seen[1].length
  /\ DOMAIN copied = {"length", "pcr", "cells"} /\ DOMAIN copied.cells = Cells

LEMMA NoCopyFields ==
  /\ NoCopy.length = -1 /\ NoCopy.pcr = "missing"
  /\ DOMAIN NoCopy = {"length", "pcr", "cells"} /\ DOMAIN NoCopy.cells = Cells
  /\ \A i \in Cells : NoCopy.cells[i] = Missing
BY DEF NoCopy

LEMMA InitFresh == Init => Fresh
BY NoCopyFields DEF Init, Fresh

LEMMA CopyKeepsFresh ==
  ASSUME Progress, Fresh, NEW copy, CopyPart(copy),
         DOMAIN copy = {"length", "pcr", "cells"}, DOMAIN copy.cells = Cells,
         copy.length = copied.length \/ copy.length = length
  PROVE  Fresh'
<1>1. /\ spc = "copy" /\ spc' = "copy" /\ copied' = copy
      /\ UNCHANGED << flowing, seen, collected >>
  BY DEF CopyPart, app
<1>2. requests \in Seq(Kinds) /\ Current \in Nat
  BY LenProperties DEF Progress, Current
<1>3. length \in 0..MaxRequests /\ collected \subseteq 1..length
  BY <1>2, PadRequestAssumption DEF Progress, Before, AppSteps
<1>4. copy.length \in (0..MaxRequests) \cup {-1} /\ (copy.length # -1 => flowing \subseteq 1..copy.length)
  BY <1>3 DEF Fresh
<1> QED BY <1>1, <1>4 DEF Fresh

LEMMA NextFresh ==
  ASSUME Progress, Fresh, [Next]_vars PROVE Fresh'
<1>1. CASE collected \subseteq collected' /\ UNCHANGED << spc, flowing, copied, seen >>
  BY <1>1 DEF Fresh
<1>2. CASE RequestPad
  <2>1. collected \subseteq collected' /\ UNCHANGED stream
    BY <1>2 DEF RequestPad, Request, Publish, InitHeader, Grow, WriteLength, WriteType, SetPid, WriteEntry,
                ComputeCrc, StoreCrc, CollectPad, AppStep, app
  <2> QED BY <1>1, <2>1 DEF stream
<1>3. CASE PickClock \/ SetPcr \/ ComputePcrCrc \/ LocatePcrCrc \/ StorePcrCrc \/ MarkReference
           \/ \E r \in collected : WriteFrame(r)
  <2>1. UNCHANGED << collected, flowing, copied, seen >> /\ spc # "copy"
    BY <1>3 DEF PickClock, SetPcr, ComputePcrCrc, LocatePcrCrc, StorePcrCrc, MarkReference, WriteFrame, app
  <2> QED BY <2>1 DEF Fresh
<1>4. CASE BeginPmt
  <2>1. /\ spc = "ready" /\ flowing' = collected /\ seen' = << >>
        /\ UNCHANGED << collected, copied >>
    BY <1>4 DEF BeginPmt, app
  <2> QED BY <2>1, NoCopyFields DEF Fresh
<1>5. CASE CopyLength
  BY <1>5, CopyKeepsFresh DEF CopyLength, Fresh
<1>6. CASE CopyPcr
  BY <1>6, CopyKeepsFresh DEF CopyPcr, Fresh
<1>7. ASSUME NEW i \in Cells, CopyCell(i) PROVE Fresh'
  BY <1>7, CopyKeepsFresh DEF CopyCell, Fresh
<1>8. CASE EndPmt
  <2>1. /\ copied.length # -1 /\ copied' = NoCopy
        /\ UNCHANGED << collected, flowing >>
    BY <1>8 DEF EndPmt, app
  <2>2. seen' # << >> => seen'[1].length = copied.length
    BY <1>8 DEF EndPmt, Bytes
  <2> QED BY <2>1, <2>2, NoCopyFields DEF Fresh
<1>9. CASE UNCHANGED vars
  BY <1>1, <1>9 DEF vars, app, stream
<1> QED BY <1>2, <1>3, <1>4, <1>5, <1>6, <1>7, <1>8, <1>9 DEF Next, Streaming

(* The entries in front, the one being written included, are whole unless  *)
(* a CRC was stored over one of them; and so is what was copied of them.   *)
Laid ==
  /\ \A i \in 1..Added : cells[i] = Entry(requests[i])
  /\ apc \in {"pid", "entry"} => cells[Current] = Torn(Kind)
  /\ apc \in {"crc", "store"} => cells[Current] = Entry(Kind)

Held ==
  /\ \A r \in flowing : copied.cells[r] = Missing \/ copied.cells[r] = Entry(requests[r])
  /\ seen # << >> => \A r \in flowing : seen[1].entries[r] = Entry(requests[r])

Kept == ~displaced => Laid /\ Held

LEMMA InitKept == Init => Kept
<1> SUFFICES ASSUME Init PROVE Laid /\ Held
  BY DEF Kept
<1>1. Current = 0 /\ apc = "idle" /\ flowing = {} /\ seen = << >>
  BY DEF Init, Current
<1> QED BY <1>1 DEF Laid, Held, Added

(* A request writes to the cells of its own entry and of the CRC after it. *)
LEMMA RequestPadLaid ==
  ASSUME Progress, Laid, RequestPad PROVE Laid'
<1>1. /\ requests \in Seq(Kinds) /\ Current \in Nat
      /\ apc # "idle" => Current \in Cells /\ Current + 1 \in Cells
  BY LenProperties, PadRequestAssumption DEF Progress, Current, Cells
<1>2. ASSUME NEW k \in Kinds, Request(k) PROVE Laid'
  <2>1. Current' = Current + 1 /\ \A i \in 1..Current : requests'[i] = requests[i]
    BY <1>2, RequestProgress DEF Current
  <2>2. apc = "idle" /\ apc' = "header" /\ cells' = cells
    BY <1>2 DEF Request, AppStep
  <2> QED BY <1>1, <2>1, <2>2 DEF Laid, Added
<1>3. ASSUME UNCHANGED requests PROVE Laid'
  <2>1. Current' = Current /\ Kind' = Kind
    BY <1>3 DEF Current, Kind
  <2>2. ASSUME NEW k \in Kinds, Request(k) PROVE Laid'
    BY <1>2, <2>2
  <2>3. CASE InitHeader \/ Grow \/ WriteLength \/ SetPid \/ ComputeCrc \/ CollectPad
    BY <1>1, <1>3, <2>1, <2>3
    DEF InitHeader, Grow, WriteLength, SetPid, ComputeCrc, CollectPad, AppStep, Laid, Added
  <2>4. CASE WriteType
    <3>1. /\ apc = "type" /\ apc' = "pid" /\ cells'[Current] = Torn(Kind)
          /\ \A i \in 1..(Current - 1) : cells'[i] = cells[i]
      BY <1>1, <2>4 DEF WriteType, AppStep, Progress, Cells
    <3> QED BY <1>1, <1>3, <2>1, <3>1 DEF Laid, Added
  <2>5. CASE WriteEntry
    <3>1. /\ apc = "entry" /\ apc' = "crc" /\ cells'[Current] = Finish(cells[Current])
          /\ \A i \in 1..(Current - 1) : cells'[i] = cells[i]
      BY <1>1, <2>5 DEF WriteEntry, AppStep, Progress, Cells
    <3>2. Finish(cells[Current]) = Entry(Kind)
      BY <3>1 DEF Laid, Finish
    <3> QED BY <1>1, <1>3, <2>1, <3>1, <3>2 DEF Laid, Added
  <2>6. CASE StoreCrc
    <3>1. /\ apc = "store" /\ apc' = "collect"
          /\ \A i \in 1..Current : cells'[i] = cells[i]
      BY <1>1, <2>6 DEF StoreCrc, Stored, AppStep, Progress, Cells
    <3>2. \A i \in 1..Current : cells[i] = Entry(requests[i])
      BY <1>1, <3>1 DEF Laid, Added, Kind
    <3> QED BY <1>1, <1>3, <2>1, <3>1, <3>2 DEF Laid, Added
  <2> QED BY <2>2, <2>3, <2>4, <2>5, <2>6 DEF RequestPad
<1> QED BY <1>2, <1>3, RequestPadCases

(* The streaming thread stores one CRC, at the place that it found before: *)
(* that is no entry, unless it is displaced.                               *)
LEMMA StreamingLaid ==
  ASSUME Progress, Laid, Streaming, ~displaced' PROVE Laid'
<1>1. UNCHANGED << apc, requests >> /\ Current' = Current /\ Kind' = Kind /\ Added' = Added
  BY StreamingKeepsApp DEF app, Current, Kind, Added
<1>2. requests \in Seq(Kinds) /\ Current \in Nat /\ \A i \in 1..Current : requests[i] \in Kinds
  BY LenProperties DEF Progress, Current
<1>3. /\ Added \in Nat /\ Added <= Current /\ 1..Current \subseteq Cells
      /\ apc # "idle" => Current \in 1..Current
  BY <1>2, PadRequestAssumption DEF Progress, Added, Cells
<1>4. \A i \in Cells : IsEntry(cells[i]) => cells'[i] = cells[i]
  <2>1. CASE StorePcrCrc
    <3>1. displaced' = (displaced \/ IsEntry(cells[place])) /\ cells' = [cells EXCEPT ![place] = Crc(scrc)]
      BY <2>1, Zenon DEF StorePcrCrc
    <3>2. ~IsEntry(cells[place])
      BY <3>1, Zenon
    <3> QED BY <3>1, <3>2 DEF Progress
  <2>2. CASE ~StorePcrCrc
    BY <2>2 DEF Streaming, PickClock, SetPcr, ComputePcrCrc, LocatePcrCrc, MarkReference, WriteFrame,
                BeginPmt, CopyLength, CopyPcr, CopyCell, CopyPart, EndPmt
  <2> QED BY <2>1, <2>2
<1>5. \A k \in Kinds : IsEntry(Entry(k)) /\ IsEntry(Torn(k))
  BY DEF IsEntry
<1>6. \A i \in 1..Added : cells'[i] = Entry(requests'[i])
  BY <1>1, <1>2, <1>3, <1>4, <1>5 DEF Laid
<1>7. apc \in {"pid", "entry", "crc", "store"} => cells'[Current] = cells[Current]
  BY <1>2, <1>3, <1>4, <1>5 DEF Laid, Kind
<1> QED BY <1>1, <1>6, <1>7 DEF Laid

LEMMA RequestPadHeld ==
  ASSUME Progress, Fresh, Held, RequestPad PROVE Held'
<1>1. UNCHANGED << flowing, copied, seen >>
  BY DEF RequestPad, Request, InitHeader, Grow, WriteLength, WriteType, SetPid, WriteEntry,
         ComputeCrc, StoreCrc, CollectPad, AppStep, stream
<1>2. requests \in Seq(Kinds) /\ Current \in Nat /\ flowing \subseteq 1..Current
  BY LenProperties DEF Progress, Current, Fresh, Before
<1>3. \A r \in flowing : requests'[r] = requests[r]
  BY <1>2, RequestPadCases, RequestProgress DEF Current
<1> QED BY <1>1, <1>3 DEF Held

LEMMA StreamingHeld ==
  ASSUME Progress, Fresh, Laid, Held, Streaming PROVE Held'
<1>1. UNCHANGED << requests, collected >>
  BY StreamingKeepsApp DEF app
<1>2. requests \in Seq(Kinds) /\ Current \in Nat
  BY LenProperties DEF Progress, Current
<1>3. flowing \subseteq 1..Added /\ flowing \subseteq Cells
  BY <1>2, PadRequestAssumption DEF Progress, Fresh, Before, AppSteps, Added, Cells
<1>4. CASE UNCHANGED << flowing, copied, seen >>
  BY <1>1, <1>4 DEF Held
<1>5. CASE BeginPmt
  <2>1. spc = "ready" /\ seen' = << >> /\ copied' = copied /\ flowing' = collected
    BY <1>5 DEF BeginPmt
  <2>2. copied = NoCopy /\ collected \subseteq Cells
    BY <1>2, <2>1, PadRequestAssumption DEF Fresh, Progress, Before, Cells
  <2> QED BY <2>1, <2>2, NoCopyFields DEF Held
<1>6. CASE CopyLength \/ CopyPcr
  <2>1. UNCHANGED << flowing, seen >> /\ copied'.cells = copied.cells
    BY <1>6 DEF CopyLength, CopyPcr, CopyPart, Fresh
  <2> QED BY <1>1, <2>1 DEF Held
<1>7. ASSUME NEW i \in Cells, CopyCell(i) PROVE Held'
  <2>1. UNCHANGED << flowing, seen >> /\ copied' = [copied EXCEPT !.cells[i] = cells[i]]
    BY <1>7 DEF CopyCell, CopyPart
  <2>2. \A r \in Cells : copied'.cells[r] = IF r = i THEN cells[i] ELSE copied.cells[r]
    BY <2>1 DEF Fresh
  <2>3. \A r \in flowing : cells[r] = Entry(requests[r])
    BY <1>3 DEF Laid
  <2> QED BY <1>1, <1>3, <2>1, <2>2, <2>3 DEF Held
<1>8. CASE EndPmt
  <2>1. copied' = NoCopy /\ flowing' = flowing /\ copied.length # -1
        /\ \A r \in Cells : copied.cells[r] # Missing
    BY <1>8 DEF EndPmt
  <2>2. seen' # << >> => seen'[1].entries = [r \in 1..copied.length |-> copied.cells[r]]
    BY <1>8 DEF EndPmt, Bytes
  <2>3. flowing \subseteq 1..copied.length
    BY <2>1 DEF Fresh
  <2>4. \A r \in flowing : copied.cells[r] = Entry(requests[r])
    BY <1>3, <2>1 DEF Held
  <2> QED BY <1>1, <1>3, <2>1, <2>2, <2>3, <2>4, NoCopyFields DEF Held
<1> QED
  BY <1>4, <1>5, <1>6, <1>7, <1>8
  DEF Streaming, PickClock, SetPcr, ComputePcrCrc, LocatePcrCrc, StorePcrCrc, MarkReference, WriteFrame

LEMMA NextKept ==
  ASSUME Progress, Fresh, Kept, [Next]_vars PROVE Kept'
<1>1. CASE UNCHANGED vars
  BY <1>1 DEF vars, app, stream, Kept, Laid, Held, Added, Current, Kind
<1>2. CASE RequestPad
  <2>1. displaced' = displaced
    BY <1>2, Zenon DEF RequestPad, Request, InitHeader, Grow, WriteLength, WriteType, SetPid, WriteEntry,
                ComputeCrc, StoreCrc, CollectPad, AppStep
  <2> QED BY <1>2, <2>1, RequestPadLaid, RequestPadHeld, Zenon DEF Kept
<1>3. CASE Streaming
  <2>1. displaced' = displaced \/ displaced' = (displaced \/ IsEntry(cells[place]))
    BY <1>3, Zenon
    DEF Streaming, PickClock, SetPcr, ComputePcrCrc, LocatePcrCrc, StorePcrCrc, MarkReference,
        WriteFrame, BeginPmt, CopyLength, CopyPcr, CopyCell, CopyPart, EndPmt
  <2>2. ~displaced' => ~displaced
    BY <2>1, Zenon
  <2> QED BY <1>3, <2>2, StreamingLaid, StreamingHeld, Zenon DEF Kept
<1> QED BY <1>1, <1>2, <1>3 DEF Next

(* Whatever the interleaving, a PMT that is accepted lists every stream    *)
(* that was flowing when it was begun, with its own entry: unless the late *)
(* CRC of the first callback went over an entry.                           *)
THEOREM AcceptedAlwaysFresh == Spec => []AcceptedFresh
<1>1. Init => Progress /\ Fresh /\ Kept
  BY InitProgress, InitFresh, InitKept
<1>2. (Progress /\ Fresh /\ Kept) /\ [Next]_vars => (Progress /\ Fresh /\ Kept)'
  BY NextProgress, NextFresh, NextKept
<1>3. Fresh /\ Kept => AcceptedFresh
  <2> SUFFICES ASSUME Fresh, Kept, ~displaced, seen # << >>, NEW r \in flowing
               PROVE  r \in 1..seen[1].length /\ seen[1].entries[r] = Entry(requests[r])
    BY DEF AcceptedFresh
  <2>1. Held
    BY DEF Kept
  <2> QED BY <2>1 DEF Fresh, Held
<1> QED BY <1>1, <1>2, <1>3, PTL DEF Spec

-----------------------------------------------------------------------------
(* The bytes of the section, unless both threads were at it at once.       *)

(* Bytes that are a section of streams that were requested.                *)
Genuine(b)     == b.length \in 0..Current /\ b.entries = Lists(b.length)
GenuineCrc(cell) == \A b : cell = Crc(b) => Genuine(b)
Whole(n)       == [length |-> n, pcr |-> clock, entries |-> Lists(n)]

(* Every CRC, wherever it is by now, was computed over such bytes.         *)
Covered ==
  /\ \A i \in Cells : GenuineCrc(cells[i]) /\ GenuineCrc(copied.cells[i])
  /\ apc = "store" => Genuine(acrc)
  /\ spc \in {"locate", "store"} => Genuine(scrc)
  /\ seen # << >> => Genuine(seen[1])

(* No entry is beyond the end of the section.                              *)
Beyond == \A i \in Cells : IsEntry(cells[i]) => i <= section_length

(* The CRC behind the last entry, or about to go there, covers them all    *)
(* and the clock.                                                          *)
Complete ==
  /\ apc \in {"idle", "collect", "header", "grow"} /\ spc \in {"mark", "ready", "copy"} =>
       cells[Added + 1] = Crc(Whole(Added))
  /\ apc = "store" /\ spc \in {"mark", "ready", "copy"} => acrc = Whole(Current)
  /\ spc \in {"locate", "store"} => scrc = Whole(Added)
  /\ spc = "store" => place = Added + 1

(* The clock in the packet is the one that was picked.                     *)
Clocked ==
  /\ spc \in {"compute", "locate", "store", "mark", "ready", "copy"} => pcr = clock
  /\ copied.pcr \in {"missing", clock}
  /\ seen # << >> => seen[1].pcr = clock /\ spc \in {"ready", "copy"}

Section ==
  /\ Overlap => clash
  /\ ~clash => Covered /\ Complete /\ ~displaced

LEMMA CellsDiffer ==
  /\ \A b, c : Crc(b) = Crc(c) => b = c
  /\ \A b, k : Crc(b) # Entry(k) /\ Crc(b) # Torn(k)
  /\ \A b : Crc(b) # Fill /\ Crc(b) # Missing
BY DEF Crc, Entry, Torn, Fill, Missing

LEMMA LaidBytes ==
  ASSUME NEW n \in Nat, \A i \in 1..n : cells[i] = Entry(requests[i])
  PROVE  Bytes(n, n, pcr, cells) = [length |-> n, pcr |-> pcr, entries |-> Lists(n)]
<1>1. [i \in 1..n |-> cells[i]] = Lists(n)
  BY DEF Lists
<1> QED BY <1>1 DEF Bytes

LEMMA InitBeyond == Init => Beyond
BY DEF Init, Beyond, IsEntry, Fill, Torn, Entry

LEMMA NextBeyond == ASSUME Progress, Beyond, [Next]_vars PROVE Beyond'
<1>1. section_length \in Nat /\ (apc \in {"type", "entry"} => Current = section_length)
  BY LenProperties, PadRequestAssumption DEF Progress, Before, Current
<1>2. \A b : ~IsEntry(Crc(b))
  BY CellsDiffer DEF IsEntry
<1>3. CASE UNCHANGED cells /\ section_length' \in {section_length, section_length + 1}
  <2>1. Cells \subseteq Int /\ section_length <= section_length' /\ section_length' \in Int
    BY <1>1, <1>3 DEF Cells
  <2>2. \A i \in Cells : IsEntry(cells'[i]) => i <= section_length
    BY <1>3 DEF Beyond
  <2>3. \A i \in Cells : IsEntry(cells'[i]) => i <= section_length'
    BY <1>1, <2>1, <2>2
  <2> QED BY <2>3 DEF Beyond
<1>4. CASE WriteType \/ WriteEntry
  <2>1. /\ section_length' = section_length /\ Current = section_length
        /\ \A i \in Cells : i # Current => cells'[i] = cells[i]
    BY <1>1, <1>4 DEF WriteType, WriteEntry, AppStep, app, Progress
  <2> QED BY <1>1, <2>1 DEF Beyond
<1>5. CASE StoreCrc \/ StorePcrCrc
  <2>1. /\ section_length' = section_length
        /\ \A i \in Cells : cells'[i] = cells[i] \/ cells'[i] \in {Crc(acrc), Crc(scrc)}
    BY <1>5 DEF StoreCrc, Stored, AppStep, StorePcrCrc, app, Progress
  <2> QED BY <1>2, <2>1 DEF Beyond
<1>6. CASE UNCHANGED vars
  BY <1>3, <1>6 DEF vars, app
<1>7. CASE RequestPad
  BY <1>3, <1>4, <1>5, <1>7
  DEF RequestPad, Request, InitHeader, Grow, Grown, WriteLength, SetPid, ComputeCrc, CollectPad, AppStep
<1>8. CASE Streaming
  BY <1>3, <1>5, <1>8
  DEF Streaming, PickClock, SetPcr, ComputePcrCrc, LocatePcrCrc, MarkReference, WriteFrame,
      BeginPmt, CopyLength, CopyPcr, CopyCell, CopyPart, EndPmt, app
<1> QED BY <1>6, <1>7, <1>8 DEF Next

LEMMA InitClocked == Init => Clocked
BY NoCopyFields DEF Init, Clocked

LEMMA NextClocked ==
  ASSUME Progress, Fresh, Clocked, [Next]_vars PROVE Clocked'
<1>1. CASE UNCHANGED << spc, pcr, clock, copied, seen >>
  BY <1>1 DEF Clocked
<1>2. CASE RequestPad
  <2>1. UNCHANGED stream
    BY <1>2 DEF RequestPad, Request, InitHeader, Grow, WriteLength, WriteType, SetPid, WriteEntry,
                ComputeCrc, StoreCrc, CollectPad, AppStep
  <2> QED BY <1>1, <2>1 DEF stream
<1>3. CASE PickClock
  <2>1. spc = "first" /\ spc' \in {"pcr", "ready"} /\ UNCHANGED << pcr, copied, seen >>
    BY <1>3 DEF PickClock
  <2>2. copied.pcr = "missing" /\ seen = << >>
    BY <2>1, NoCopyFields DEF Fresh, Clocked
  <2>3. spc' # "ready"
    <3>1. requests \in Seq(Kinds) /\ Current \in Nat
      BY LenProperties DEF Progress, Current
    <3>2. Before(AppSteps \ {"idle"}) > 0
      BY <1>3, <3>1 DEF PickClock, Progress, Before
    <3>3. Before({"header", "grow", "length", "type", "pid"}) > 0
      BY <3>1, <3>2 DEF Before, AppSteps
    <3> QED BY <1>3, <3>3 DEF PickClock, Progress
  <2> QED BY <2>1, <2>2, <2>3 DEF Clocked
<1>4. CASE SetPcr
  BY <1>4 DEF SetPcr, Clocked
<1>5. CASE ComputePcrCrc \/ LocatePcrCrc \/ StorePcrCrc \/ MarkReference
  BY <1>5 DEF ComputePcrCrc, LocatePcrCrc, StorePcrCrc, MarkReference, Clocked
<1>6. ASSUME NEW r \in collected, WriteFrame(r) PROVE Clocked'
  BY <1>1, <1>6 DEF WriteFrame
<1>7. CASE BeginPmt
  BY <1>7 DEF BeginPmt, Clocked
<1>8. CASE CopyLength
  BY <1>8 DEF CopyLength, CopyPart, Clocked, Fresh
<1>9. CASE CopyPcr
  <2>1. copied'.pcr = pcr /\ spc = "copy" /\ UNCHANGED << spc, pcr, clock, seen >>
    BY <1>9 DEF CopyPcr, CopyPart, Fresh
  <2> QED BY <2>1 DEF Clocked
<1>10. ASSUME NEW i \in Cells, CopyCell(i) PROVE Clocked'
  BY <1>10 DEF CopyCell, CopyPart, Clocked, Fresh
<1>11. CASE EndPmt
  <2>1. /\ spc = "copy" /\ spc' = "ready" /\ copied.pcr # "missing" /\ copied' = NoCopy
        /\ UNCHANGED << pcr, clock >>
    BY <1>11 DEF EndPmt
  <2>2. seen' # << >> => seen'[1].pcr = copied.pcr
    BY <1>11 DEF EndPmt, Bytes
  <2> QED BY <2>1, <2>2, NoCopyFields DEF Clocked
<1> QED
  BY <1>1, <1>2, <1>3, <1>4, <1>5, <1>6, <1>7, <1>8, <1>9, <1>10, <1>11
  DEF Next, Streaming, vars, stream

(* What the lemmas of the single steps start from.                         *)
Steady == Progress /\ Progress' /\ Fresh /\ Kept /\ Beyond /\ Clocked /\ Section /\ ~clash

LEMMA SteadyFacts ==
  ASSUME Steady
  PROVE  /\ requests \in Seq(Kinds) /\ Current \in Nat /\ Current <= MaxRequests
         /\ MaxRequests \in Nat
         /\ Added = Before(AppSteps \ {"idle", "collect"}) /\ Added \in 0..Current
         /\ Laid /\ Covered /\ Complete /\ ~Overlap /\ ~displaced
<1>1. requests \in Seq(Kinds) /\ Current \in Nat
  BY LenProperties DEF Steady, Progress, Current
<1>2. Added = Before(AppSteps \ {"idle", "collect"})
  BY AddedIsBefore DEF Steady
<1>3. Added \in 0..Current
  BY <1>1 DEF Steady, Progress, Added
<1>4. Laid /\ Covered /\ Complete /\ ~displaced /\ ~Overlap
  BY Zenon DEF Steady, Section, Kept
<1> QED BY <1>1, <1>2, <1>3, <1>4, PadRequestAssumption DEF Steady, Progress

LEMMA RequestSection ==
  ASSUME Steady, NEW k \in Kinds, Request(k)
  PROVE  Covered' /\ Complete'
<1>1. /\ Laid /\ Covered /\ Complete /\ Current \in Nat
  BY SteadyFacts
<1>2. /\ Current' = Current + 1
      /\ \A i \in 1..Current : requests'[i] = requests[i]
  BY RequestProgress DEF Steady, Current
<1>3. /\ apc = "idle" /\ apc' = "header"
      /\ UNCHANGED << cells, copied, spc, scrc, place, seen, clock >>
  BY DEF Request, AppStep, stream
<1>4. Added = Current /\ Added' = Added
  BY <1>1, <1>2, <1>3 DEF Added
<1>5. \A n \in 0..Current : Lists(n)' = Lists(n)
  BY <1>1, <1>2 DEF Lists
<1>6. \A b : Genuine(b) => Genuine(b)'
  BY <1>1, <1>2, <1>5 DEF Genuine
<1>7. Covered'
  BY <1>1, <1>3, <1>6 DEF Covered, GenuineCrc
<1>8. Whole(Added)' = Whole(Added)
  BY <1>1, <1>3, <1>4, <1>5 DEF Whole
<1>9. Complete'
  BY <1>1, <1>3, <1>4, <1>8 DEF Complete
<1> QED BY <1>7, <1>9

(* Steps within a request that leave the packet's cells alone, or fill in  *)
(* the current entry.                                                      *)
LEMMA EntrySection ==
  ASSUME Steady, UNCHANGED << requests, stream >>,
         apc \in {"header", "grow", "length", "type", "pid", "entry"},
         apc' \in {"grow", "length", "type", "pid", "entry", "crc"},
         apc' = "grow" => apc = "header",
         cells' = cells \/ \E c : /\ cells' = [cells EXCEPT ![Current] = c]
                                  /\ apc \in {"type", "entry"}
                                  /\ c = Torn(Kind) \/ c = Entry(Kind)
  PROVE  Covered' /\ Complete'
<1>1. /\ Laid /\ Covered /\ Complete /\ Current \in Nat /\ Current > 0 /\ Current \in Cells
  BY SteadyFacts DEF Steady, Progress, Cells
<1>2. /\ UNCHANGED << copied, spc, scrc, place, seen, clock >> /\ Current' = Current /\ Kind' = Kind
  BY DEF stream, Current, Kind
<1>3. Added = Current - 1 /\ Added' = Added
  BY <1>1, <1>2 DEF Added
<1>4. \A i \in Cells : i # Current => cells'[i] = cells[i]
  BY DEF Steady, Progress
<1>5. \A b : Genuine(b)' = Genuine(b)
  BY <1>2 DEF Genuine, Lists
<1>6. Covered'
  <2>1. \A i \in Cells : GenuineCrc(cells[i])' 
    <3> SUFFICES ASSUME NEW i \in Cells, NEW b, cells'[i] = Crc(b) PROVE Genuine(b)
      BY <1>5 DEF GenuineCrc
    <3>1. cells'[i] = cells[i] \/ cells'[i] = Torn(Kind) \/ cells'[i] = Entry(Kind)
      BY <1>1 DEF Steady, Progress
    <3> QED BY <1>1, <3>1, CellsDiffer DEF Covered, GenuineCrc
  <2> QED BY <1>1, <1>2, <1>5, <2>1 DEF Covered, GenuineCrc
<1>7. Complete'
  <2>1. CASE apc' = "grow"
    <3>1. apc = "header" /\ cells' = cells
      BY <2>1
    <3> QED BY <1>1, <1>2, <1>3, <2>1, <3>1 DEF Complete, Whole, Lists
  <2>2. CASE apc' # "grow"
    BY <1>1, <1>2, <1>3, <2>2 DEF Complete, Whole, Lists
  <2> QED BY <2>1, <2>2
<1> QED BY <1>6, <1>7

LEMMA ComputeCrcSection ==
  ASSUME Steady, ComputeCrc PROVE Covered' /\ Complete'
<1>1. /\ Laid /\ Covered /\ Complete /\ Current \in Nat /\ Current > 0
  BY SteadyFacts DEF Steady, Progress, ComputeCrc, AppStep
<1>2. /\ apc = "crc" /\ apc' = "store" /\ acrc' = Bytes(section_length, length, pcr, cells)
      /\ UNCHANGED << cells, copied, spc, scrc, place, seen, clock, requests, pcr >>
      /\ Current' = Current /\ Kind' = Kind
  BY DEF ComputeCrc, AppStep, stream, Current, Kind
<1>3. Added = Current - 1 /\ Added' = Added
  BY <1>1, <1>2 DEF Added
<1>4. section_length = Current /\ length = Current
  BY <1>2 DEF Steady, Progress, Before
<1>5. acrc' = [length |-> Current, pcr |-> pcr, entries |-> Lists(Current)]
  <2>1. \A i \in 1..Current : cells[i] = Entry(requests[i])
    BY <1>1, <1>2, <1>3 DEF Laid, Kind
  <2> QED BY <1>1, <1>2, <1>4, <2>1, LaidBytes
<1>6. \A b : Genuine(b)' = Genuine(b)
  BY <1>2 DEF Genuine, Lists
<1>7. Genuine(acrc')
  BY <1>1, <1>5 DEF Genuine
<1>8. Covered'
  BY <1>1, <1>2, <1>6, <1>7 DEF Covered, GenuineCrc
<1>9. Complete'
  <2>1. spc \in {"mark", "ready", "copy"} => acrc' = Whole(Current)
    BY <1>5 DEF Steady, Clocked, Whole
  <2> QED BY <1>1, <1>2, <1>3, <2>1 DEF Complete, Whole, Lists
<1> QED BY <1>8, <1>9

LEMMA StoreCrcSection ==
  ASSUME Steady, StoreCrc PROVE Covered' /\ Complete'
<1>1. /\ Laid /\ Covered /\ Complete /\ Current \in Nat /\ Current > 0 /\ Current + 1 \in Cells
      /\ ~Overlap
  BY SteadyFacts DEF Steady, Progress, StoreCrc, AppStep, Cells
<1>2. /\ apc = "store" /\ apc' = "collect"
      /\ cells' = [cells EXCEPT ![Current + 1] = Crc(acrc)]
      /\ UNCHANGED << copied, spc, scrc, place, seen, clock, requests >>
      /\ Current' = Current /\ Kind' = Kind
  BY DEF StoreCrc, Stored, AppStep, stream, Current, Kind
<1>3. Added = Current - 1 /\ Added' = Current
  BY <1>1, <1>2 DEF Added
<1>4. cells'[Current + 1] = Crc(acrc) /\ \A i \in Cells : i # Current + 1 => cells'[i] = cells[i]
  BY <1>1, <1>2 DEF Steady, Progress
<1>5. \A b : Genuine(b)' = Genuine(b)
  BY <1>2 DEF Genuine, Lists
<1>6. Covered'
  <2>1. Genuine(acrc)
    BY <1>1, <1>2 DEF Covered
  <2>2. \A i \in Cells : GenuineCrc(cells[i])'
    BY <1>1, <1>4, <1>5, <2>1, CellsDiffer DEF Covered, GenuineCrc
  <2> QED BY <1>1, <1>2, <1>5, <2>2 DEF Covered, GenuineCrc
<1>7. Complete'
  <2>1. spc \notin {"locate", "store"}
    BY <1>1, <1>2 DEF Overlap
  <2>2. spc \in {"mark", "ready", "copy"} => cells'[Current + 1] = Crc(Whole(Current))
    BY <1>1, <1>2, <1>4 DEF Complete
  <2> QED BY <1>2, <1>3, <2>1, <2>2 DEF Complete, Whole, Lists
<1> QED BY <1>6, <1>7

LEMMA CollectPadSection ==
  ASSUME Steady, CollectPad PROVE Covered' /\ Complete'
<1>1. Covered /\ Complete
  BY SteadyFacts
<1>2. /\ apc = "collect" /\ apc' = "idle"
      /\ UNCHANGED << cells, copied, spc, scrc, place, seen, clock, requests >>
      /\ Current' = Current /\ Kind' = Kind
  BY DEF CollectPad, AppStep, stream, Current, Kind
<1>3. Added = Current /\ Added' = Added
  BY <1>2 DEF Added
<1> QED
  BY <1>1, <1>2, <1>3 DEF Covered, Complete, GenuineCrc, Genuine, Whole, Lists

LEMMA RequestPadSection ==
  ASSUME Steady, RequestPad PROVE Covered' /\ Complete'
<1>1. CASE InitHeader
  BY <1>1, EntrySection DEF InitHeader, AppStep, stream
<1>2. CASE Grow
  BY <1>2, EntrySection DEF Grow, AppStep, stream
<1>3. CASE WriteLength
  BY <1>3, EntrySection DEF WriteLength, AppStep, stream
<1>4. CASE WriteType
  BY <1>4, EntrySection DEF WriteType, AppStep, app
<1>5. CASE SetPid
  BY <1>5, EntrySection DEF SetPid, AppStep, stream
<1>6. CASE WriteEntry
  <2>1. Finish(cells[Current]) = Entry(Kind)
    BY <1>6, SteadyFacts DEF WriteEntry, AppStep, Laid, Finish
  <2> QED BY <1>6, <2>1, EntrySection DEF WriteEntry, AppStep, app
<1> QED
  BY <1>1, <1>2, <1>3, <1>4, <1>5, <1>6, RequestSection, ComputeCrcSection, StoreCrcSection,
     CollectPadSection, RequestPadCases DEF RequestPad

(* The streaming thread: nothing of the request changes.                   *)
LEMMA SameRequest ==
  ASSUME Streaming
  PROVE  /\ UNCHANGED << apc, requests, acrc, section_length, length >>
         /\ Current' = Current /\ Kind' = Kind /\ Added' = Added
         /\ \A n : Lists(n)' = Lists(n)
         /\ \A b : Genuine(b)' = Genuine(b)
BY StreamingKeepsApp DEF app, Current, Kind, Added, Lists, Genuine

(* Steps that touch neither the packet nor a CRC.                          *)
LEMMA QuietSection ==
  ASSUME Steady, Streaming, UNCHANGED << cells, clock, scrc >>,
         \A i \in Cells : copied'.cells[i] = copied.cells[i] \/ GenuineCrc(copied'.cells[i]),
         seen' = seen \/ seen' = << >> \/ Genuine(seen'[1]),
         spc' \notin {"locate", "store"},
         spc' \in {"mark", "ready", "copy"} => spc \in {"mark", "ready", "copy"}
  PROVE  Covered' /\ Complete'
<1>1. Covered /\ Complete
  BY SteadyFacts
<1>2. Covered'
  BY <1>1, SameRequest DEF Covered, GenuineCrc
<1>3. Complete'
  BY <1>1, SameRequest DEF Complete, Whole
<1> QED BY <1>2, <1>3

(* Outside of the overlap all of the section is written, but for the CRC.  *)
LEMMA SectionSettled ==
  ASSUME Steady, spc \in {"compute", "locate", "store"}
  PROVE  /\ apc \in {"idle", "header", "grow", "collect"}
         /\ section_length = Added /\ length = Added
<1>1. ~Overlap /\ Current \in Nat
  BY SteadyFacts
<1>2. apc \in {"idle", "header", "grow", "collect"}
  BY <1>1 DEF Overlap, Steady, Progress, AppSteps
<1> QED BY <1>2 DEF Steady, Progress, Before, Added

LEMMA ComputePcrCrcSection ==
  ASSUME Steady, ComputePcrCrc PROVE Covered' /\ Complete'
<1>1. /\ Laid /\ Covered /\ Complete /\ Added \in 0..Current /\ Current \in Nat
  BY SteadyFacts
<1>2. /\ spc = "compute" /\ spc' = "locate" /\ scrc' = Bytes(section_length, length, pcr, cells)
      /\ UNCHANGED << cells, clock, copied, seen >>
  BY DEF ComputePcrCrc
<1>3. Streaming
  BY DEF Streaming
<1>4. scrc' = [length |-> Added, pcr |-> pcr, entries |-> Lists(Added)]
  BY <1>1, <1>2, SectionSettled, LaidBytes DEF Laid
<1>5. Genuine(scrc')
  BY <1>1, <1>4 DEF Genuine
<1>6. Covered'
  BY <1>1, <1>2, <1>3, <1>5, SameRequest DEF Covered, GenuineCrc
<1>7. scrc' = Whole(Added)
  BY <1>2, <1>4 DEF Steady, Clocked, Whole
<1>8. Complete'
  BY <1>2, <1>3, <1>7, SameRequest DEF Complete, Whole
<1> QED BY <1>6, <1>8

LEMMA LocatePcrCrcSection ==
  ASSUME Steady, LocatePcrCrc PROVE Covered' /\ Complete'
<1>1. /\ Covered /\ Complete /\ Streaming
  BY SteadyFacts DEF Streaming
<1>2. /\ spc = "locate" /\ spc' = "store" /\ place' = section_length + 1
      /\ UNCHANGED << cells, clock, scrc, copied, seen >>
  BY DEF LocatePcrCrc
<1>3. section_length = Added
  BY <1>2, SectionSettled
<1>4. Covered'
  BY <1>1, <1>2, SameRequest DEF Covered, GenuineCrc
<1>5. Complete'
  BY <1>1, <1>2, <1>3, SameRequest DEF Complete, Whole
<1> QED BY <1>4, <1>5

LEMMA StorePcrCrcSection ==
  ASSUME Steady, StorePcrCrc PROVE Covered' /\ Complete' /\ ~displaced'
<1>1. /\ Covered /\ Complete /\ Added \in 0..Current /\ Current \in Nat
      /\ Current <= MaxRequests /\ MaxRequests \in Nat /\ ~displaced
  BY SteadyFacts
<1>2. /\ spc = "store" /\ spc' = "mark"
      /\ cells' = [cells EXCEPT ![place] = Crc(scrc)]
      /\ UNCHANGED << clock, copied, seen >>
  BY DEF StorePcrCrc
<1>3. Streaming
  BY DEF Streaming
<1>4. /\ apc \in {"idle", "header", "grow", "collect"} /\ section_length = Added
      /\ place = Added + 1
  BY <1>1, <1>2, SectionSettled DEF Complete
<1>5. /\ cells'[Added + 1] = Crc(scrc)
      /\ \A i \in Cells : i # Added + 1 => cells'[i] = cells[i]
  <2>1. Added + 1 \in Cells
    BY <1>1 DEF Cells
  <2> QED BY <1>2, <1>4, <2>1 DEF Steady, Progress
<1>6. Covered'
  <2>1. Genuine(scrc)
    BY <1>1, <1>2 DEF Covered
  <2>2. \A i \in Cells : GenuineCrc(cells'[i])
    BY <1>1, <1>5, <2>1, CellsDiffer DEF Covered, GenuineCrc
  <2> QED BY <1>1, <1>2, <1>3, <2>2, SameRequest DEF Covered, GenuineCrc
<1>7. Complete'
  <2>1. cells'[Added + 1] = Crc(Whole(Added))
    BY <1>1, <1>2, <1>5 DEF Complete
  <2> QED BY <1>2, <1>3, <1>4, <2>1, SameRequest DEF Complete, Whole
<1>8. ~displaced'
  <2>1. ~IsEntry(cells[place])
    <3>1. Beyond /\ place \in Cells /\ ~(place <= section_length)
      BY <1>1, <1>4 DEF Steady, Cells
    <3> QED BY <3>1 DEF Beyond
  <2>2. displaced' = (displaced \/ IsEntry(cells[place]))
    BY Zenon DEF StorePcrCrc
  <2> QED BY <1>1, <2>1, <2>2, Zenon
<1> QED BY <1>6, <1>7, <1>8

LEMMA CopyCellSection ==
  ASSUME Steady, NEW i \in Cells, CopyCell(i) PROVE Covered' /\ Complete'
<1>1. Streaming
  BY DEF Streaming
<1>2. /\ copied' = [copied EXCEPT !.cells[i] = cells[i]]
      /\ spc = "copy" /\ UNCHANGED << spc, cells, clock, scrc, seen >>
  BY DEF CopyCell, CopyPart
<1>3. Covered
  BY SteadyFacts
<1>4. \A j \in Cells : copied'.cells[j] = copied.cells[j] \/ GenuineCrc(copied'.cells[j])
  BY <1>2, <1>3 DEF Steady, Fresh, Covered
<1> QED BY <1>1, <1>2, <1>4, QuietSection

(* What a receiver accepts is what some CRC was computed over.             *)
LEMMA EndPmtSection ==
  ASSUME Steady, EndPmt PROVE Covered' /\ Complete'
<1>1. Streaming
  BY DEF Streaming
<1>2. /\ copied' = NoCopy /\ spc = "copy" /\ spc' = "ready" /\ copied.length # -1
      /\ UNCHANGED << cells, clock, scrc >>
  BY DEF EndPmt
<1>3. Covered /\ MaxRequests \in Nat
  BY SteadyFacts
<1>4. \A j \in Cells : GenuineCrc(copied'.cells[j])
  BY <1>2, NoCopyFields, CellsDiffer DEF GenuineCrc
<1>5. seen' = << >> \/ Genuine(seen'[1])
  <2> DEFINE n == copied.length
             bytes == Bytes(n, n, copied.pcr, copied.cells)
  <2>1. n + 1 \in Cells
    BY <1>2, <1>3 DEF Steady, Fresh, Cells
  <2>2. copied.cells[n + 1] = Crc(bytes) => Genuine(bytes)
    BY <1>3, <2>1 DEF Covered, GenuineCrc
  <2>3. seen' = IF copied.cells[n + 1] = Crc(bytes) THEN << bytes >> ELSE << >>
    BY DEF EndPmt, Accepts
  <2> QED BY <2>2, <2>3
<1> QED BY <1>1, <1>2, <1>4, <1>5, QuietSection

LEMMA StreamingSection ==
  ASSUME Steady, Streaming, Clocked' PROVE Covered' /\ Complete'
<1>1. CASE PickClock
  <2>1. spc' # "ready"
    <3>1. spc = "first" /\ Current \in Nat /\ collected # {} /\ (spc' = "ready" => pids = {})
      BY <1>1, SteadyFacts DEF PickClock
    <3>2. Before(AppSteps \ {"idle"}) > 0
      BY <3>1 DEF Steady, Progress, Before
    <3>3. Before({"header", "grow", "length", "type", "pid"}) > 0
      BY <3>1, <3>2 DEF Before, AppSteps
    <3> QED BY <3>1, <3>3 DEF Steady, Progress
  <2>2. spc' = "pcr" /\ UNCHANGED << cells, scrc, copied, seen >> /\ spc = "first"
    BY <1>1, <2>1 DEF PickClock
  <2>3. Covered
    BY SteadyFacts
  <2> QED BY <2>2, <2>3, SameRequest DEF Covered, Complete, GenuineCrc
<1>2. CASE SetPcr
  BY <1>2, QuietSection DEF SetPcr
<1>3. CASE MarkReference
  BY <1>3, QuietSection DEF MarkReference
<1>4. ASSUME NEW r \in collected, WriteFrame(r) PROVE Covered' /\ Complete'
  BY <1>4, QuietSection DEF WriteFrame
<1>5. CASE BeginPmt
  BY <1>5, QuietSection DEF BeginPmt
<1>6. CASE CopyLength
  BY <1>6, QuietSection DEF CopyLength, CopyPart, Steady, Fresh
<1>7. CASE CopyPcr
  BY <1>7, QuietSection DEF CopyPcr, CopyPart, Steady, Fresh
<1> QED
  BY <1>1, <1>2, <1>3, <1>4, <1>5, <1>6, <1>7, ComputePcrCrcSection, LocatePcrCrcSection,
     StorePcrCrcSection, CopyCellSection, EndPmtSection DEF Streaming

LEMMA InitSection == Init => Section
<1> SUFFICES ASSUME Init PROVE Section
  OBVIOUS
<1>1. /\ apc = "idle" /\ spc = "first" /\ seen = << >> /\ copied = NoCopy /\ Current = 0
      /\ \A i \in Cells : cells[i] = Fill
  BY DEF Init, Current
<1>2. Added = 0
  BY <1>1 DEF Added
<1>3. Covered
  BY <1>1, NoCopyFields, CellsDiffer DEF Covered, GenuineCrc
<1>4. ~displaced
  BY DEF Init
<1> QED BY <1>1, <1>2, <1>3, <1>4 DEF Section, Overlap, Complete

(* Only that one store displaces a CRC.                                    *)
LEMMA SectionUndisplaced ==
  ASSUME Steady, Next PROVE ~displaced'
<1>1. CASE StorePcrCrc
  BY <1>1, StorePcrCrcSection
<1>2. ASSUME ~StorePcrCrc PROVE displaced' = displaced
  BY <1>2, Zenon
  DEF Next, RequestPad, Request, InitHeader, Grow, WriteLength, WriteType, SetPid, WriteEntry,
      ComputeCrc, StoreCrc, CollectPad, AppStep, Streaming, PickClock, SetPcr, ComputePcrCrc,
      LocatePcrCrc, MarkReference, WriteFrame, BeginPmt, CopyLength, CopyPcr, CopyCell, CopyPart, EndPmt
<1>3. ~displaced
  BY SteadyFacts
<1> QED BY <1>1, <1>2, <1>3, Zenon

LEMMA NextSection ==
  ASSUME Progress, Progress', Fresh, Kept, Beyond, Clocked, Clocked', Section, [Next]_vars
  PROVE  Section'
<1>1. CASE UNCHANGED vars
  <2>1. UNCHANGED << clash, displaced >> /\ (Overlap' <=> Overlap)
    BY <1>1 DEF vars, app, stream, Overlap
  <2>2. Covered' = Covered /\ Complete' = Complete
    BY <1>1 DEF vars, app, stream, Covered, Complete, GenuineCrc, Genuine, Whole, Lists, Added, Current
  <2> QED BY <2>1, <2>2, Zenon DEF Section
<1>2. CASE Next
  <2>1. (Overlap' => clash') /\ (~clash' => ~clash)
    <3>1. clash' = (clash \/ Overlap')
      BY <1>2, Zenon DEF Next
    <3> QED BY <3>1, Zenon
  <2>2. ASSUME ~clash' PROVE Covered' /\ Complete' /\ ~displaced'
    <3>1. Steady
      BY <2>1, <2>2 DEF Steady
    <3>2. Covered' /\ Complete'
      BY <1>2, <3>1, RequestPadSection, StreamingSection DEF Next
    <3>3. ~displaced'
      BY <1>2, <3>1, SectionUndisplaced
    <3> QED BY <3>2, <3>3, Zenon
  <2> QED BY <2>1, <2>2, Zenon DEF Section
<1> QED BY <1>1, <1>2

LEMMA SectionInvariant == Spec => [](Progress /\ Fresh /\ Kept /\ Beyond /\ Clocked /\ Section)
<1>1. Init => Progress /\ Fresh /\ Kept /\ Beyond /\ Clocked /\ Section
  BY InitProgress, InitFresh, InitKept, InitBeyond, InitClocked, InitSection
<1>2. (Progress /\ Fresh /\ Kept /\ Beyond /\ Clocked /\ Section) /\ [Next]_vars
        => (Progress /\ Fresh /\ Kept /\ Beyond /\ Clocked /\ Section)'
  BY NextProgress, NextFresh, NextKept, NextBeyond, NextClocked, NextSection
<1> QED BY <1>1, <1>2, PTL DEF Spec

(* A PMT that a receiver accepts lists streams that were requested and the *)
(* clock, whatever the stores and the copy did to each other: unless a CRC *)
(* was computed while both threads were at the section.                    *)
THEOREM AcceptedAlwaysReal == Spec => []AcceptedReal
<1>1. Clocked /\ Section => AcceptedReal
  BY DEF Clocked, Section, Covered, Genuine, AcceptedReal
<1> QED BY <1>1, SectionInvariant, PTL

(* When both threads are done with the section it is valid and lists all.  *)
THEOREM SettledAlwaysComplete == Spec => []SettledComplete
<1>1. Progress /\ Kept /\ Section => SettledComplete
  <2> SUFFICES ASSUME Progress, Kept, Section, Settled, ~clash PROVE SectionComplete
    BY DEF SettledComplete
  <2>1. requests \in Seq(Kinds) /\ Current \in Nat
    BY LenProperties DEF Progress, Current
  <2>2. Laid /\ Complete
    BY Zenon DEF Section, Kept
  <2>3. Added \in Nat /\ length = Added
    BY <2>1 DEF Progress, Before, Added, Settled
  <2>4. cells[Added + 1] = Crc(Whole(Added))
    BY <2>2 DEF Complete, Settled
  <2>5. Bytes(Added, Added, clock, Lists(Added)) = Whole(Added)
    <3>1. [i \in 1..Added |-> Lists(Added)[i]] = Lists(Added)
      BY DEF Lists
    <3> QED BY <3>1 DEF Bytes, Whole
  <2> QED BY <2>2, <2>3, <2>4, <2>5 DEF SectionComplete, Accepts, Laid
<1> QED BY <1>1, SectionInvariant, PTL
=============================================================================
