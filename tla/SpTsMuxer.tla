------------------------------ MODULE SpTsMuxer -----------------------------
(***************************************************************************)
(* The element of sptsmuxer.c: pads that an application requests, buffers  *)
(* that arrive on them, the collected callback that picks the next one,    *)
(* and the state changes that start and stop it all.  The loop that picks  *)
(* is modelled one pad at a time.  What spts_write_frame does with the     *)
(* buffer is the subject of Spts; here it only counts whether it sends a   *)
(* packet, and with which clock.                                           *)
(*                                                                         *)
(* GstCollectPads keeps one buffer per pad, makes upstream wait while it   *)
(* is there, and holds its lock during the callback, so nothing arrives    *)
(* and no state changes then; pads may be requested at any time.           *)
(***************************************************************************)
EXTENDS TsPacket

CONSTANTS
  Times,        (* timestamps of buffers, in nanoseconds                    *)
  Far,          (* the largest of them, for every time from it on           *)
  None,         (* GST_CLOCK_TIME_NONE, a number larger than any other      *)
  Reorder,      (* how far a buffer may lie behind the latest of its pad    *)
  Failures,     (* may GStreamer refuse to add a pad?                       *)
  MaxPads,      (* bound: pads requested, by kind                           *)
  MaxBuffers,   (* bound: buffers before Far, per pad and session           *)
  MaxSessions   (* bound: times that the element goes to PAUSED             *)

Kinds == {"video", "audio"}

ASSUME SpTsMuxerAssumption ==
  /\ Times \subseteq Nat
  /\ Far \in Times /\ \A t \in Times : t <= Far
  /\ None \in Nat /\ \A t \in Times : t < None
  /\ Reorder \in Nat
  /\ Failures \in BOOLEAN
  /\ MaxPads \in [Kinds -> Nat]
  /\ MaxBuffers \in Nat /\ MaxSessions \in Nat

Pads  == UNION {{k} \X (1..MaxPads[k]) : k \in Kinds}
NoPad == << "none", 0 >>

VARIABLES
  playing,        (* between gst_collect_pads_start and _stop               *)
  first,          (* the collected callback has not run yet                 *)
  numsinkpads,    (* numvideosinkpads and numaudiosinkpads                  *)
  pcr_reference,  (* of the current video_stream and audio_stream           *)
  started,        (* spts->packets_counter > 0                              *)
  pads,           (* the pads given to GstCollectPads ...                   *)
  unlinked,       (* ... of which the element does not have these           *)
  head, eos,      (* the buffer of each pad, << >> or << its time >>; ended *)
  pc,             (* "collect" inside the callback                          *)
  data, todo,     (* the list it goes through, and what is left of it       *)
  next, next_time,
  (* History of the session:                                                *)
  latest, left,   (* of each pad: largest time so far, buffers before Far   *)
  reached,        (* the largest time of a buffer written                   *)
  clock,          (* the largest PCR sent                                   *)
  excused,        (* a pad came late, or a buffer came without a time       *)
  sessions

spts_vars == << numsinkpads, pcr_reference, started >>
pad_vars  == << pads, unlinked, head, eos >>
loop_vars == << data, todo, next, next_time >>
history   == << latest, left, reached, clock, excused, sessions >>
vars == << playing, first, spts_vars, pad_vars, pc, loop_vars, history >>

Larger(a, b) == IF a > b THEN a ELSE b

Init ==
  /\ playing = FALSE
  /\ first = TRUE
  /\ numsinkpads = [k \in Kinds |-> 0]
  /\ pcr_reference = [k \in Kinds |-> FALSE]
  /\ started = FALSE
  /\ pads = {} /\ unlinked = {}
  /\ head = [p \in Pads |-> << >>]
  /\ eos = {}
  /\ pc = "idle"
  /\ data = {} /\ todo = {}
  /\ next = NoPad /\ next_time = None
  /\ latest = [p \in Pads |-> -1]
  /\ left = [p \in Pads |-> MaxBuffers]
  /\ reached = -1 /\ clock = -1
  /\ excused = FALSE
  /\ sessions = 0

-----------------------------------------------------------------------------
(* The application.                                                        *)

(* sptsmuxer_request_new_pad.  spts_add_stream makes a new stream the      *)
(* current one of its kind, which no failure after it undoes.              *)
NewStream(kind) ==
  /\ pc # "crashed"
  /\ numsinkpads[kind] < MaxPads[kind]
  /\ numsinkpads' = [numsinkpads EXCEPT ![kind] = @ + 1]
  /\ pcr_reference' = [pcr_reference EXCEPT ![kind] = FALSE]

Late == pc = "collect" \/ reached >= 0

Collect(pad) ==
  /\ pads' = pads \cup {pad}
  /\ excused' = (excused \/ Late)
  /\ UNCHANGED << playing, first, started, head, eos, pc, loop_vars,
                  latest, left, reached, clock, sessions >>

RequestPad(kind) ==
  /\ NewStream(kind)
  /\ Collect(<< kind, numsinkpads[kind] + 1 >>)
  /\ UNCHANGED unlinked

(* gst_collect_pads_add_pad fails: the pad is forgotten, its stream is not.*)
RequestPadNotCollected(kind) ==
  /\ Failures
  /\ NewStream(kind)
  /\ UNCHANGED << playing, first, started, pad_vars, pc, loop_vars, history >>

(* gst_element_add_pad fails: the pad stays with GstCollectPads.           *)
RequestPadNotLinked(kind) ==
  /\ Failures
  /\ NewStream(kind)
  /\ Collect(<< kind, numsinkpads[kind] + 1 >>)
  /\ unlinked' = unlinked \cup {<< kind, numsinkpads[kind] + 1 >>}

(* sptsmuxer_change_state, READY_TO_PAUSED and PAUSED_TO_READY: the pads   *)
(* are emptied, and the fields of the muxer keep their values.             *)
Start ==
  /\ pc = "idle" /\ ~playing
  /\ sessions < MaxSessions
  /\ playing' = TRUE
  /\ sessions' = sessions + 1
  /\ UNCHANGED << first, spts_vars, pad_vars, pc, loop_vars,
                  latest, left, reached, clock, excused >>

Stop ==
  /\ pc = "idle" /\ playing
  /\ playing' = FALSE
  /\ head' = [p \in Pads |-> << >>]
  /\ eos' = {}
  /\ latest' = [p \in Pads |-> -1]
  /\ left' = [p \in Pads |-> MaxBuffers]
  /\ reached' = -1 /\ clock' = -1
  /\ excused' = FALSE
  /\ UNCHANGED << first, spts_vars, pads, unlinked, pc, loop_vars, sessions >>

-----------------------------------------------------------------------------
(* Upstream of a pad.                                                      *)

MayBring(p) ==
  /\ pc = "idle" /\ playing
  /\ p \in pads \ unlinked
  /\ head[p] = << >> /\ p \notin eos

(* A stream need not end: buffers from Far on, and buffers without a time, *)
(* may come for ever.                                                      *)
Counted(t) == t \notin {Far, None}

Chain(p, t) ==
  /\ MayBring(p)
  /\ Counted(t) => left[p] > 0
  /\ latest[p] - Reorder <= t
  /\ head' = [head EXCEPT ![p] = << t >>]
  /\ latest' = IF t = None THEN latest ELSE [latest EXCEPT ![p] = Larger(latest[p], t)]
  /\ left' = IF Counted(t) THEN [left EXCEPT ![p] = @ - 1] ELSE left
  /\ excused' = (excused \/ t = None)
  /\ UNCHANGED << playing, first, spts_vars, pads, unlinked, eos, pc, loop_vars,
                  reached, clock, sessions >>

Eos(p) ==
  /\ MayBring(p)
  /\ eos' = eos \cup {p}
  /\ UNCHANGED << playing, first, spts_vars, pads, unlinked, head, pc, loop_vars, history >>

Upstream(p) == Eos(p) \/ \E t \in Times \cup {None} : Chain(p, t)

-----------------------------------------------------------------------------
(* sptsmuxer_collected.                                                    *)

(* When GstCollectPads calls back.                                         *)
Ready == pads # {} /\ \A p \in pads : head[p] # << >> \/ p \in eos

(* The first call picks the stream that carries the clock.                 *)
ClockKind == IF numsinkpads["video"] > 0 THEN "video" ELSE "audio"

Collected ==
  /\ pc = "idle" /\ playing
  /\ Ready
  /\ first' = FALSE
  /\ pcr_reference' = IF first THEN [pcr_reference EXCEPT ![ClockKind] = TRUE]
                               ELSE pcr_reference
  /\ data' = pads /\ todo' = pads
  /\ next' = NoPad /\ next_time' = None
  /\ pc' = "collect"
  /\ UNCHANGED << playing, numsinkpads, started, pad_vars, history >>

(* One turn of the loop.  The order of the list is that of GstCollectPads. *)
Turn(p) == pc = "collect" /\ p \in todo
OutsideLoop == << playing, first, spts_vars, pad_vars, pc, data, history >>

SkipEmpty(p) ==
  /\ Turn(p)
  /\ head[p] = << >>
  /\ todo' = todo \ {p}
  /\ UNCHANGED << OutsideLoop, next, next_time >>

(* A first buffer without a timestamp ends the loop.                       *)
TakeFirstUntimed(p) == next' = p /\ todo' = todo \ {p} /\ UNCHANGED next_time
TakeFirst(p) ==
  /\ next' = p
  /\ next_time' = head[p][1]
  /\ todo' = IF head[p][1] = None THEN {} ELSE todo \ {p}

FirstCandidate(p) ==
  /\ Turn(p)
  /\ head[p] # << >> /\ next = NoPad
  /\ TakeFirst(p)
  /\ UNCHANGED OutsideLoop

LaterInstead(p) == head[p][1] > next_time
Earlier(p) == head[p][1] < next_time

Candidate(p) ==
  /\ Turn(p)
  /\ head[p] # << >> /\ next # NoPad
  /\ next'      = IF Earlier(p) THEN p ELSE next
  /\ next_time' = IF Earlier(p) THEN head[p][1] ELSE next_time
  /\ todo' = todo \ {p}
  /\ UNCHANGED OutsideLoop

(* After it.  A video frame always sends packets; audio only when some     *)
(* packet was sent before.                                                 *)
Chosen == pc = "collect" /\ todo = {} /\ next # NoPad
Sends  == next[1] = "video" \/ started

Return ==
  /\ pc' = "idle"
  /\ next' = NoPad /\ next_time' = None
  /\ UNCHANGED << data, todo >>

Pop == head' = [head EXCEPT ![next] = << >>]

WriteFrame ==
  /\ Chosen
  /\ Pop
  /\ started' = (started \/ Sends)
  /\ reached' = Larger(reached, next_time)
  /\ clock' = IF Sends /\ pcr_reference[next[1]]
              THEN Larger(clock, pcr_base(mpegtime(next_time))) ELSE clock
  /\ Return
  /\ UNCHANGED << playing, first, numsinkpads, pcr_reference, pads, unlinked, eos,
                  latest, left, excused, sessions >>

(* An IDR frame of a program without audio ends the process (see Spts).    *)
WriteIdrFrame ==
  /\ Chosen
  /\ next[1] = "video" /\ numsinkpads["audio"] = 0
  /\ pc' = "crashed"
  /\ UNCHANGED << playing, first, spts_vars, pad_vars, loop_vars, history >>

(* Every pad has ended: nothing is written, and nothing goes downstream.   *)
FoundNothing ==
  /\ pc = "collect" /\ todo = {} /\ next = NoPad
  /\ Return
  /\ UNCHANGED << playing, first, spts_vars, pad_vars, history >>

Callback ==
  \/ Collected
  \/ \E p \in Pads : SkipEmpty(p) \/ FirstCandidate(p) \/ Candidate(p)
  \/ WriteFrame \/ WriteIdrFrame \/ FoundNothing

-----------------------------------------------------------------------------
Next ==
  \/ \E k \in Kinds : RequestPad(k) \/ RequestPadNotCollected(k) \/ RequestPadNotLinked(k)
  \/ Start \/ Stop
  \/ \E p \in Pads : Upstream(p)
  \/ Callback

Spec == Init /\ [][Next]_vars

(* A callback that can go on does, and upstream of every pad that waits    *)
(* for data brings a buffer or ends.                                       *)
FairSpec ==
  /\ Spec
  /\ WF_vars(Callback)
  /\ \A p \in Pads : WF_vars(Upstream(p))

-----------------------------------------------------------------------------
OptionalTime == {<< >>} \cup {<< t >> : t \in Times \cup {None}}

(* Types; and what is popped at sptsmuxer.c:299 is there, with the time    *)
(* that the loop read: no null buffer is handed to spts_write_frame.       *)
TypeOK ==
  /\ playing \in BOOLEAN /\ first \in BOOLEAN /\ started \in BOOLEAN /\ excused \in BOOLEAN
  /\ numsinkpads \in [Kinds -> Nat]
  /\ pcr_reference \in [Kinds -> BOOLEAN]
  /\ pads \subseteq Pads /\ unlinked \subseteq pads /\ eos \subseteq Pads
  /\ head \in [Pads -> OptionalTime]
  /\ pc \in {"idle", "collect", "crashed"}
  /\ data \subseteq pads /\ todo \subseteq data
  /\ next \in Pads \cup {NoPad} /\ next_time \in Times \cup {None}
  /\ pc = "collect" /\ next # NoPad => head[next] = << next_time >>
  /\ latest \in [Pads -> Nat \cup {-1}] /\ left \in [Pads -> Nat]
  /\ reached \in Nat \cup {-1} /\ clock \in Int /\ sessions \in Nat

(* The multiplexer adds no disorder of its own: a frame is handed to       *)
(* spts_write_frame at most as far behind an earlier one as upstream lets  *)
(* the buffers of a single pad be (B-frames), exactly in order when        *)
(* upstream is; for pads requested before, and buffers with timestamps.    *)
InTimeOrder == Chosen /\ ~excused => next_time >= reached - Reorder

(* No frame is written after its time has come: the clock that a receiver  *)
(* was sent, which runs 10250 ticks before the PTS (spts.c:420), has not   *)
(* reached the PTS of the frame, as long as frames are not further out of  *)
(* order than those ticks.                                                 *)
ReorderTicks == (Reorder * 9 + 99999) \div 100000
NeverTooLate ==
  Chosen /\ ~excused /\ ReorderTicks <= PCR_LEAD => mpegtime(next_time) >= clock

(* The loop, one pad at a time and with its early exit, does what a choice *)
(* of the earliest buffer would.                                           *)
Merge == INSTANCE EarliestFirst WITH
  Untimed <- None, members <- data, queued <- head, ended <- eos
PicksEarliest == Merge!Spec

(* On streams that never end no buffer with a timestamp waits for ever,    *)
(* unless the loop takes buffers without one again and again, a pad is     *)
(* left with GstCollectPads that no one can link, or the process has died. *)
(* That upstream brings only so many buffers before any given time is the  *)
(* bound on them, so the time asked about is one before Far.               *)
TakesUntimed == Chosen /\ next_time = None
Stalled == unlinked # {} \/ pc = "crashed"

NoneStarved ==
  \A p \in Pads, t \in Times \ {Far} :
    \/ []<>TakesUntimed
    \/ head[p] = << t >> ~> head[p] # << t >> \/ Stalled
=============================================================================
