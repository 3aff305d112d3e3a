--------------------------- MODULE SpTsMuxerProof ---------------------------
(***************************************************************************)
(* Theorems about the element, for any number of pads, buffers, timestamps *)
(* and sessions.                                                           *)
(***************************************************************************)
EXTENDS SpTsMuxer, TLAPS

(* Where a buffer waits, and what the loop knows: every pad it has passed  *)
(* is empty or holds nothing earlier than its candidate.                   *)
Waits ==
  \A p \in Pads : head[p] # << >> => p \in pads /\ p \notin eos
Snapshot ==
  pc = "collect" =>
    /\ \A p \in data : head[p] # << >> \/ p \in eos
    /\ \A p \in Pads : head[p] # << >> => p \in data
LoopInv ==
  pc = "collect" =>
    /\ next = NoPad => \A p \in data \ todo : head[p] = << >>
    /\ next # NoPad =>
         /\ next \in data \ todo
         /\ next_time = None => todo = {}
         /\ next_time # None =>
              \A p \in data \ todo : head[p] # << >> => next_time <= head[p][1]
PickInv == TypeOK /\ Waits /\ Snapshot /\ LoopInv

(* What keeps the order between two callbacks: upstream of every pad that  *)
(* has not ended has got as far as what was written.                       *)
Brought ==
  \A p \in Pads : head[p] # << >> =>
    IF head[p][1] = None THEN excused
    ELSE head[p][1] <= latest[p] /\ latest[p] - Reorder <= head[p][1]
OrderInv ==
  /\ Brought
  /\ ~excused => \A p \in pads : p \notin eos => reached <= latest[p]
  /\ ~excused /\ pc = "collect" => data = pads
  /\ clock <= IF reached >= 0 THEN pcr_base(mpegtime(reached)) ELSE -1

-----------------------------------------------------------------------------
(* Time conversions.                                                       *)

LEMMA Mpegtime ==
  ASSUME NEW n \in Nat
  PROVE  /\ mpegtime(n) \in Nat
         /\ 100000 * mpegtime(n) <= 9 * n
         /\ 9 * n < 100000 * (mpegtime(n) + 1)
<1> DEFINE q == n \div 100000
           r == n % 100000
           e == (r * 9) \div 100000
<1>1. q \in Nat /\ 100000 * q <= n
  OBVIOUS
<1>2. r = n - 100000 * q
  OBVIOUS
<1>3. r * 9 \in Nat
  BY <1>1, <1>2
<1>4. e \in Nat /\ 100000 * e <= r * 9
  BY <1>3
<1>5. r * 9 < 100000 * (e + 1)
  BY <1>3
<1>6. mpegtime(n) = q * 9 + e
  BY DEF mpegtime
<1> HIDE DEF q, r, e
<1>7. q * 9 + e \in Nat
  BY <1>1, <1>4
<1>8. 100000 * (q * 9 + e) <= 9 * n /\ 9 * n < 100000 * (q * 9 + e + 1)
  BY <1>1, <1>2, <1>4, <1>5
<1> QED BY <1>6, <1>7, <1>8

LEMMA MpegtimeMonotone ==
  ASSUME NEW m \in Nat, NEW n \in Nat, m <= n
  PROVE  mpegtime(m) <= mpegtime(n)
<1> DEFINE a == mpegtime(m)
           b == mpegtime(n)
<1>1. a \in Nat /\ 100000 * a <= 9 * m
  BY Mpegtime
<1>2. b \in Nat /\ 9 * n < 100000 * (b + 1)
  BY Mpegtime
<1> HIDE DEF a, b
<1>3. a <= b
  BY <1>1, <1>2
<1> QED BY <1>3 DEF a, b

LEMMA PcrMonotone ==
  ASSUME NEW m \in Nat, NEW n \in Nat, m <= n
  PROVE  /\ pcr_base(mpegtime(m)) \in Nat
         /\ pcr_base(mpegtime(n)) \in Nat
         /\ pcr_base(mpegtime(m)) <= pcr_base(mpegtime(n))
<1> DEFINE a == mpegtime(m)
           b == mpegtime(n)
<1>1. a \in Nat /\ b \in Nat /\ a <= b
  BY Mpegtime, MpegtimeMonotone
<1> HIDE DEF a, b
<1>2. pcr_base(a) \in Nat /\ pcr_base(b) \in Nat /\ pcr_base(a) <= pcr_base(b)
  BY <1>1 DEF pcr_base, PCR_LEAD
<1> QED BY <1>2 DEF a, b

(* A time at most Reorder behind another is not behind that one's PCR.     *)
LEMMA LeadCoversReorder ==
  ASSUME NEW m \in Nat, NEW t \in Nat, t >= m - Reorder, ReorderTicks <= PCR_LEAD
  PROVE  pcr_base(mpegtime(m)) <= mpegtime(t)
<1> DEFINE a == mpegtime(m)
           b == mpegtime(t)
           k == ReorderTicks
<1>1. Reorder \in Nat
  BY SpTsMuxerAssumption
<1>2. k \in Nat /\ 9 * Reorder <= 100000 * k
  BY <1>1 DEF ReorderTicks
<1>3. k <= 10250
  BY DEF PCR_LEAD
<1>4. a \in Nat /\ 100000 * a <= 9 * m
  BY Mpegtime
<1>5. b \in Nat /\ 9 * t < 100000 * (b + 1)
  BY Mpegtime
<1> HIDE DEF a, b, k
<1>6. 9 * t >= 9 * m - 9 * Reorder
  BY <1>1
<1>7. a - 10250 <= b
  BY <1>1, <1>2, <1>3, <1>4, <1>5, <1>6
<1>8. pcr_base(a) <= b
  BY <1>4, <1>5, <1>7 DEF pcr_base, PCR_LEAD
<1> QED BY <1>8 DEF a, b

-----------------------------------------------------------------------------
(* The choice.                                                             *)

LEMMA Constants ==
  /\ \A p \in Pads : p # NoPad /\ p[1] \in Kinds
  /\ Times \cup {None} \subseteq Nat
  /\ \A t \in Times \cup {None} : t <= None
<1>1. \A p \in Pads : p[1] \in Kinds
  BY DEF Pads, Kinds
<1>2. "none" \notin Kinds
  BY DEF Kinds
<1>3. \A p \in Pads : p # NoPad
  BY <1>1, <1>2 DEF NoPad
<1> QED BY <1>1, <1>3, SpTsMuxerAssumption

LEMMA NewPad ==
  ASSUME TypeOK, NEW kind \in Kinds, NewStream(kind)
  PROVE  /\ << kind, numsinkpads[kind] + 1 >> \in Pads
         /\ numsinkpads' \in [Kinds -> Nat]
         /\ pcr_reference' \in [Kinds -> BOOLEAN]
<1>1. numsinkpads[kind] \in Nat /\ MaxPads[kind] \in Nat /\ numsinkpads[kind] < MaxPads[kind]
  BY SpTsMuxerAssumption DEF TypeOK, NewStream
<1>2. numsinkpads[kind] + 1 \in 1..MaxPads[kind]
  BY <1>1
<1>3. << kind, numsinkpads[kind] + 1 >> \in Pads
  BY <1>2 DEF Pads
<1>4. numsinkpads' \in [Kinds -> Nat]
  BY <1>1 DEF TypeOK, NewStream
<1>5. pcr_reference' \in [Kinds -> BOOLEAN]
  BY DEF TypeOK, NewStream
<1> QED BY <1>3, <1>4, <1>5

LEMMA InitPick == Init => PickInv
<1> SUFFICES ASSUME Init PROVE PickInv
  OBVIOUS
<1>1. TypeOK
  <2>1. /\ numsinkpads \in [Kinds -> Nat] /\ pcr_reference \in [Kinds -> BOOLEAN]
        /\ head \in [Pads -> OptionalTime]
    BY DEF Init, OptionalTime
  <2>2. latest \in [Pads -> Nat \cup {-1}] /\ left \in [Pads -> Nat]
    BY SpTsMuxerAssumption DEF Init
  <2>3. reached \in Nat \cup {-1} /\ clock \in Int /\ sessions \in Nat
    BY DEF Init
  <2>4. pads \subseteq Pads /\ unlinked \subseteq pads /\ eos \subseteq Pads
        /\ data \subseteq pads /\ todo \subseteq data
    BY DEF Init
  <2> QED BY <2>1, <2>2, <2>3, <2>4 DEF Init, TypeOK
<1>2. Waits /\ Snapshot /\ LoopInv
  BY DEF Init, Waits, Snapshot, LoopInv
<1> QED BY <1>1, <1>2 DEF PickInv

(* Nothing that the application does touches a buffer or the loop.         *)
LEMMA CollectPick ==
  ASSUME PickInv, NEW kind \in Kinds, NewStream(kind),
         Collect(<< kind, numsinkpads[kind] + 1 >>),
         unlinked' \in {unlinked, unlinked \cup {<< kind, numsinkpads[kind] + 1 >>}}
  PROVE  PickInv'
<1> DEFINE pad == << kind, numsinkpads[kind] + 1 >>
<1>1. pad \in Pads /\ numsinkpads' \in [Kinds -> Nat] /\ pcr_reference' \in [Kinds -> BOOLEAN]
  BY NewPad DEF PickInv
<1>2. pads' = pads \cup {pad} /\ unlinked' \in {unlinked, unlinked \cup {pad}}
  BY DEF Collect
<1> HIDE DEF pad
<1>3. excused' \in BOOLEAN
  BY DEF PickInv, TypeOK, Collect
<1>4. TypeOK'
  BY <1>1, <1>2, <1>3 DEF PickInv, TypeOK, Collect, loop_vars
<1>5. Waits' /\ Snapshot' /\ LoopInv'
  BY <1>2 DEF PickInv, Waits, Snapshot, LoopInv, Collect, loop_vars
<1> QED BY <1>4, <1>5 DEF PickInv

LEMMA StartStopPick == ASSUME PickInv, Start \/ Stop PROVE PickInv'
<1>1. CASE Start
  BY <1>1 DEF PickInv, TypeOK, Waits, Snapshot, LoopInv, Start, spts_vars, pad_vars, loop_vars
<1>2. CASE Stop
  <2>1. TypeOK'
    <3>1. head' \in [Pads -> OptionalTime] /\ eos' = {}
      BY <1>2 DEF Stop, OptionalTime
    <3>2. latest' \in [Pads -> Nat \cup {-1}] /\ left' \in [Pads -> Nat]
      BY <1>2, SpTsMuxerAssumption DEF Stop
    <3>3. reached' = -1 /\ clock' = -1 /\ playing' = FALSE /\ excused' = FALSE /\ pc' = "idle"
      BY <1>2 DEF Stop
    <3>4. reached' \in Nat \cup {-1} /\ clock' \in Int
      BY <3>3
    <3> QED
      BY <1>2, <3>1, <3>2, <3>3, <3>4 DEF PickInv, TypeOK, Stop, spts_vars, loop_vars
  <2>2. Waits' /\ Snapshot' /\ LoopInv'
    BY <1>2 DEF PickInv, Waits, Snapshot, LoopInv, Stop, loop_vars
  <2> QED BY <2>1, <2>2 DEF PickInv
<1> QED BY <1>1, <1>2

LEMMA UpstreamPick ==
  ASSUME PickInv, NEW p \in Pads, Upstream(p)
  PROVE  PickInv'
<1>1. CASE Eos(p)
  <2>1. TypeOK'
    BY <1>1 DEF PickInv, TypeOK, Eos, MayBring, spts_vars, loop_vars, history
  <2>2. Waits' /\ Snapshot' /\ LoopInv'
    BY <1>1 DEF PickInv, Waits, Snapshot, LoopInv, Eos, MayBring, loop_vars
  <2> QED BY <2>1, <2>2 DEF PickInv
<1>2. ASSUME NEW t \in Times \cup {None}, Chain(p, t) PROVE PickInv'
  <2>1. head' = [head EXCEPT ![p] = << t >>] /\ pc = "idle" /\ pc' = "idle"
    BY <1>2 DEF Chain, MayBring
  <2>2. t \in Nat /\ left[p] \in Nat /\ latest[p] \in Int
    BY Constants DEF PickInv, TypeOK
  <2>3. latest' \in [Pads -> Nat \cup {-1}]
    <3>1. Larger(latest[p], t) \in Nat \cup {-1}
      BY <2>2 DEF PickInv, TypeOK, Larger
    <3> QED BY <1>2, <3>1 DEF PickInv, TypeOK, Chain
  <2>4. left' \in [Pads -> Nat]
    <3>1. Counted(t) => left[p] - 1 \in Nat
      BY <1>2, <2>2 DEF Chain
    <3> QED BY <1>2, <3>1 DEF PickInv, TypeOK, Chain
  <2>5. head' \in [Pads -> OptionalTime]
    BY <2>1 DEF PickInv, TypeOK, OptionalTime
  <2>6. excused' \in BOOLEAN
    BY <1>2 DEF PickInv, TypeOK, Chain
  <2>7. TypeOK'
    BY <1>2, <2>1, <2>3, <2>4, <2>5, <2>6
    DEF PickInv, TypeOK, Chain, spts_vars, loop_vars
  <2>8. Waits'
    BY <1>2, <2>1 DEF PickInv, TypeOK, Waits, Chain, MayBring
  <2>9. Snapshot' /\ LoopInv'
    BY <2>1 DEF Snapshot, LoopInv
  <2> QED BY <2>7, <2>8, <2>9 DEF PickInv
<1> QED BY <1>1, <1>2 DEF Upstream

LEMMA CollectedPick == ASSUME PickInv, Collected PROVE PickInv'
<1>1. ClockKind \in Kinds
  BY DEF ClockKind, Kinds
<1>2. pcr_reference' \in [Kinds -> BOOLEAN]
  BY <1>1 DEF PickInv, TypeOK, Collected
<1>3. TypeOK'
  BY <1>2, Constants DEF PickInv, TypeOK, Collected, pad_vars, history
<1>4. Waits' /\ Snapshot' /\ LoopInv'
  BY DEF PickInv, Waits, Snapshot, LoopInv, Collected, Ready, pad_vars
<1> QED BY <1>3, <1>4 DEF PickInv

(* One turn of the loop.                                                   *)
LEMMA TurnPick ==
  ASSUME PickInv, NEW p \in Pads, SkipEmpty(p) \/ FirstCandidate(p) \/ Candidate(p)
  PROVE  PickInv'
<1>1. Turn(p) /\ UNCHANGED OutsideLoop /\ todo' \subseteq todo
  BY DEF SkipEmpty, FirstCandidate, TakeFirst, Candidate, Turn, OutsideLoop
<1>2. head[p] # << >> => head[p] = << head[p][1] >> /\ head[p][1] \in Times \cup {None}
  BY DEF PickInv, TypeOK, OptionalTime
<1>3. p \in data /\ pc = "collect"
  BY <1>1 DEF Turn, PickInv, TypeOK
<1>4. /\ next' \in Pads \cup {NoPad} /\ next_time' \in Times \cup {None}
      /\ next' # NoPad => head[next'] = << next_time' >>
  BY <1>2, <1>3, Constants
  DEF PickInv, TypeOK, SkipEmpty, FirstCandidate, TakeFirst, Candidate
<1>5. TypeOK'
  BY <1>1, <1>4 DEF PickInv, TypeOK, OutsideLoop, spts_vars, pad_vars, history
<1>6. Waits' /\ Snapshot'
  BY <1>1 DEF PickInv, Waits, Snapshot, OutsideLoop, pad_vars
<1>7. LoopInv'
  <2>1. head' = head /\ data' = data /\ pc' = "collect"
    BY <1>1, <1>3 DEF OutsideLoop, pad_vars
  <2>2. CASE SkipEmpty(p)
    BY <1>3, <2>1, <2>2 DEF PickInv, LoopInv, SkipEmpty
  <2>3. CASE FirstCandidate(p)
    <3>1. next' = p /\ next_time' = head[p][1] /\ p \notin todo' /\ p # NoPad
      BY <2>3, Constants DEF FirstCandidate, TakeFirst
    <3>2. \A q \in data \ todo : head[q] = << >>
      BY <1>3, <2>3 DEF PickInv, LoopInv, FirstCandidate
    <3>3. todo' = IF next_time' = None THEN {} ELSE todo \ {p}
      BY <2>3 DEF FirstCandidate, TakeFirst
    <3>4. next_time' \in Nat
      BY <1>4, Constants
    <3> QED BY <1>3, <2>1, <3>1, <3>2, <3>3, <3>4 DEF LoopInv
  <2>4. CASE Candidate(p)
    <3>1. /\ next # NoPad /\ todo' = todo \ {p} /\ head[p] # << >>
          /\ next \in data \ todo
      BY <1>3, <2>4 DEF PickInv, LoopInv, Candidate
    <3>2. \A q \in Pads : head[q] # << >> => head[q][1] \in Nat
      BY Constants DEF PickInv, TypeOK, OptionalTime
    <3>3. next_time \in Nat /\ next_time <= None /\ None \in Nat
      BY Constants DEF PickInv, TypeOK
    <3>4. /\ next_time # None
          /\ \A q \in data \ todo : head[q] # << >> => next_time <= head[q][1]
      BY <1>1, <1>3, <3>1 DEF PickInv, LoopInv, Turn
    <3>5. data \subseteq Pads
      BY DEF PickInv, TypeOK
    <3>6. CASE Earlier(p)
      <4>1. next' = p /\ next_time' = head[p][1]
        BY <2>4, <3>6 DEF Candidate
      <4>2. head[p][1] < next_time
        BY <3>6 DEF Earlier
      <4>3. \A q \in data \ todo' : head[q] # << >> => head[p][1] <= head[q][1]
        BY <3>1, <3>2, <3>3, <3>4, <3>5, <4>2
      <4>4. head[p][1] # None
        BY <1>3, <3>1, <3>2, <3>3, <3>5, <4>2
      <4> QED BY <1>3, <2>1, <3>1, <4>1, <4>3, <4>4, Constants DEF LoopInv
    <3>7. CASE ~Earlier(p)
      <4>1. next' = next /\ next_time' = next_time
        BY <2>4, <3>7 DEF Candidate
      <4>2. next_time <= head[p][1]
        BY <3>1, <3>2, <3>3, <3>7 DEF Earlier
      <4> QED BY <1>3, <2>1, <3>1, <3>4, <4>1, <4>2 DEF LoopInv
    <3> QED BY <3>6, <3>7
  <2> QED BY <2>2, <2>3, <2>4
<1> QED BY <1>5, <1>6, <1>7 DEF PickInv

LEMMA EndOfCallbackPick ==
  ASSUME PickInv, WriteFrame \/ WriteIdrFrame \/ FoundNothing
  PROVE  PickInv'
<1>1. CASE WriteFrame
  <2>1. head' = [head EXCEPT ![next] = << >>] /\ pc' = "idle"
        /\ next' = NoPad /\ next_time' = None /\ data' = data /\ todo' = todo
    BY <1>1 DEF WriteFrame, Pop, Return
  <2>2. head' \in [Pads -> OptionalTime]
    BY <2>1 DEF PickInv, TypeOK, OptionalTime
  <2>3. next \in Pads /\ next[1] \in Kinds /\ next_time \in Nat
    BY <1>1, Constants DEF PickInv, TypeOK, WriteFrame, Chosen
  <2>4. started' \in BOOLEAN
    BY <1>1 DEF PickInv, TypeOK, WriteFrame, Sends
  <2>5. reached' \in Nat \cup {-1}
    BY <1>1, <2>3 DEF PickInv, TypeOK, WriteFrame, Larger
  <2>6. clock' \in Int
    <3>1. pcr_base(mpegtime(next_time)) \in Nat
      BY <2>3, PcrMonotone
    <3> QED BY <1>1, <3>1 DEF PickInv, TypeOK, WriteFrame, Larger
  <2>7. TypeOK'
    BY <1>1, <2>1, <2>2, <2>4, <2>5, <2>6 DEF PickInv, TypeOK, WriteFrame
  <2>8. Waits'
    BY <1>1, <2>1 DEF PickInv, TypeOK, Waits, WriteFrame
  <2>9. Snapshot' /\ LoopInv'
    BY <2>1 DEF Snapshot, LoopInv
  <2> QED BY <2>7, <2>8, <2>9 DEF PickInv
<1>2. CASE WriteIdrFrame
  <2>1. TypeOK'
    BY <1>2 DEF PickInv, TypeOK, WriteIdrFrame, spts_vars, pad_vars, loop_vars, history
  <2>2. Waits' /\ Snapshot' /\ LoopInv'
    BY <1>2 DEF PickInv, Waits, Snapshot, LoopInv, WriteIdrFrame, pad_vars
  <2> QED BY <2>1, <2>2 DEF PickInv
<1>3. CASE FoundNothing
  <2>1. TypeOK'
    BY <1>3 DEF PickInv, TypeOK, FoundNothing, Return, spts_vars, pad_vars, history
  <2>2. Waits' /\ Snapshot' /\ LoopInv'
    BY <1>3 DEF PickInv, Waits, Snapshot, LoopInv, FoundNothing, Return, pad_vars
  <2> QED BY <2>1, <2>2 DEF PickInv
<1> QED BY <1>1, <1>2, <1>3

LEMMA NextPick == PickInv /\ [Next]_vars => PickInv'
<1> SUFFICES ASSUME PickInv, [Next]_vars PROVE PickInv'
  OBVIOUS
<1>1. ASSUME NEW k \in Kinds, RequestPad(k) PROVE PickInv'
  BY <1>1, CollectPick DEF RequestPad
<1>2. ASSUME NEW k \in Kinds, RequestPadNotCollected(k) PROVE PickInv'
  <2>1. numsinkpads' \in [Kinds -> Nat] /\ pcr_reference' \in [Kinds -> BOOLEAN]
    BY <1>2, NewPad DEF PickInv, RequestPadNotCollected
  <2> QED
    BY <1>2, <2>1 DEF PickInv, TypeOK, Waits, Snapshot, LoopInv, RequestPadNotCollected,
                      pad_vars, loop_vars, history
<1>3. ASSUME NEW k \in Kinds, RequestPadNotLinked(k) PROVE PickInv'
  BY <1>3, CollectPick DEF RequestPadNotLinked
<1>4. CASE UNCHANGED vars
  BY <1>4 DEF PickInv, TypeOK, Waits, Snapshot, LoopInv, vars, spts_vars, pad_vars,
              loop_vars, history
<1> QED
  BY <1>1, <1>2, <1>3, <1>4, StartStopPick, UpstreamPick, CollectedPick, TurnPick,
     EndOfCallbackPick DEF Next, Callback

(* Types; in particular the buffer that is popped is there, so that        *)
(* spts_write_frame is never called with a null buffer.                    *)
THEOREM TypeCorrect == Spec => []TypeOK
<1>1. PickInv => TypeOK
  BY DEF PickInv
<1> QED BY <1>1, InitPick, NextPick, PTL DEF Spec

-----------------------------------------------------------------------------
(* The refinement.                                                         *)

LEMMA TakesEarliest == PickInv /\ WriteFrame => Merge!Take(next)
<1> SUFFICES ASSUME PickInv, WriteFrame PROVE Merge!Take(next)
  OBVIOUS
<1>1. /\ pc = "collect" /\ todo = {} /\ next # NoPad
      /\ head' = [head EXCEPT ![next] = << >>] /\ data' = data /\ eos' = eos
  BY DEF WriteFrame, Chosen, Pop, Return
<1>2. next \in data /\ head[next] = << next_time >>
  BY <1>1 DEF PickInv, TypeOK, LoopInv
<1>3. \A q \in data : head[q] # << >> \/ q \in eos
  BY <1>1 DEF PickInv, Snapshot
<1>4. next_time = None \/ \A q \in data : head[q] # << >> => next_time <= head[q][1]
  BY <1>1 DEF PickInv, LoopInv
<1>5. head[next] # << >> /\ head[next][1] = next_time
  BY <1>2
<1> QED BY <1>1, <1>2, <1>3, <1>4, <1>5 DEF Merge!Take, Merge!Earliest

LEMMA MergeStep == PickInv /\ [Next]_vars => [Merge!Next]_(Merge!vars)
<1> SUFFICES ASSUME PickInv, [Next]_vars PROVE [Merge!Next]_(Merge!vars)
  OBVIOUS
<1> USE DEF Merge!vars
<1>1. ASSUME NEW k \in Kinds,
             RequestPad(k) \/ RequestPadNotCollected(k) \/ RequestPadNotLinked(k)
      PROVE  UNCHANGED Merge!vars
  BY <1>1 DEF RequestPad, RequestPadNotCollected, RequestPadNotLinked, Collect, pad_vars, loop_vars
<1>2. CASE Start
  BY <1>2 DEF Start, pad_vars, loop_vars
<1>3. CASE Stop
  BY <1>3 DEF Stop, loop_vars, Merge!Next, Merge!Restart
<1>4. ASSUME NEW p \in Pads, Upstream(p) PROVE Merge!Next
  <2>1. CASE Eos(p)
    BY <2>1 DEF Eos, MayBring, loop_vars, Merge!Next, Merge!End
  <2>2. ASSUME NEW t \in Times \cup {None}, Chain(p, t) PROVE Merge!Next
    BY <2>2 DEF Chain, MayBring, loop_vars, Merge!Next, Merge!Arrive
  <2> QED BY <1>4, <2>1, <2>2 DEF Upstream
<1>5. CASE Collected
  BY <1>5 DEF PickInv, TypeOK, Collected, pad_vars, Merge!Next, Merge!Join
<1>6. ASSUME NEW p \in Pads, SkipEmpty(p) \/ FirstCandidate(p) \/ Candidate(p)
      PROVE  UNCHANGED Merge!vars
  BY <1>6 DEF SkipEmpty, FirstCandidate, Candidate, OutsideLoop, pad_vars
<1>7. CASE WriteFrame
  <2>1. next \in Pads
    BY <1>7 DEF PickInv, TypeOK, WriteFrame, Chosen
  <2> QED BY <1>7, <2>1, TakesEarliest DEF Merge!Next
<1>8. CASE WriteIdrFrame \/ FoundNothing
  BY <1>8 DEF WriteIdrFrame, FoundNothing, Return, pad_vars, loop_vars
<1>9. CASE UNCHANGED vars
  BY <1>9 DEF vars, pad_vars, loop_vars
<1> QED
  BY <1>1, <1>2, <1>3, <1>4, <1>5, <1>6, <1>7, <1>8, <1>9 DEF Next, Callback

(* sptsmuxer_collected implements EarliestFirst: it takes an earliest      *)
(* buffer, or one without a timestamp, and only when every pad it goes     *)
(* through has a buffer or has ended.                                      *)
THEOREM ImplementsEarliestFirst == Spec => PicksEarliest
<1>1. Init => Merge!Init
  BY DEF Init, Merge!Init
<1> QED BY <1>1, InitPick, NextPick, MergeStep, PTL DEF Spec, PicksEarliest, Merge!Spec

-----------------------------------------------------------------------------
(* The order.                                                              *)

LEMMA InitOrder == Init => OrderInv
  BY DEF Init, OrderInv, Brought

LEMMA RequestOrder ==
  ASSUME PickInv, OrderInv, NEW pad \in Pads, Collect(pad)
  PROVE  OrderInv'
<1>1. /\ UNCHANGED << head, eos, pc, data, latest, reached, clock >>
      /\ pads' = pads \cup {pad} /\ excused' = (excused \/ Late)
  BY DEF Collect, loop_vars
<1>2. Brought'
  BY <1>1 DEF OrderInv, Brought
<1>3. ~excused' => ~excused /\ pc # "collect" /\ reached = -1
  <2>1. ~excused' => ~excused /\ ~Late
    BY <1>1, Zenon
  <2>2. ~Late => pc # "collect" /\ reached = -1
    BY DEF Late, PickInv, TypeOK
  <2> QED BY <2>1, <2>2
<1>4. latest[pad] >= -1
  BY DEF PickInv, TypeOK
<1>5. ~excused' => \A p \in pads' : p \notin eos' => reached' <= latest'[p]
  BY <1>1, <1>3, <1>4 DEF OrderInv
<1>6. ~excused' /\ pc' = "collect" => data' = pads'
  BY <1>1, <1>3
<1>7. clock' <= IF reached' >= 0 THEN pcr_base(mpegtime(reached')) ELSE -1
  BY <1>1 DEF OrderInv
<1> QED BY <1>2, <1>5, <1>6, <1>7 DEF OrderInv

LEMMA ChainOrder ==
  ASSUME PickInv, OrderInv, NEW p \in Pads, NEW t \in Times \cup {None}, Chain(p, t)
  PROVE  OrderInv'
<1>1. /\ UNCHANGED << pads, eos, pc, data, reached, clock >>
      /\ pc = "idle"
      /\ head' = [head EXCEPT ![p] = << t >>]
      /\ latest' = IF t = None THEN latest ELSE [latest EXCEPT ![p] = Larger(latest[p], t)]
      /\ excused' = (excused \/ t = None)
      /\ latest[p] - Reorder <= t
  BY DEF Chain, MayBring, loop_vars
<1>2. t \in Nat /\ Reorder \in Nat
  BY Constants, SpTsMuxerAssumption
<1>3. \A q \in Pads :
        /\ latest[q] \in Int
        /\ latest'[q] = IF q = p /\ t # None THEN Larger(latest[p], t) ELSE latest[q]
  BY <1>1 DEF PickInv, TypeOK
<1>4. t <= Larger(latest[p], t) /\ latest[p] <= Larger(latest[p], t)
      /\ Larger(latest[p], t) - Reorder <= t
  BY <1>1, <1>2, <1>3 DEF Larger
<1>5. \A q \in Pads : head'[q] = IF q = p THEN << t >> ELSE head[q]
  BY <1>1 DEF PickInv, TypeOK
<1>6. Brought'
  <2> SUFFICES ASSUME NEW q \in Pads, head'[q] # << >>
               PROVE  IF head'[q][1] = None THEN excused'
                      ELSE /\ head'[q][1] <= latest'[q]
                           /\ latest'[q] - Reorder <= head'[q][1]
    BY DEF Brought
  <2>1. CASE q = p
    <3>1. head'[q] = << t >> /\ (t # None => latest'[q] = Larger(latest[p], t))
      BY <1>3, <1>5, <2>1
    <3>2. t = None => excused'
      BY <1>1, Zenon
    <3> QED BY <1>4, <3>1, <3>2
  <2>2. CASE q # p
    BY <1>1, <1>3, <1>5, <2>2 DEF OrderInv, Brought
  <2> QED BY <2>1, <2>2
<1>7. \A q \in Pads : latest[q] <= latest'[q]
  BY <1>3, <1>4
<1>8. ~excused' => \A q \in pads' : q \notin eos' => reached' <= latest'[q]
  <2> SUFFICES ASSUME ~excused', NEW q \in pads', q \notin eos'
               PROVE  reached' <= latest'[q]
    OBVIOUS
  <2>1. q \in Pads /\ reached <= latest[q]
    BY <1>1 DEF PickInv, TypeOK, OrderInv
  <2>2. reached \in Int /\ latest[q] \in Int /\ latest'[q] \in Int /\ latest[q] <= latest'[q]
    BY <1>2, <1>3, <1>7, <2>1 DEF PickInv, TypeOK, Larger
  <2> QED BY <1>1, <2>1, <2>2
<1> QED BY <1>1, <1>6, <1>8 DEF OrderInv

LEMMA WriteOrder == ASSUME PickInv, OrderInv, WriteFrame PROVE OrderInv'
<1>1. /\ pc = "collect" /\ pc' = "idle" /\ todo = {} /\ next # NoPad
      /\ head' = [head EXCEPT ![next] = << >>]
      /\ UNCHANGED << pads, eos, data, latest, excused >>
      /\ reached' = Larger(reached, next_time)
  BY DEF WriteFrame, Chosen, Pop, Return
<1>2. /\ next \in Pads /\ head[next] = << next_time >> /\ next_time \in Nat
      /\ reached \in Nat \cup {-1} /\ clock \in Int
  BY <1>1, Constants DEF PickInv, TypeOK
<1>3. Brought'
  BY <1>1 DEF PickInv, TypeOK, OrderInv, Brought
<1>4. ~excused' => \A p \in pads' : p \notin eos' => reached' <= latest'[p]
  <2> SUFFICES ASSUME ~excused, NEW p \in pads, p \notin eos
               PROVE  reached' <= latest[p]
    BY <1>1
  <2>1. p \in data /\ p \in Pads
    BY <1>1 DEF PickInv, TypeOK, OrderInv
  <2>2. head[p] # << >> /\ head[p][1] \in Nat /\ latest[p] \in Int
    BY <1>1, <2>1, Constants DEF PickInv, TypeOK, Snapshot, OptionalTime
  <2>3. next_time # None
    <3>1. head[next] # << >> /\ head[next][1] = next_time
      BY <1>2
    <3>2. next_time = None => excused
      BY <1>2, <3>1, Zenon DEF OrderInv, Brought
    <3> QED BY <3>2
  <2>4. next_time <= head[p][1]
    BY <1>1, <2>1, <2>2, <2>3 DEF PickInv, LoopInv
  <2>5. head[p][1] <= latest[p] /\ reached <= latest[p]
    BY <2>1, <2>2 DEF OrderInv, Brought
  <2> QED BY <1>1, <1>2, <2>2, <2>4, <2>5 DEF Larger
<1>5. clock' <= IF reached' >= 0 THEN pcr_base(mpegtime(reached')) ELSE -1
  <2> DEFINE base(t) == pcr_base(mpegtime(t))
  <2>1. /\ reached' \in Nat /\ next_time <= reached'
        /\ reached \in Nat => reached <= reached'
    BY <1>1, <1>2 DEF Larger
  <2>2. base(next_time) \in Nat /\ base(reached') \in Nat /\ base(next_time) <= base(reached')
    BY <1>2, <2>1, PcrMonotone
  <2>3. reached \in Nat => base(reached) \in Nat /\ base(reached) <= base(reached')
    BY <2>1, PcrMonotone
  <2>4. clock <= IF reached >= 0 THEN base(reached) ELSE -1
    BY DEF OrderInv
  <2>5. clock' \in {clock, Larger(clock, base(next_time))}
    BY DEF WriteFrame
  <2> HIDE DEF base
  <2>6. clock <= base(reached')
    BY <1>2, <2>2, <2>3, <2>4
  <2>7. clock' <= base(reached')
    BY <1>2, <2>2, <2>5, <2>6 DEF Larger
  <2>8. clock' <= pcr_base(mpegtime(reached'))
    BY <2>7 DEF base
  <2> QED BY <2>1, <2>8
<1> QED BY <1>1, <1>3, <1>4, <1>5 DEF OrderInv

LEMMA NextOrder == PickInv /\ OrderInv /\ [Next]_vars => OrderInv'
<1> SUFFICES ASSUME PickInv, OrderInv, [Next]_vars PROVE OrderInv'
  OBVIOUS
<1>1. ASSUME NEW k \in Kinds, RequestPad(k) \/ RequestPadNotLinked(k) PROVE OrderInv'
  <2>1. NewStream(k) /\ Collect(<< k, numsinkpads[k] + 1 >>)
    BY <1>1 DEF RequestPad, RequestPadNotLinked
  <2>2. << k, numsinkpads[k] + 1 >> \in Pads
    BY <2>1, NewPad DEF PickInv
  <2> QED BY <2>1, <2>2, RequestOrder
<1>2. CASE /\ UNCHANGED << pads, head, pc, data, latest, reached, clock, excused >>
           /\ eos \subseteq eos'
  BY <1>2 DEF OrderInv, Brought
<1>3. ASSUME NEW k \in Kinds, RequestPadNotCollected(k) PROVE OrderInv'
  BY <1>2, <1>3 DEF RequestPadNotCollected, pad_vars, loop_vars, history
<1>4. CASE Start
  BY <1>2, <1>4 DEF Start, pad_vars, loop_vars
<1>5. CASE Stop
  <2>1. /\ UNCHANGED << pads, data >> /\ pc' = "idle"
        /\ head' = [p \in Pads |-> << >>] /\ latest' = [p \in Pads |-> -1]
        /\ reached' = -1 /\ clock' = -1
    BY <1>5 DEF Stop, loop_vars
  <2> QED BY <2>1 DEF OrderInv, Brought, PickInv, TypeOK
<1>6. ASSUME NEW p \in Pads, Upstream(p) PROVE OrderInv'
  <2>1. CASE Eos(p)
    BY <1>2, <2>1 DEF Eos, MayBring, loop_vars, history
  <2> QED BY <1>6, <2>1, ChainOrder DEF Upstream
<1>7. CASE Collected
  BY <1>7 DEF OrderInv, Brought, Collected, pad_vars, history
<1>8. ASSUME NEW p \in Pads, SkipEmpty(p) \/ FirstCandidate(p) \/ Candidate(p)
      PROVE  OrderInv'
  BY <1>2, <1>8 DEF SkipEmpty, FirstCandidate, Candidate, OutsideLoop, pad_vars, history
<1>9. CASE WriteIdrFrame \/ FoundNothing
  BY <1>9 DEF OrderInv, Brought, WriteIdrFrame, FoundNothing, Return, pad_vars, loop_vars, history
<1>10. CASE UNCHANGED vars
  BY <1>2, <1>10 DEF vars, pad_vars, loop_vars, history
<1> QED
  BY <1>1, <1>3, <1>4, <1>5, <1>6, <1>7, <1>8, <1>9, <1>10, WriteOrder DEF Next, Callback

LEMMA Order == Spec => [](PickInv /\ OrderInv)
  BY InitPick, InitOrder, NextPick, NextOrder, PTL DEF Spec

(* What a frame that is about to be written knows of those before it.      *)
LEMMA ChosenInOrder ==
  ASSUME PickInv, OrderInv, Chosen, ~excused
  PROVE  /\ next_time \in Nat
         /\ next_time >= reached - Reorder
<1>1. next \in Pads /\ head[next] = << next_time >> /\ next_time \in Nat
  BY Constants DEF PickInv, TypeOK, Chosen
<1>2. next \in pads /\ next \notin eos
  BY <1>1 DEF PickInv, Waits
<1>3. latest[next] - Reorder <= next_time /\ reached <= latest[next]
  BY <1>1, <1>2 DEF OrderInv, Brought
<1>4. latest[next] \in Int /\ reached \in Int /\ Reorder \in Nat
  BY <1>1, SpTsMuxerAssumption DEF PickInv, TypeOK
<1> QED BY <1>1, <1>3, <1>4

(* The order of the output is no worse than that of each input.            *)
THEOREM OutputInTimeOrder == Spec => []InTimeOrder
<1>1. PickInv /\ OrderInv => InTimeOrder
  BY ChosenInOrder DEF InTimeOrder
<1> QED BY <1>1, Order, PTL

(* The 10250 ticks that the PCR runs ahead are enough for frames that are  *)
(* no further out of order than that.                                      *)
THEOREM FramesNotTooLate == Spec => []NeverTooLate
<1>1. PickInv /\ OrderInv => NeverTooLate
  <2> SUFFICES ASSUME PickInv, OrderInv, Chosen, ~excused, ReorderTicks <= PCR_LEAD
               PROVE  mpegtime(next_time) >= clock
    BY DEF NeverTooLate
  <2>1. next_time \in Nat /\ next_time >= reached - Reorder
    BY ChosenInOrder
  <2>2. mpegtime(next_time) \in Nat
    BY <2>1, Mpegtime
  <2>3. reached \in Nat \cup {-1} /\ clock \in Int
    BY DEF PickInv, TypeOK
  <2>4. CASE reached = -1
    BY <2>2, <2>3, <2>4 DEF OrderInv
  <2>5. CASE reached \in Nat
    <3>1. pcr_base(mpegtime(reached)) <= mpegtime(next_time)
      BY <2>1, <2>5, LeadCoversReorder
    <3>2. clock <= pcr_base(mpegtime(reached)) /\ pcr_base(mpegtime(reached)) \in Nat
      BY <2>5, PcrMonotone DEF OrderInv
    <3> HIDE DEF NeverTooLate
    <3> QED BY <2>2, <2>3, <3>1, <3>2
  <2> QED BY <2>3, <2>4, <2>5
<1> QED BY <1>1, Order, PTL
=============================================================================
