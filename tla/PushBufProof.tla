----------------------------- MODULE PushBufProof ---------------------------
(***************************************************************************)
(* Theorems about PushBuf, for any number of muxers that share the memory  *)
(* and any sizes, set at any time or never.                                *)
(***************************************************************************)
EXTENDS PushBuf, SequenceTheorems, TLAPS

Unstored(m) == IF pc[m] \in {"allocate", "store"} THEN 1 ELSE 0

(* Packets that came and were neither pushed, nor are held, nor about to   *)
(* be stored.                                                              *)
Loss(m) == handed[m] - pushed[m] - pushbufused[m] - Unstored(m)

(* What a muxer holds is forgotten by its next allocation, which a failure *)
(* of another one has made due.                                            *)
Threatened(m) ==
  /\ pushbuf = << >> \/ pc[m] = "allocate"
  /\ pushbufused[m] > 0 \/ pc[m] \in {"store", "compare", "push"}
Owed(m) == IF Threatened(m) THEN 1 ELSE 0

(* n times less than a buffer, of one of the sizes in use.                 *)
Within(lost, n, sizes) == \E s \in sizes : s > 0 /\ lost <= n * (s - 1)

(* Every time that packets were forgotten, or are about to be, has had its *)
(* own failed allocation.                                                  *)
Budget(m) ==
  /\ Loss(m) >= 0
  /\ \E n \in Nat : n + Owed(m) <= failures /\ Within(Loss(m), n, inUse)
Solvent(m) == handed[m] > 0 => Budget(m)

(* The fill level never passes the size, and reaches it only inside a call.*)
Fill(m) ==
  /\ handed[m] > 0 => pushbufsize[m] > 0
  /\ pc[m] \in {"idle", "allocate", "store"} /\ handed[m] > 0 => pushbufused[m] < pushbufsize[m]
  /\ pc[m] = "compare" => 0 < pushbufused[m] /\ pushbufused[m] <= pushbufsize[m]
  /\ pc[m] = "push" => pushbufused[m] = pushbufsize[m]

(* Until an allocation fails no packets are held without memory, so the    *)
(* allocation, which sets the fill level to 0, forgets none.               *)
Memory(m) ==
  /\ pushbufused[m] > 0 => pushbuf # << >>
  /\ pc[m] = "allocate" => pushbufused[m] = 0
  /\ pc[m] \in {"store", "compare", "push"} => pushbuf # << >>

(* A muxer without packets is in no call.  The size of any other is one of *)
(* those in use, and an allocation fails only for the size 0.              *)
Begun(m) == handed[m] = 0 => pushbufused[m] = 0 /\ pushed[m] = 0 /\ pc[m] = "idle"
InUse(m) ==
  /\ handed[m] > 0 => pushbufsize[m] \in inUse
  /\ failures # 0 => 0 \in inUse

Slots == (Muxers \X Nat) \cup {Unwritten}

IInv ==
  /\ TypeOK
  /\ pushbuf \in Seq(Slots)
  /\ \A m \in Muxers : Begun(m) /\ InUse(m)
  /\ failures = 0 => \A m \in Muxers : Memory(m)
  /\ \A m \in Muxers : m \notin misset => Fill(m) /\ Solvent(m)

LEMMA CountersAreNatural ==
  ASSUME TypeOK
  PROVE  /\ \A n \in Muxers : /\ pushbufsize[n] \in Nat /\ pushbufused[n] \in Nat
                              /\ handed[n] \in Nat /\ pushed[n] \in Nat
         /\ failures \in Nat /\ inUse \subseteq Nat
<1>1. Sizes \cup {0} \subseteq Nat /\ 0..MaxPackets \subseteq Nat
  BY PushBufAssumption
<1> QED BY <1>1 DEF TypeOK

(* Arithmetic of the budget.                                               *)
LEMMA Products ==
  ASSUME NEW n \in Nat, NEW k \in Nat, n <= k, NEW c \in Nat, NEW d \in Nat, c <= d
  PROVE  n * c <= k * d
<1>1. PICK i \in Nat, j \in Nat : k = n + i /\ d = c + j
  <2>1. k - n \in Nat /\ d - c \in Nat /\ k = n + (k - n) /\ d = c + (d - c)
    OBVIOUS
  <2> QED BY <2>1
<1>2. k * d = n * c + n * j + i * c + i * j
  BY <1>1
<1>3. n * j \in Nat /\ i * c \in Nat /\ i * j \in Nat /\ n * c \in Nat
  OBVIOUS
<1> HIDE <1>1
<1> QED BY <1>2, <1>3

LEMMA WithinMore ==
  ASSUME NEW lost \in Int, NEW n \in Nat, NEW k \in Nat, n <= k,
         NEW S \in SUBSET Nat, NEW T \in SUBSET Nat, S \subseteq T, Within(lost, n, S)
  PROVE  Within(lost, k, T)
<1>1. PICK s \in S : s > 0 /\ lost <= n * (s - 1)
  BY DEF Within
<1>2. s \in Nat /\ s - 1 \in Nat
  BY <1>1
<1>3. n * (s - 1) <= k * (s - 1)
  BY <1>2, Products
<1>4. n * (s - 1) \in Int /\ k * (s - 1) \in Int
  BY <1>2
<1>5. lost <= k * (s - 1)
  BY <1>1, <1>3, <1>4
<1> QED BY <1>1, <1>5 DEF Within

LEMMA WithinOnceMore ==
  ASSUME NEW lost \in Int, NEW n \in Nat, NEW S \in SUBSET Nat, Within(lost, n, S),
         NEW size \in S, NEW used \in Nat, used < size
  PROVE  Within(lost + used, n + 1, S)
<1>1. PICK s \in S : s > 0 /\ lost <= n * (s - 1)
  BY DEF Within
<1>2. PICK t \in S : s <= t /\ size <= t
  BY <1>1
<1>3. s - 1 \in Nat /\ t - 1 \in Nat /\ s - 1 <= t - 1 /\ used <= t - 1 /\ t > 0
  BY <1>1, <1>2
<1>4. n * (s - 1) <= n * (t - 1)
  BY <1>3, Products
<1> PICK c \in Nat : c = t - 1
  BY <1>3
<1>5. (n + 1) * c = n * c + c
  OBVIOUS
<1>6. n * (s - 1) \in Int /\ n * c \in Int
  BY <1>3
<1>7. lost + used <= (n + 1) * c
  BY <1>1, <1>3, <1>4, <1>5, <1>6
<1> QED BY <1>2, <1>3, <1>7 DEF Within

(* A step that loses nothing keeps the budget, if it threatens the muxer   *)
(* only by a failure.                                                      *)
LEMMA SameLoss ==
  ASSUME TypeOK, TypeOK', NEW m \in Muxers, Budget(m), Loss(m)' = Loss(m),
         Owed(m)' - Owed(m) <= failures' - failures, failures' >= failures, inUse \subseteq inUse'
  PROVE  Budget(m)'
<1>1. /\ failures \in Nat /\ failures' \in Nat /\ Loss(m) \in Int
      /\ inUse \in SUBSET Nat /\ inUse' \in SUBSET Nat
  <2>1. failures' \in Nat /\ inUse' \subseteq Nat
    BY PushBufAssumption DEF TypeOK
  <2> QED BY <2>1, CountersAreNatural DEF Loss, Unstored
<1>2. PICK n \in Nat : n + Owed(m) <= failures /\ Within(Loss(m), n, inUse)
  BY DEF Budget
<1>3. n + Owed(m)' <= failures'
  <2>1. Owed(m) \in Int /\ Owed(m)' \in Int
    BY DEF Owed
  <2> QED BY <1>1, <1>2, <2>1
<1>4. Within(Loss(m), n, inUse')
  <2> PICK lost \in Int, S \in SUBSET Nat, T \in SUBSET Nat : lost = Loss(m) /\ S = inUse /\ T = inUse'
    BY <1>1
  <2>1. Within(lost, n, S) /\ S \subseteq T /\ n <= n
    BY <1>2
  <2>2. Within(lost, n, T)
    BY <2>1, WithinMore
  <2> QED BY <2>2
<1>5. Within(Loss(m)', n, inUse')
  BY <1>4
<1>6. Loss(m)' >= 0
  BY <1>1 DEF Budget
<1> QED BY <1>3, <1>5, <1>6 DEF Budget, Within

(* What a step owes each muxer.                                            *)
Keeps(n) ==
  /\ Begun(n)' /\ InUse(n)'
  /\ failures' = 0 => Memory(n)'
  /\ n \notin misset' => Fill(n)' /\ Solvent(n)'

LEMMA Assemble ==
  ASSUME TypeOK', pushbuf' \in Seq(Slots), \A n \in Muxers : Keeps(n)
  PROVE  IInv'
BY DEF IInv, Keeps

(* What the lemmas of the single steps start from.                         *)
LEMMA Facts ==
  ASSUME IInv
  PROVE  /\ TypeOK /\ pushbuf \in Seq(Slots) /\ failures \in Nat
         /\ \A n \in Muxers :
              /\ pushbufsize[n] \in Nat /\ pushbufused[n] \in Nat
              /\ handed[n] \in Nat /\ pushed[n] \in Nat
              /\ Begun(n) /\ InUse(n) /\ (failures = 0 => Memory(n))
              /\ n \notin misset => Fill(n) /\ Solvent(n)
BY CountersAreNatural DEF IInv

LEMMA CallKeepsIInv ==
  ASSUME IInv, NEW m \in Muxers, Call(m) PROVE IInv'
<1>1. TypeOK'
  <2>1. handed' \in [Muxers -> 0..MaxPackets]
    BY Facts, PushBufAssumption DEF Call, TypeOK
  <2>2. pc' \in [Muxers -> {"idle", "allocate", "store", "compare", "push"}]
    BY Facts DEF Call, TypeOK
  <2>3. inUse' \subseteq Sizes \cup {0} /\ misset' \subseteq Muxers
    BY Facts DEF Call, TypeOK
  <2> QED BY Facts, <2>1, <2>2, <2>3 DEF Call, TypeOK
<1>2. ASSUME NEW n \in Muxers PROVE Keeps(n)
  <2>1. /\ handed'[n] = IF n = m THEN handed[m] + 1 ELSE handed[n]
        /\ pc'[n] = IF n = m THEN (IF pushbuf = << >> THEN "allocate" ELSE "store") ELSE pc[n]
        /\ UNCHANGED << pushbuf, pushbufsize, pushbufused, failures, pushed >>
        /\ inUse' = inUse \cup {pushbufsize[m]}
        /\ (n \notin misset' => n \notin misset /\ (n = m => pushbufsize[m] # 0))
        /\ pc[m] = "idle"
    BY Facts DEF Call, TypeOK
  <2>2. Begun(n)' /\ InUse(n)'
    BY Facts, <2>1 DEF Begun, InUse
  <2>3. failures' = 0 => Memory(n)'
    BY Facts, <2>1 DEF Memory
  <2>4. n \notin misset' => Fill(n)'
    BY Facts, <2>1 DEF Fill, Begun
  <2>5. ASSUME n \notin misset' PROVE Solvent(n)'
    <3>1. Loss(n)' = Loss(n)
      <4>1. CASE n = m
        <5>1. Unstored(n) = 0 /\ Unstored(n)' = 1 /\ handed'[n] = handed[n] + 1
          BY <2>1, <4>1 DEF Unstored
        <5>2. handed[n] \in Int /\ pushed[n] \in Int /\ pushbufused[n] \in Int
          BY Facts
        <5>3. pushed'[n] = pushed[n] /\ pushbufused'[n] = pushbufused[n]
          BY <2>1
        <5>4. \A h, p, u \in Int : (h + 1) - p - u - 1 = h - p - u - 0
          OBVIOUS
        <5>5. Loss(n)' = (handed[n] + 1) - pushed[n] - pushbufused[n] - 1
          BY <5>1, <5>3 DEF Loss
        <5>6. Loss(n) = handed[n] - pushed[n] - pushbufused[n] - 0
          BY <5>1 DEF Loss
        <5> QED BY <5>2, <5>4, <5>5, <5>6
      <4>2. CASE n # m
        BY <2>1, <4>2 DEF Loss, Unstored
      <4> QED BY <4>1, <4>2
    <3>2. Owed(n)' <= Owed(n)
      BY Facts, <2>1 DEF Owed, Threatened
    <3>3. CASE n = m /\ handed[m] = 0
      <4>1. Loss(n) = 0 /\ Owed(n)' = 0
        BY Facts, <2>1, <3>3 DEF Loss, Unstored, Owed, Threatened, Begun
      <4>2. pushbufsize[m] \in inUse' /\ pushbufsize[m] > 0 /\ 0 <= 0 * (pushbufsize[m] - 1)
        BY Facts, <2>1, <2>5, <3>3
      <4>3. Within(0, 0, inUse')
        BY <4>2 DEF Within
      <4>4. Loss(n)' >= 0 /\ 0 + Owed(n)' <= failures' /\ Within(Loss(n)', 0, inUse')
        BY Facts, <2>1, <3>1, <4>1, <4>3
      <4> QED BY <4>4 DEF Solvent, Budget, Within
    <3>4. CASE ~(n = m /\ handed[m] = 0)
      <4>1. handed'[n] > 0 => Budget(n)
        BY Facts, <2>1, <2>5, <3>4 DEF Solvent
      <4>2. Owed(n)' - Owed(n) <= failures' - failures /\ failures' >= failures
        BY Facts, <2>1, <3>2 DEF Owed
      <4>3. TypeOK /\ inUse \subseteq inUse'
        BY Facts, <2>1
      <4>4. Budget(n) => Budget(n)'
        BY <1>1, <3>1, <4>2, <4>3, SameLoss
      <4> QED BY <4>1, <4>4 DEF Solvent
    <3> QED BY <3>3, <3>4
  <2> QED BY <2>2, <2>3, <2>4, <2>5 DEF Keeps
<1>3. pushbuf' \in Seq(Slots)
  BY Facts DEF Call
<1> QED BY <1>1, <1>2, <1>3, Assemble

(* A muxer that may have held something forgets it: the loss that was due. *)
LEMMA AllocationForgets ==
  ASSUME IInv, TypeOK', NEW m \in Muxers, Allocate(m), m \notin misset
  PROVE  Solvent(m)' /\ pushbufsize[m] > 0
<1>1. /\ handed[m] > 0 /\ pc[m] = "allocate" /\ pushbufsize[m] \in inUse
      /\ pushbufused[m] < pushbufsize[m] /\ pushbufsize[m] > 0
  BY Facts DEF Allocate, Begun, InUse, Fill
<1>2. /\ pushbufused'[m] = 0 /\ pc'[m] = "store" /\ Len(pushbuf') = pushbufsize[m]
      /\ UNCHANGED << handed, pushed, inUse, failures >>
  BY Facts, <1>1 DEF Allocate, TypeOK
<1>3. Loss(m) \in Int /\ Loss(m)' = Loss(m) + pushbufused[m] /\ Budget(m)
  BY Facts, <1>1, <1>2 DEF Loss, Unstored, Solvent
<1>4. Owed(m)' = 0
  <2>1. pushbuf' # << >>
    BY Facts, <1>1, <1>2
  <2> QED BY <1>2, <2>1 DEF Owed, Threatened
<1>5. PICK n \in Nat : n + Owed(m) <= failures /\ Within(Loss(m), n, inUse)
  BY <1>3 DEF Budget
<1>6. inUse \in SUBSET Nat /\ failures \in Nat
  BY Facts, CountersAreNatural
<1>7. CASE pushbufused[m] = 0
  <2>1. Loss(m)' = Loss(m)
    BY <1>3, <1>7
  <2>2. Owed(m)' - Owed(m) <= failures' - failures /\ failures' >= failures /\ inUse \subseteq inUse'
    BY <1>2, <1>4, <1>6 DEF Owed
  <2>3. Budget(m)'
    BY Facts, <1>3, <2>1, <2>2, SameLoss
  <2> QED BY <1>1, <2>3 DEF Solvent
<1>8. CASE pushbufused[m] # 0
  <2>1. Owed(m) = 1
    BY Facts, <1>1, <1>8 DEF Owed, Threatened
  <2>2. n + 1 \in Nat /\ (n + 1) + Owed(m)' <= failures'
    BY <1>2, <1>4, <1>5, <1>6, <2>1
  <2>3. Within(Loss(m) + pushbufused[m], n + 1, inUse)
    BY Facts, <1>1, <1>3, <1>5, <1>6, WithinOnceMore
  <2>4. Within(Loss(m)', n + 1, inUse')
    BY <1>2, <1>3, <2>3
  <2>5. Loss(m)' >= 0
    BY Facts, <1>3 DEF Budget
  <2>6. Budget(m)'
    <3> PICK k \in Nat : k = n + 1
      BY <2>2
    <3>1. Within(Loss(m)', k, inUse')
      BY <2>4
    <3>2. k + Owed(m)' <= failures'
      BY <2>2
    <3> QED BY <2>5, <3>1, <3>2 DEF Budget, Within
  <2> QED BY <1>1, <2>6 DEF Solvent
<1> QED BY <1>1, <1>7, <1>8

LEMMA AllocateKeepsIInv ==
  ASSUME IInv, NEW m \in Muxers, Allocate(m) PROVE IInv'
<1>1. pushbuf' = [i \in 1..pushbufsize[m] |-> Unwritten]
  BY DEF Allocate
<1>2. pushbuf' \in Seq(Slots) /\ (pushbuf' = << >> <=> pushbufsize[m] = 0)
  BY Facts, <1>1 DEF Slots
<1>3. /\ pc[m] = "allocate" /\ handed[m] # 0
      /\ UNCHANGED << pushbufsize, handed, pushed, inUse, misset >>
      /\ failures' = IF pushbufsize[m] = 0 THEN failures + 1 ELSE failures
  BY Facts DEF Allocate, Begun
<1>4. TypeOK'
  <2>1. failures' \in Nat
    BY Facts, <1>3
  <2>2. pc' \in [Muxers -> {"idle", "allocate", "store", "compare", "push"}]
    BY Facts DEF Allocate, TypeOK
  <2>3. pushbufused' \in [Muxers -> Nat]
    BY Facts DEF Allocate, TypeOK
  <2> QED BY Facts, <1>3, <2>1, <2>2, <2>3 DEF Allocate, TypeOK
<1>5. ASSUME NEW n \in Muxers PROVE Keeps(n)
  <2>1. /\ pushbufused'[n] = IF n = m THEN 0 ELSE pushbufused[n]
        /\ n # m => pc'[n] = pc[n]
        /\ pc'[m] = IF pushbufsize[m] = 0 THEN "idle" ELSE "store"
    BY Facts DEF Allocate, TypeOK
  <2>2. Begun(n)'
    BY Facts, <1>3, <2>1 DEF Begun
  <2>3. InUse(n)'
    BY Facts, <1>3, <2>1 DEF InUse
  <2>4. failures' = 0 => Memory(n)'
    BY Facts, <1>2, <1>3, <2>1 DEF Memory
  <2>5. ASSUME n \notin misset' PROVE Fill(n)' /\ Solvent(n)'
    <3>1. CASE n = m
      <4>1. Solvent(m)' /\ pushbufsize[m] > 0
        BY <1>3, <1>4, <2>5, <3>1, AllocationForgets
      <4> QED BY Facts, <1>3, <2>1, <3>1, <4>1 DEF Fill
    <3>2. CASE n # m
      <4>1. Loss(n)' = Loss(n)
        BY <1>3, <2>1, <3>2 DEF Loss, Unstored
      <4>2. Owed(n)' - Owed(n) <= failures' - failures /\ failures' >= failures
        BY Facts, <1>2, <1>3, <2>1, <3>2 DEF Owed, Threatened
      <4>3. TypeOK /\ inUse \subseteq inUse'
        BY Facts, <1>3
      <4>4. Budget(n) => Budget(n)'
        BY <1>4, <4>1, <4>2, <4>3, SameLoss
      <4>5. Solvent(n)'
        BY Facts, <1>3, <2>5, <4>4 DEF Solvent
      <4> QED BY Facts, <1>3, <2>1, <2>5, <3>2, <4>5 DEF Fill
    <3> QED BY <3>1, <3>2
  <2> QED BY <2>2, <2>3, <2>4, <2>5 DEF Keeps
<1> QED BY <1>2, <1>4, <1>5, Assemble

(* A step that counts no packet as lost: Loss stays.                       *)
LEMMA StoreKeepsIInv ==
  ASSUME IInv, NEW m \in Muxers, Store(m) PROVE IInv'
<1>1. /\ pc[m] = "store" /\ handed[m] # 0
      /\ UNCHANGED << pushbufsize, handed, failures, pushed, inUse, misset >>
  BY Facts DEF Store, Begun
<1>2. pushbuf' \in Seq(Slots) /\ (pushbuf' = << >> <=> pushbuf = << >>)
  <2>1. CASE StorePacket(m)
    <3>1. pushbuf' = [pushbuf EXCEPT ![pushbufused[m] + 1] = Packet(m, handed[m])]
      BY <2>1 DEF StorePacket
    <3>2. Packet(m, handed[m]) \in Slots
      BY Facts DEF Packet, Slots
    <3>3. CASE pushbufused[m] + 1 \in 1..Len(pushbuf)
      BY Facts, <3>1, <3>2, <3>3, ExceptSeq
    <3>4. CASE pushbufused[m] + 1 \notin 1..Len(pushbuf)
      <4>1. pushbuf' = pushbuf
        BY Facts, <3>1, <3>4, LenProperties
      <4> QED BY Facts, <4>1
    <3> QED BY <3>3, <3>4
  <2>2. CASE UNCHANGED pushbuf
    BY Facts, <2>2
  <2> QED BY <2>1, <2>2 DEF Store
<1>3. /\ pushbufused'[m] \in Nat
      /\ pushbufused' = [pushbufused EXCEPT ![m] = pushbufused'[m]]
      /\ pushbufused[m] < pushbufsize[m] => pushbufused'[m] = pushbufused[m] + 1
  BY Facts DEF Store, StorePacket, TypeOK
<1>4. TypeOK'
  <2>1. overrun' \in BOOLEAN
    BY Facts DEF Store, StorePacket, TypeOK
  <2>2. pushbufused' \in [Muxers -> Nat]
    BY Facts, <1>3 DEF TypeOK
  <2> QED BY Facts, <1>1, <2>1, <2>2 DEF Store, TypeOK
<1>5. ASSUME NEW n \in Muxers PROVE Keeps(n)
  <2>1. /\ pc'[n] = IF n = m THEN "compare" ELSE pc[n]
        /\ n # m => pushbufused'[n] = pushbufused[n]
    BY Facts, <1>3 DEF Store, TypeOK
  <2>2. Begun(n)' /\ InUse(n)'
    BY Facts, <1>1, <2>1 DEF Begun, InUse
  <2>3. failures' = 0 => Memory(n)'
    BY Facts, <1>1, <1>2, <2>1 DEF Memory
  <2>4. ASSUME n \notin misset' PROVE Fill(n)' /\ Solvent(n)'
    <3>1. Fill(n) /\ (n = m => pushbufused'[n] = pushbufused[n] + 1)
      BY Facts, <1>1, <1>3, <2>4 DEF Fill
    <3>2. Fill(n)'
      BY Facts, <1>1, <2>1, <3>1 DEF Fill
    <3>3. Loss(n)' = Loss(n)
      BY Facts, <1>1, <2>1, <3>1 DEF Loss, Unstored
    <3>4. Owed(n)' - Owed(n) <= failures' - failures /\ failures' >= failures
      BY Facts, <1>1, <1>2, <2>1 DEF Owed, Threatened
    <3>5. TypeOK /\ inUse \subseteq inUse'
      BY Facts, <1>1
    <3>6. Budget(n) => Budget(n)'
      BY <1>4, <3>3, <3>4, <3>5, SameLoss
    <3> QED BY Facts, <1>1, <2>4, <3>2, <3>6 DEF Solvent
  <2> QED BY <2>2, <2>3, <2>4 DEF Keeps
<1> QED BY <1>2, <1>4, <1>5, Assemble

LEMMA CompareKeepsIInv ==
  ASSUME IInv, NEW m \in Muxers, Compare(m) PROVE IInv'
<1>1. TypeOK'
  BY Facts DEF Compare, TypeOK
<1>2. ASSUME NEW n \in Muxers PROVE Keeps(n)
  <2>1. /\ pc'[n] = IF n = m
                    THEN IF pushbufused[m] = pushbufsize[m] THEN "push" ELSE "idle"
                    ELSE pc[n]
        /\ UNCHANGED << pushbuf, pushbufsize, pushbufused, handed, failures, pushed, inUse, misset >>
        /\ pc[m] = "compare"
    BY Facts DEF Compare, TypeOK
  <2>2. Begun(n)' /\ InUse(n)' /\ (failures' = 0 => Memory(n)')
    BY Facts, <2>1 DEF Begun, InUse, Memory
  <2>3. n \notin misset' => Fill(n)'
    BY Facts, <2>1 DEF Fill
  <2>4. Loss(n)' = Loss(n)
    BY <2>1 DEF Loss, Unstored
  <2>5. Owed(n)' - Owed(n) <= failures' - failures /\ failures' >= failures
    BY Facts, <2>1 DEF Owed, Threatened
  <2>6. TypeOK /\ inUse \subseteq inUse'
    BY Facts, <2>1
  <2>7. Budget(n) => Budget(n)'
    BY <1>1, <2>4, <2>5, <2>6, SameLoss
  <2> QED BY Facts, <2>1, <2>2, <2>3, <2>7 DEF Keeps, Solvent
<1>3. pushbuf' \in Seq(Slots)
  BY Facts DEF Compare
<1> QED BY <1>1, <1>2, <1>3, Assemble

LEMMA PushKeepsIInv ==
  ASSUME IInv, NEW m \in Muxers, Push(m) PROVE IInv'
<1>1. TypeOK'
  BY Facts DEF Push, EmptyAfterPush, TypeOK
<1>2. ASSUME NEW n \in Muxers PROVE Keeps(n)
  <2>1. /\ pc'[n] = IF n = m THEN "idle" ELSE pc[n]
        /\ pushbufused'[n] = IF n = m THEN 0 ELSE pushbufused[n]
        /\ pushed'[n] = IF n = m THEN pushed[m] + pushbufsize[m] ELSE pushed[n]
        /\ UNCHANGED << pushbuf, pushbufsize, handed, failures, inUse, misset >>
        /\ pc[m] = "push"
    BY Facts DEF Push, EmptyAfterPush, TypeOK
  <2>2. Begun(n)' /\ InUse(n)' /\ (failures' = 0 => Memory(n)')
    BY Facts, <2>1 DEF Begun, InUse, Memory
  <2>3. ASSUME n \notin misset' PROVE Fill(n)' /\ Solvent(n)'
    <3>1. Fill(n)'
      BY Facts, <2>1, <2>3 DEF Fill, Begun
    <3>2. Loss(n)' = Loss(n)
      BY Facts, <2>1, <2>3 DEF Loss, Unstored, Fill
    <3>3. Owed(n)' - Owed(n) <= failures' - failures /\ failures' >= failures
      BY Facts, <2>1 DEF Owed, Threatened
    <3>4. TypeOK /\ inUse \subseteq inUse'
      BY Facts, <2>1
    <3>5. Budget(n) => Budget(n)'
      BY <1>1, <3>2, <3>3, <3>4, SameLoss
    <3> QED BY Facts, <2>1, <2>3, <3>1, <3>5 DEF Solvent
  <2> QED BY <2>2, <2>3 DEF Keeps
<1>3. pushbuf' \in Seq(Slots)
  BY Facts DEF Push
<1> QED BY <1>1, <1>2, <1>3, Assemble

-----------------------------------------------------------------------------
LEMMA InitIInv == Init => IInv
<1> SUFFICES ASSUME Init PROVE IInv
  OBVIOUS
<1>1. TypeOK
  <2>1. 0 \in 0..MaxPackets
    BY PushBufAssumption
  <2> QED BY <2>1 DEF Init, TypeOK
<1>2. pushbuf \in Seq(Slots)
  BY DEF Init
<1>3. ASSUME NEW m \in Muxers PROVE Begun(m) /\ InUse(m) /\ Memory(m) /\ Fill(m) /\ Solvent(m)
  BY <1>3 DEF Init, Begun, InUse, Memory, Fill, Solvent
<1> QED BY <1>1, <1>2, <1>3 DEF IInv

(* A size may be set at any time, by another thread.                       *)
LEMMA SetPropertyKeepsIInv ==
  ASSUME IInv, NEW m \in Muxers, NEW size \in Sizes, SetProperty(m, size)
  PROVE  IInv'
<1>1. size \in Nat
  BY PushBufAssumption
<1>2. TypeOK'
  <2>1. pushbufsize' \in [Muxers -> Sizes \cup {0}]
    BY Facts, <1>1 DEF TypeOK, SetProperty
  <2>2. inUse' \subseteq inUse \cup {size} /\ misset' \subseteq misset \cup {m}
    BY DEF SetProperty
  <2>3. inUse' \subseteq Sizes \cup {0} /\ misset' \subseteq Muxers
    BY Facts, <2>2 DEF TypeOK
  <2> QED BY Facts, <2>1, <2>3 DEF TypeOK, SetProperty
<1>3. ASSUME NEW n \in Muxers PROVE Keeps(n)
  <2>1. /\ pushbufsize'[n] = IF n = m THEN size ELSE pushbufsize[n]
        /\ UNCHANGED << pushbuf, pushbufused, pc, handed, failures, pushed >>
        /\ inUse \subseteq inUse' /\ (handed[m] # 0 => size \in inUse')
        /\ n \notin misset' => n \notin misset /\ (n = m /\ handed[m] # 0 => ~Misses(m, size))
    BY Facts, <1>1 DEF TypeOK, SetProperty
  <2>2. Begun(n)' /\ InUse(n)'
    BY Facts, <1>1, <2>1 DEF Begun, InUse
  <2>3. failures' = 0 => Memory(n)'
    BY Facts, <2>1 DEF Memory
  <2>4. n \notin misset' => Fill(n)'
    BY Facts, <1>1, <1>2, <2>1 DEF Fill, Begun, Misses, TypeOK
  <2>5. Loss(n)' = Loss(n) /\ Owed(n)' = Owed(n)
    BY <2>1 DEF Loss, Unstored, Owed, Threatened
  <2>6. Owed(n)' - Owed(n) <= failures' - failures /\ failures' >= failures
    BY Facts, <2>1, <2>5 DEF Owed
  <2>7. TypeOK
    BY Facts
  <2>8. Budget(n) => Budget(n)'
    BY <1>2, <2>1, <2>5, <2>6, <2>7, SameLoss
  <2> QED BY Facts, <2>1, <2>2, <2>3, <2>4, <2>8 DEF Keeps, Solvent
<1>4. pushbuf' \in Seq(Slots)
  BY Facts DEF SetProperty
<1> QED BY <1>2, <1>3, <1>4, Assemble

LEMMA StutterKeepsIInv ==
  ASSUME IInv, UNCHANGED vars PROVE IInv'
BY DEF IInv, vars, TypeOK, Fill, Memory, Unstored, Begun, InUse, Solvent, Budget, Within,
       Loss, Owed, Threatened

LEMMA IInvariant == Spec => []IInv
<1>1. IInv /\ [Next]_vars => IInv'
  BY CallKeepsIInv, AllocateKeepsIInv, StoreKeepsIInv, CompareKeepsIInv, PushKeepsIInv,
     SetPropertyKeepsIInv, StutterKeepsIInv DEF Next, Callback, Ended
<1> QED BY InitIInv, <1>1, PTL DEF Spec

(* Every variable keeps its type: no fill level ever goes below 0.         *)
THEOREM PushBufTypeCorrect == Spec => []TypeOK
<1>1. IInv => TypeOK
  BY DEF IInv
<1> QED BY <1>1, IInvariant, PTL

(* A packet that sptsmuxer_push_packet_cb took is pushed or still held, as *)
(* long as its muxer missed no size of its own; for every allocation that  *)
(* failed, of any of the muxers that share the memory, each may have lost  *)
(* less than one buffer.                                                   *)
THEOREM PacketsAccounted == Spec => []Accounted
<1>1. IInv => Accounted
  <2> SUFFICES ASSUME IInv, NEW m \in Muxers, m \notin misset, pc[m] = "idle", handed[m] > 0
               PROVE  /\ Loss(m) >= 0 /\ \E s \in inUse : Loss(m) <= failures * (s - 1)
                      /\ Loss(m) = handed[m] - pushed[m] - pushbufused[m]
    BY DEF Accounted
  <2>1. Loss(m) = handed[m] - pushed[m] - pushbufused[m] /\ Loss(m) \in Int
    BY Facts DEF Loss, Unstored
  <2>2. PICK n \in Nat : n + Owed(m) <= failures /\ Within(Loss(m), n, inUse)
    BY Facts DEF Solvent, Budget
  <2>3. n <= failures /\ failures \in Nat /\ inUse \in SUBSET Nat
    BY Facts, CountersAreNatural, <2>2 DEF Owed
  <2>4. Within(Loss(m), failures, inUse)
    BY <2>1, <2>2, <2>3, WithinMore
  <2> QED BY Facts, <2>1, <2>4 DEF Solvent, Budget, Within
<1> QED BY <1>1, IInvariant, PTL

(* A full buffer never waits: the call that fills it pushes it.            *)
THEOREM FullBufferPushed == Spec => []HeldBack
<1>1. IInv => HeldBack
  BY DEF IInv, HeldBack, Fill
<1> QED BY <1>1, IInvariant, PTL

(* As long as no allocation fails nothing is lost.                         *)
LEMMA NothingLost ==
  ASSUME IInv, NEW m \in Muxers, Undisturbed(m)
  PROVE  handed[m] = pushed[m] + pushbufused[m] + Unstored(m)
<1>1. CASE handed[m] = 0
  BY Facts, <1>1 DEF Begun, Unstored
<1>2. CASE handed[m] # 0
  <2>1. Loss(m) \in Int /\ Loss(m) >= 0 /\ failures = 0
    BY Facts, <1>2 DEF Undisturbed, Solvent, Budget, Loss, Unstored
  <2>2. PICK n \in Nat : n + Owed(m) <= failures /\ Within(Loss(m), n, inUse)
    BY Facts, <1>2 DEF Undisturbed, Solvent, Budget
  <2>3. n = 0 /\ inUse \in SUBSET Nat
    BY Facts, CountersAreNatural, <2>1, <2>2 DEF Owed
  <2>4. \A s \in inUse : 0 * (s - 1) = 0
    BY <2>3
  <2>5. Loss(m) = 0
    BY <2>1, <2>2, <2>3, <2>4 DEF Within
  <2> QED BY Facts, <2>5 DEF Loss, Unstored
<1> QED BY <1>1, <1>2

-----------------------------------------------------------------------------
(* Muxers of one size can share the memory: any of them may have made it.  *)
OneSize == \A s, t \in inUse : s = t

(* The memory, once there, was made by a muxer of that size.               *)
Room == OneSize => ~overrun /\ (pushbuf # << >> => Len(pushbuf) \in inUse)

LEMMA NextKeepsInside ==
  ASSUME IInv, Room, [Next]_vars
  PROVE  Room'
<1>1. /\ \A m \in Muxers : /\ pushbufsize[m] \in Nat /\ pushbufused[m] \in Nat
                          /\ handed[m] \in Nat
      /\ pushbuf \in Seq(Slots)
  BY CountersAreNatural DEF IInv
<1>2. ASSUME NEW m \in Muxers, Allocate(m) PROVE Room'
  <2>1. pushbuf' = [i \in 1..pushbufsize[m] |-> Unwritten] /\ UNCHANGED << inUse, overrun >>
    BY <1>2 DEF Allocate
  <2>2. Len(pushbuf') = pushbufsize[m]
    BY <1>1, <2>1
  <2>3. pushbufsize[m] \in inUse
    BY <1>1, <1>2 DEF IInv, Allocate, Begun, InUse
  <2> QED BY <2>1, <2>2, <2>3 DEF Room, OneSize
<1>3. ASSUME NEW m \in Muxers, Store(m) PROVE Room'
  <2> SUFFICES ASSUME OneSize PROVE ~overrun' /\ (pushbuf' # << >> => Len(pushbuf') \in inUse)
    BY <1>3 DEF Room, OneSize, Store
  <2>1. pc[m] = "store" /\ pushbufsize[m] \in inUse
    BY <1>1, <1>3 DEF IInv, Store, Begun, InUse
  <2>2. CASE ~(pushbufused[m] < pushbufsize[m])
    BY <1>3, <2>2 DEF Store, Room
  <2>3. CASE pushbufused[m] < pushbufsize[m]
    <3>1. 0 \notin inUse
      BY <1>1, <2>1, <2>3 DEF OneSize
    <3>2. pushbuf # << >>
      BY <2>1, <3>1 DEF IInv, InUse, Memory
    <3>3. Len(pushbuf) = pushbufsize[m]
      BY <2>1, <3>2 DEF Room, OneSize
    <3>4. StorePacket(m)
      BY <1>3, <2>3 DEF Store
    <3>5. pushbufused[m] + 1 \in 1..Len(pushbuf) /\ ~(pushbufused[m] + 1 > Len(pushbuf))
      BY <1>1, <2>3, <3>3
    <3>6. Packet(m, handed[m]) \in Slots
      BY <1>1 DEF Packet, Slots
    <3>7. Len(pushbuf') = Len(pushbuf)
      BY <1>1, <3>4, <3>5, <3>6, ExceptSeq DEF StorePacket
    <3>8. overrun' = (overrun \/ pushbufused[m] + 1 > Len(pushbuf))
      BY <3>4, Zenon DEF StorePacket
    <3>9. ~overrun'
      BY <3>5, <3>8, Zenon DEF Room
    <3> QED BY <2>1, <3>3, <3>7, <3>9
  <2> QED BY <2>2, <2>3
<1>4. CASE UNCHANGED << pushbuf, overrun >> /\ inUse \subseteq inUse'
  BY <1>4 DEF Room, OneSize
<1> QED
  BY <1>2, <1>3, <1>4 DEF Next, Callback, Call, Compare, Push, SetProperty, Ended, vars

(* Muxers write inside the shared push buffer, if none had another size    *)
(* once packets came.  PushSizes.cfg shows that the condition is needed.   *)
THEOREM WritesStayInside == Spec => []WritesInside
<1>1. Init => Room
  BY DEF Init, Room
<1>2. IInv /\ Room /\ [Next]_vars => Room'
  BY NextKeepsInside
<1>3. Room => WritesInside
  BY DEF Room, OneSize, WritesInside
<1> QED BY <1>1, <1>2, <1>3, IInvariant, PTL DEF Spec

-----------------------------------------------------------------------------
(* What is staged.  Held: the slots that a muxer filled hold its packets,  *)
(* those not yet pushed, in order; Sent: likewise what it pushed last.     *)
(* Excused are slots that another muxer wrote, or that the memory has not. *)
Foreign(m, slot)    == \A j \in Nat : slot # Packet(m, j)
Excused(m, i, slot) == Foreign(m, slot) /\ (Shared(m) \/ i > Len(pushbuf))
Waiting(m, i)       == Packet(m, pushed[m] + i)
Gone(m, i)          == Packet(m, pushed[m] - Len(out[m].staged) + i)

Held(m) ==
  \A i \in 1..pushbufused[m] : Slot(i) = Waiting(m, i) \/ Excused(m, i, Slot(i))
Sent(m) ==
  \A i \in 1..Len(out[m].staged) :
    out[m].staged[i] = Gone(m, i) \/ Excused(m, i, out[m].staged[i])

(* Memory is only made where there was none, or over that of another.      *)
Fresh(m) ==
  /\ pushbuf = << >> => out[m].staged = << >>
  /\ pc[m] = "allocate" => pushbuf = << >> \/ Shared(m)

Staged ==
  /\ out \in [Muxers -> [data : Seq({Unwritten}), staged : Seq(Slots)]]
  /\ failures = 0 => \A m \in Muxers : Fresh(m)
  /\ \A m \in Muxers : Undisturbed(m) => Held(m) /\ Sent(m)

LEMMA PacketsDiffer ==
  /\ \A m, k, i, j : m # k => Packet(m, i) # Packet(k, j)
  /\ \A m, i : Packet(m, i) # Unwritten
BY DEF Packet, Unwritten

(* Steps that leave the packets alone.                                     *)
LEMMA SameStaging ==
  ASSUME IInv, Staged, NEW m \in Muxers,
         UNCHANGED << pushbuf, pushbufused, pushed, failures, out >>,
         misset \subseteq misset',
         \A k \in Muxers : handed'[k] # 0 \/ handed[k] = 0,
         \A k \in Muxers : handed'[k] \in Nat,
         \A n \in Muxers : pc'[n] = "allocate" => pc[n] = "allocate" \/ pushbuf = << >>
  PROVE  Staged'
<1>1. \A k \in Muxers : handed[k] \in Nat
  BY CountersAreNatural DEF IInv
<1>2. \A n \in Muxers : Shared(n) => Shared(n)'
  BY <1>1 DEF Shared
<1>3. \A n \in Muxers : Undisturbed(n)' => Undisturbed(n)
  BY DEF Undisturbed
<1>4. \A n \in Muxers : Fresh(n) => Fresh(n)'
  BY <1>2 DEF Fresh
<1>5. \A n \in Muxers : Held(n) => Held(n)'
  BY <1>2 DEF Held, Slot, Waiting, Excused, Foreign
<1>6. \A n \in Muxers : Sent(n) => Sent(n)'
  BY <1>2 DEF Sent, Gone, Excused, Foreign
<1> QED BY <1>3, <1>4, <1>5, <1>6 DEF Staged

LEMMA AllocateKeepsStaged ==
  ASSUME IInv, Staged, NEW m \in Muxers, Allocate(m)
  PROVE  Staged'
<1>1. /\ pushbuf' = [i \in 1..pushbufsize[m] |-> Unwritten]
      /\ pc[m] = "allocate" /\ UNCHANGED << handed, pushed, out, misset >>
  BY DEF Allocate
<1>2. /\ handed[m] # 0 /\ pushbufsize[m] \in Nat
      /\ failures \in Nat /\ \A n \in Muxers : handed[n] \in Nat
  BY <1>1, CountersAreNatural DEF IInv, Begun
<1>3. \A n \in Muxers : n # m => Shared(n)
  BY <1>2 DEF Shared
<1>4. ASSUME failures' = 0
      PROVE  failures = 0 /\ pushbuf' # << >> /\ pc'[m] = "store"
  <2>1. pushbufsize[m] # 0
    <3> SUFFICES ASSUME pushbufsize[m] = 0 PROVE FALSE
      OBVIOUS
    <3>1. failures' = failures + 1
      BY DEF IInv, TypeOK, Allocate
    <3> QED BY <1>2, <1>4, <3>1
  <2>2. failures' = failures /\ pc'[m] = "store"
    BY <2>1 DEF IInv, TypeOK, Allocate
  <2>3. pushbuf' # << >>
    BY <1>1, <1>2, <2>1
  <2> QED BY <1>4, <2>2, <2>3
<1>5. \A n \in Muxers : Undisturbed(n)' => Undisturbed(n) /\ failures' = 0
  BY <1>1, <1>4 DEF Undisturbed
<1>6. \A n \in Muxers : Shared(n)' = Shared(n)
  BY <1>1 DEF Shared
<1>7. ASSUME failures' = 0, NEW n \in Muxers PROVE Fresh(n)'
  BY <1>3, <1>4, <1>6, <1>7 DEF Fresh
<1>8. ASSUME NEW n \in Muxers, Undisturbed(n)' PROVE Held(n)' /\ Sent(n)'
  <2>1. Held(n) /\ Sent(n) /\ Fresh(m) /\ failures = 0
    BY <1>4, <1>5, <1>8 DEF Staged
  <2>2. CASE n # m
    <3>1. Shared(n) /\ Shared(n)'
      BY <1>3, <1>6, <2>2
    <3>2. \A i : Foreign(n, Slot(i))'
      BY <1>1, PacketsDiffer DEF Foreign, Slot
    <3> QED BY <1>1, <2>1, <3>1, <3>2 DEF Held, Sent, Excused, Foreign, Gone
  <2>3. CASE n = m
    <3>1. pushbufused'[m] = 0
      BY DEF IInv, TypeOK, Allocate
    <3>2. Held(n)'
      BY <2>3, <3>1 DEF Held
    <3>3. CASE Shared(m)
      BY <1>1, <1>6, <2>1, <2>3, <3>2, <3>3 DEF Sent, Excused, Foreign, Gone
    <3>4. CASE ~Shared(m)
      <4>1. out[m].staged = << >> /\ Len(<< >>) = 0
        BY <1>1, <2>1, <3>4 DEF Fresh
      <4> QED BY <1>1, <2>3, <3>2, <4>1 DEF Sent
    <3> QED BY <3>3, <3>4
  <2> QED BY <2>2, <2>3
<1> QED BY <1>1, <1>7, <1>8 DEF Staged

LEMMA StoreKeepsStaged ==
  ASSUME IInv, IInv', Staged, NEW m \in Muxers, Store(m), StorePacket(m)
  PROVE  Staged'
<1>1. /\ \A k \in Muxers : /\ pushbufsize[k] \in Nat /\ pushbufused[k] \in Nat /\ handed[k] \in Nat
                           /\ pushed[k] \in Nat
      /\ handed[m] # 0 /\ pc[m] = "store"
  BY CountersAreNatural DEF IInv, Begun, Store
<1>2. /\ pushbuf' = [pushbuf EXCEPT ![pushbufused[m] + 1] = Packet(m, handed[m])]
      /\ pushbufused' = [pushbufused EXCEPT ![m] = @ + 1]
      /\ UNCHANGED << pushbufsize, handed, failures, pushed, out, misset >>
  BY DEF Store, StorePacket
<1> PICK at \in Nat : at = pushbufused[m] + 1
  BY <1>1
<1>3. /\ pushbuf \in Seq(Slots) /\ DOMAIN pushbuf' = DOMAIN pushbuf /\ Len(pushbuf') = Len(pushbuf)
      /\ pushbuf' = << >> => pushbuf = << >>
  <2>1. pushbuf \in Seq(Slots) /\ pushbuf' \in Seq(Slots)
    BY DEF IInv
  <2>2. DOMAIN pushbuf' = DOMAIN pushbuf
    BY <1>2
  <2> QED BY <2>1, <2>2, LenProperties
<1>4. Slot(at)' = IF at \in DOMAIN pushbuf THEN Packet(m, handed[m]) ELSE Unwritten
  BY <1>2, <1>3 DEF Slot
<1>5. \A i : i # at => Slot(i)' = Slot(i)
  BY <1>2, <1>3 DEF Slot
<1>6. /\ failures' = failures
      /\ \A n \in Muxers : (Undisturbed(n)' = Undisturbed(n)) /\ (Shared(n)' = Shared(n))
  BY <1>2 DEF Undisturbed, Shared
<1>7. ASSUME NEW n \in Muxers, failures = 0 PROVE Fresh(n)'
  <2>1. pc'[n] = "allocate" => pc[n] = "allocate"
    BY DEF Store, IInv, TypeOK
  <2> QED BY <1>2, <1>3, <1>6, <1>7, <2>1 DEF Staged, Fresh
<1>8. ASSUME NEW n \in Muxers, Undisturbed(n) PROVE Held(n)' /\ Sent(n)'
  <2>1. Held(n) /\ Sent(n)
    BY <1>8 DEF Staged
  <2>2. \A i, slot : Excused(n, i, slot)' = Excused(n, i, slot)
    BY <1>3, <1>6 DEF Excused, Foreign
  <2>3. Sent(n)'
    BY <1>2, <2>1, <2>2 DEF Sent, Gone
  <2>4. \A i : Waiting(n, i)' = Waiting(n, i)
    BY <1>2 DEF Waiting
  <2>5. (Slot(at)' = Waiting(n, at) /\ n = m) \/ Excused(n, at, Slot(at)')
    <3>1. CASE n # m
      <4>1. Shared(n) /\ Foreign(n, Slot(at)')
        BY <1>1, <1>4, <3>1, PacketsDiffer DEF Shared, Foreign
      <4> QED BY <4>1 DEF Excused
    <3>2. CASE n = m /\ at \in DOMAIN pushbuf
      <4>1. handed[m] = pushed[m] + pushbufused[m] + 1
        BY <1>1, <1>8, <3>2, NothingLost DEF Unstored
      <4>2. handed[m] = pushed[m] + at
        BY <1>1, <4>1
      <4> QED BY <1>4, <3>2, <4>2 DEF Waiting
    <3>3. CASE n = m /\ at \notin DOMAIN pushbuf
      <4>1. at > Len(pushbuf)
        BY <1>1, <1>3, <3>3, LenProperties
      <4> QED BY <1>4, <3>3, <4>1, PacketsDiffer DEF Excused, Foreign
    <3> QED BY <3>1, <3>2, <3>3
  <2>6. ASSUME NEW i \in 1..pushbufused'[n]
        PROVE  Slot(i)' = Waiting(n, i)' \/ Excused(n, i, Slot(i))'
    <3>1. CASE i = at
      BY <2>2, <2>4, <2>5, <3>1 DEF Excused, Foreign
    <3>2. CASE i # at
      <4>1. i \in 1..pushbufused[n]
        <5>1. pushbufused'[n] = IF n = m THEN at ELSE pushbufused[n]
          BY <1>2 DEF IInv, TypeOK
        <5> QED BY <1>1, <3>2, <5>1
      <4>2. Slot(i) = Waiting(n, i) \/ Excused(n, i, Slot(i))
        BY <2>1, <4>1 DEF Held
      <4> QED BY <1>3, <1>5, <1>6, <2>4, <3>2, <4>2 DEF Excused, Foreign
    <3> QED BY <3>1, <3>2
  <2> QED BY <2>3, <2>6 DEF Held
<1> QED BY <1>2, <1>6, <1>7, <1>8 DEF Staged

LEMMA PushKeepsStaged ==
  ASSUME IInv, Staged, NEW m \in Muxers, Push(m)
  PROVE  Staged'
<1>1. \A k \in Muxers : /\ pushbufsize[k] \in Nat /\ pushbufused[k] \in Nat /\ handed[k] \in Nat
                         /\ pushed[k] \in Nat
  BY CountersAreNatural DEF IInv
<1> DEFINE size == pushbufsize[m]
           staged == [i \in 1..size |-> Slot(i)]
           data == [i \in 1..size |-> Unwritten]
<1>2. /\ out' = [out EXCEPT ![m] = [data |-> data, staged |-> staged]]
      /\ pushed' = [pushed EXCEPT ![m] = @ + size]
      /\ pushbufused' = [pushbufused EXCEPT ![m] = 0]
      /\ UNCHANGED << pushbuf, pushbufsize, handed, failures, misset >>
      /\ pc[m] = "push" /\ pc' = [pc EXCEPT ![m] = "idle"]
  BY DEF Push, EmptyAfterPush
<1>3. \A i : Slot(i) \in Slots
  BY DEF IInv, Slot, Slots
<1>4. staged \in Seq(Slots) /\ data \in Seq({Unwritten}) /\ Len(staged) = size
  BY <1>1, <1>3
<1>5. out' \in [Muxers -> [data : Seq({Unwritten}), staged : Seq(Slots)]]
  BY <1>2, <1>4 DEF Staged
<1>6. /\ failures' = failures
      /\ \A n \in Muxers : (Undisturbed(n)' = Undisturbed(n)) /\ (Shared(n)' = Shared(n))
  BY <1>2 DEF Undisturbed, Shared
<1>7. ASSUME NEW n \in Muxers, failures = 0 PROVE Fresh(n)'
  <2>1. pushbuf # << >>
    BY <1>2, <1>7 DEF IInv, Memory
  <2>2. pc'[n] = "allocate" => pc[n] = "allocate"
    BY <1>2 DEF IInv, TypeOK
  <2> QED BY <1>2, <1>6, <1>7, <2>1, <2>2 DEF Staged, Fresh
<1>8. ASSUME NEW n \in Muxers, Undisturbed(n) PROVE Held(n)' /\ Sent(n)'
  <2>1. Held(n) /\ Sent(n)
    BY <1>8 DEF Staged
  <2>2. \A i, slot : Excused(n, i, slot)' = Excused(n, i, slot)
    BY <1>2, <1>6 DEF Excused, Foreign
  <2>3. CASE n = m
    <3>1. pushbufused'[n] = 0 /\ pushbufused[n] = size
      BY <1>2, <1>8, <2>3 DEF IInv, TypeOK, Fill, Undisturbed
    <3>2. Held(n)'
      BY <3>1 DEF Held
    <3>3. out'[n].staged = staged /\ pushed'[n] = pushed[n] + size
      BY <1>2, <2>3 DEF Staged, IInv, TypeOK
    <3>4. ASSUME NEW i \in 1..size
          PROVE  staged[i] = Gone(n, i)' \/ Excused(n, i, staged[i])
      <4>1. staged[i] = Slot(i) /\ i \in Nat
        OBVIOUS
      <4>2. Gone(n, i)' = Waiting(n, i)
        <5>1. pushed'[n] - Len(out'[n].staged) + i = pushed[n] + i
          BY <1>1, <1>4, <3>3, <4>1
        <5> QED BY <5>1 DEF Gone, Waiting
      <4>3. Slot(i) = Waiting(n, i) \/ Excused(n, i, Slot(i))
        BY <2>1, <3>1 DEF Held
      <4> QED BY <2>3, <4>1, <4>2, <4>3
    <3>5. Sent(n)'
      <4>1. PICK s : s = staged
        OBVIOUS
      <4>2. \A i \in 1..Len(s) : s[i] = Gone(n, i)' \/ Excused(n, i, s[i])'
        BY <1>4, <2>2, <3>4, <4>1
      <4> QED BY <3>3, <4>1, <4>2 DEF Sent, Excused, Foreign
    <3> QED BY <3>2, <3>5
  <2>4. CASE n # m
    <3>1. out'[n] = out[n] /\ pushed'[n] = pushed[n] /\ pushbufused'[n] = pushbufused[n]
      BY <1>2, <2>4 DEF Staged, IInv, TypeOK
    <3>2. Held(n)'
      BY <1>2, <1>6, <2>1, <3>1 DEF Held, Slot, Waiting, Excused, Foreign
    <3>3. Sent(n)'
      BY <1>2, <1>6, <2>1, <3>1 DEF Sent, Gone, Excused, Foreign
    <3> QED BY <3>2, <3>3
  <2> QED BY <2>3, <2>4
<1> QED BY <1>5, <1>6, <1>7, <1>8 DEF Staged

LEMMA InitStaged == Init => Staged
<1> SUFFICES ASSUME Init PROVE Staged
  OBVIOUS
<1>1. /\ out = [m \in Muxers |-> [data |-> << >>, staged |-> << >>]] /\ pushbuf = << >>
      /\ \A m \in Muxers : pushbufused[m] = 0
  BY DEF Init
<1>2. ASSUME NEW m \in Muxers PROVE Held(m) /\ Sent(m) /\ Fresh(m)
  <2>1. out[m].staged = << >> /\ Len(<< >>) = 0
    BY <1>1
  <2> QED BY <1>1, <2>1 DEF Held, Sent, Fresh
<1>3. out \in [Muxers -> [data : Seq({Unwritten}), staged : Seq(Slots)]]
  <2>1. << >> \in Seq({Unwritten}) /\ << >> \in Seq(Slots)
    OBVIOUS
  <2> QED BY <1>1, <2>1
<1> QED BY <1>2, <1>3 DEF Staged

LEMMA NextKeepsStaged ==
  ASSUME IInv, IInv', Staged, [Next]_vars PROVE Staged'
<1>1. /\ \A k \in Muxers : handed[k] \in Nat /\ handed'[k] \in Nat
      /\ TypeOK /\ TypeOK'
  <2>1. TypeOK /\ TypeOK'
    BY DEF IInv
  <2>2. \A k \in Muxers : handed[k] \in Nat
    BY <2>1, CountersAreNatural
  <2>3. 0..MaxPackets \subseteq Nat
    BY PushBufAssumption
  <2>4. \A k \in Muxers : handed'[k] \in 0..MaxPackets
    BY <2>1 DEF TypeOK
  <2> QED BY <2>1, <2>2, <2>3, <2>4
<1>2. ASSUME NEW m \in Muxers, NEW size \in Sizes, SetProperty(m, size) PROVE Staged'
  <2>1. /\ UNCHANGED << pushbuf, pushbufused, pushed, failures, out >>
        /\ handed' = handed /\ pc' = pc /\ misset \subseteq misset'
    BY <1>2 DEF SetProperty
  <2>2. \A k \in Muxers : handed'[k] # 0 \/ handed[k] = 0
    BY <2>1
  <2>3. \A n \in Muxers : pc'[n] = "allocate" => pc[n] = "allocate" \/ pushbuf = << >>
    BY <2>1
  <2> QED BY <1>1, <2>1, <2>2, <2>3, SameStaging
<1>3. ASSUME NEW m \in Muxers, Call(m) PROVE Staged'
  <2>1. \A k \in Muxers : handed'[k] # 0 \/ handed[k] = 0
    BY <1>1, <1>3 DEF Call, TypeOK
  <2>2. \A n \in Muxers : pc'[n] = "allocate" => pc[n] = "allocate" \/ pushbuf = << >>
    BY <1>1, <1>3 DEF Call, TypeOK
  <2> QED BY <1>1, <1>3, <2>1, <2>2, SameStaging DEF Call
<1>4. ASSUME NEW m \in Muxers, Compare(m) PROVE Staged'
  <2>1. \A n \in Muxers : pc'[n] = "allocate" => pc[n] = "allocate"
    BY <1>1, <1>4 DEF Compare, TypeOK
  <2> QED BY <1>1, <1>4, <2>1, SameStaging DEF Compare
<1>5. ASSUME NEW m \in Muxers, Store(m) PROVE Staged'
  <2>1. CASE StorePacket(m)
    BY <1>5, <2>1, StoreKeepsStaged
  <2>2. CASE UNCHANGED << pushbuf, overrun, pushbufused >>
    <3>1. \A n \in Muxers : pc'[n] = "allocate" => pc[n] = "allocate"
      BY <1>1, <1>5 DEF Store, TypeOK
    <3> QED BY <1>1, <1>5, <2>2, <3>1, SameStaging DEF Store
  <2> QED BY <1>5, <2>1, <2>2 DEF Store
<1>6. CASE UNCHANGED vars
  BY <1>6 DEF vars, Staged, Held, Sent, Fresh, Slot, Waiting, Gone, Excused, Foreign, Shared,
              Undisturbed
<1> QED
  BY <1>2, <1>3, <1>4, <1>5, <1>6, AllocateKeepsStaged, PushKeepsStaged
  DEF Next, Callback, Ended

(* A muxer pushes the packets that it was handed, each once and in order,  *)
(* but for those that another muxer of the process has written over.       *)
THEOREM PacketsStagedInOrder == Spec => []StagedInOrder
<1>1. IInv /\ Staged /\ [Next]_vars /\ IInv' => Staged'
  BY NextKeepsStaged
<1>2. IInv /\ Staged => StagedInOrder
  <2> SUFFICES ASSUME IInv, Staged, NEW m \in Muxers, Undisturbed(m), NEW i \in DOMAIN out[m].staged
               PROVE  \/ out[m].staged[i] = LastPackets(m, Len(out[m].staged))[i]
                      \/ Lost(m, out[m].staged[i]) /\ (Shared(m) \/ i > Len(pushbuf))
    BY DEF StagedInOrder
  <2>1. Sent(m) /\ out[m].staged \in Seq(Slots) /\ handed[m] \in Nat
    BY CountersAreNatural DEF Staged, IInv
  <2>2. i \in 1..Len(out[m].staged)
    BY <2>1, LenProperties
  <2>3. LastPackets(m, Len(out[m].staged))[i] = Gone(m, i)
    BY <2>2 DEF LastPackets, Gone
  <2>4. Foreign(m, out[m].staged[i]) => Lost(m, out[m].staged[i])
    BY <2>1 DEF Foreign, Lost
  <2> QED BY <2>1, <2>2, <2>3, <2>4 DEF Sent, Excused
<1> QED BY InitStaged, IInvariant, <1>1, <1>2, PTL DEF Spec
=============================================================================
