------------------------- MODULE SectionBytesProof --------------------------
(***************************************************************************)
(* calc_crc32 is the division that a receiver does, for every message, so  *)
(* that every receiver takes the sections of psi.c; and their bytes say    *)
(* what the module Psi says, for as many streams as the packet has room    *)
(* for.                                                                    *)
(***************************************************************************)
EXTENDS SectionBytes, SequenceTheorems, WellFoundedInduction, TLAPS

-----------------------------------------------------------------------------
(* Loops: induction on the number of turns.                                *)

LEMMA Least ==
  ASSUME NEW T, T \subseteq Nat, T # {}
  PROVE  \E n \in T : \A m \in T : n <= m
<1> DEFINE R == OpToRel(<, Nat)
<1>1. IsWellFoundedOn(R, Nat)
  BY NatLessThanWellFounded, Zenon
<1>2. R = {ss \in Nat \X Nat : ss[1] < ss[2]}
  BY DEF OpToRel
<1> HIDE DEF R
<1>3. PICK n \in T : \A m \in T : ~ (<< m, n >> \in R)
  BY <1>1, WFMin
<1>4. ASSUME NEW m \in T PROVE n <= m
  <2>1. << m, n >> \in Nat \X Nat
    OBVIOUS
  <2> QED BY <1>2, <1>3, <2>1
<1> QED BY <1>3, <1>4

LEMMA Induction ==
  ASSUME NEW n \in Nat, NEW P, 0 \in P, \A i \in 0..(n - 1) : i \in P => i + 1 \in P
  PROVE  \A i \in 0..n : i \in P
<1> DEFINE T == {i \in 0..n : i \notin P}
<1> SUFFICES ASSUME T # {} PROVE FALSE
  OBVIOUS
<1>1. PICK k \in T : \A m \in T : k <= m
  <2>1. T \subseteq Nat
    OBVIOUS
  <2> HIDE DEF T
  <2> QED BY <2>1, Least
<1>2. k # 0 /\ k - 1 \in 0..(n - 1) /\ k - 1 \notin T
  BY <1>1
<1>3. k - 1 \in P /\ (k - 1) + 1 = k
  BY <1>2
<1> QED BY <1>1, <1>2, <1>3

(* The values that a loop goes through.                                    *)
Values(f, step, start, items, n) ==
  f[0] = start /\ \A i \in 1..n : f[i] = step[f[i - 1]][items[i]]

LEMMA ValuesExist ==
  ASSUME NEW S, NEW T, NEW step \in [S -> [T -> S]], NEW start \in S, NEW n \in Nat,
         NEW items, \A i \in 1..n : items[i] \in T
  PROVE  \E f \in [0..n -> S] : Values(f, step, start, items, n)
<1> DEFINE P == {k \in 0..n : \E f \in [0..k -> S] : Values(f, step, start, items, k)}
<1>1. 0 \in P
  <2> DEFINE f == [i \in 0..0 |-> start]
  <2>1. f \in [0..0 -> S] /\ Values(f, step, start, items, 0)
    BY DEF Values
  <2> QED BY <2>1
<1>2. ASSUME NEW k \in 0..(n - 1), k \in P PROVE k + 1 \in P
  <2>1. PICK f \in [0..k -> S] : Values(f, step, start, items, k)
    BY <1>2
  <2> DEFINE v == step[f[k]][items[k + 1]]
             g == [i \in 0..(k + 1) |-> IF i = k + 1 THEN v ELSE f[i]]
  <2>2. v \in S
    <3>1. f[k] \in S /\ items[k + 1] \in T
      OBVIOUS
    <3> QED BY <3>1
  <2> HIDE DEF v
  <2>3. g \in [0..(k + 1) -> S]
    BY <2>2
  <2>4. g[0] = start
    BY <2>1 DEF Values
  <2>5. ASSUME NEW i \in 1..(k + 1) PROVE g[i] = step[g[i - 1]][items[i]]
    <3>1. CASE i = k + 1
      BY <3>1 DEF v
    <3>2. CASE i # k + 1
      <4>1. i \in 1..k /\ g[i] = f[i] /\ g[i - 1] = f[i - 1]
        BY <3>2
      <4> QED BY <2>1, <4>1 DEF Values
    <3> QED BY <3>1, <3>2
  <2> HIDE DEF g
  <2>6. Values(g, step, start, items, k + 1)
    BY <2>4, <2>5 DEF Values
  <2> QED BY <2>3, <2>6
<1> HIDE DEF P
<1>3. \A k \in 0..(n - 1) : k \in P => k + 1 \in P
  BY <1>2
<1>4. \A k \in 0..n : k \in P
  BY <1>1, <1>3, Induction
<1>5. n \in P
  BY <1>4
<1> QED BY <1>5 DEF P

Agree(items, more, n) == \A i \in 1..n : items[i] = more[i]
SameEnd(f, g, n) == f[n] = g[n]

LEMMA ValuesUnique ==
  ASSUME NEW step, NEW start, NEW n \in Nat, NEW items, NEW more,
         NEW f, Values(f, step, start, items, n), NEW g, Values(g, step, start, more, n),
         Agree(items, more, n)
  PROVE  SameEnd(f, g, n)
<1> DEFINE P == {k \in 0..n : f[k] = g[k]}
<1>1. 0 \in P
  BY DEF Values
<1>2. ASSUME NEW k \in 0..(n - 1), k \in P PROVE k + 1 \in P
  <2>1. k + 1 \in 1..n /\ (k + 1) - 1 = k /\ f[k] = g[k]
    BY <1>2
  <2>2. f[k + 1] = step[f[k]][items[k + 1]] /\ g[k + 1] = step[g[k]][more[k + 1]]
    BY <2>1 DEF Values
  <2>3. items[k + 1] = more[k + 1]
    BY <2>1 DEF Agree
  <2> QED BY <2>1, <2>2, <2>3
<1> HIDE DEF P
<1>3. n \in P
  BY <1>1, <1>2, Induction
<1> QED BY <1>3 DEF P, SameEnd

(* A register in S takes n items in T, and ends at the last of its values. *)
Loop(S, T, step, start, items, n) ==
  /\ step \in [S -> [T -> S]] /\ start \in S
  /\ n \in Nat /\ Len(items) = n /\ \A i \in 1..n : items[i] \in T
Ends(S, step, start, items, n, f) ==
  f \in [0..n -> S] /\ Values(f, step, start, items, n) /\ Run(step, start, items) = f[n]

LEMMA RunIs ==
  ASSUME NEW S, NEW T, NEW step, NEW start, NEW items, NEW n, Loop(S, T, step, start, items, n)
  PROVE  \E f : Ends(S, step, start, items, n, f)
<1> DEFINE loop(g) == [i \in 0..n |-> IF i = 0 THEN start ELSE step[g[i - 1]][items[i]]]
           after == CHOOSE g : g = loop(g)
<1>1. PICK f \in [0..n -> S] : Values(f, step, start, items, n)
  BY ValuesExist DEF Loop
<1> n \in Nat /\ Len(items) = n
  BY DEF Loop
<1>2. f = loop(f)
  BY <1>1 DEF Values
<1>3. after = loop(after)
  BY <1>2
<1>4. Run(step, start, items) = after[n]
  BY DEF Run
<1> HIDE DEF after
<1>5. Values(after, step, start, items, n)
  BY <1>3 DEF Values
<1>6. SameEnd(after, f, n)
  <2>1. Agree(items, items, n) /\ n \in Nat
    BY DEF Agree
  <2> QED BY <1>1, <1>5, <2>1, ValuesUnique, Zenon
<1> QED BY <1>1, <1>4, <1>6 DEF Ends, SameEnd

(* One item more is one turn more.                                         *)
OneTurnMore(S, step, start, items, more, n) ==
  /\ Run(step, start, items) \in S
  /\ Run(step, start, more) = step[Run(step, start, items)][more[n + 1]]

LEMMA RunOneMore ==
  ASSUME NEW S, NEW T, NEW step, NEW start, NEW items, NEW more, NEW n,
         Loop(S, T, step, start, items, n), Loop(S, T, step, start, more, n + 1),
         Agree(items, more, n)
  PROVE  OneTurnMore(S, step, start, items, more, n)
<1> n \in Nat
  BY DEF Loop
<1>1. PICK f : Ends(S, step, start, items, n, f)
  BY RunIs, Zenon
<1>2. PICK g : Ends(S, step, start, more, n + 1, g)
  BY RunIs, Zenon
<1>3. Values(g, step, start, more, n) /\ g[n + 1] = step[g[n]][more[n + 1]]
  <2>1. g[0] = start /\ \A i \in 1..(n + 1) : g[i] = step[g[i - 1]][more[i]]
    BY <1>2 DEF Ends, Values
  <2>2. n + 1 \in 1..(n + 1) /\ (n + 1) - 1 = n
    OBVIOUS
  <2>3. \A i \in 1..n : i \in 1..(n + 1)
    OBVIOUS
  <2>4. \A i \in 1..n : g[i] = step[g[i - 1]][more[i]]
    BY <2>1, <2>3
  <2>5. g[n + 1] = step[g[(n + 1) - 1]][more[n + 1]]
    BY <2>1, <2>2
  <2> QED BY <2>1, <2>2, <2>4, <2>5 DEF Values
<1>4. Values(f, step, start, items, n) /\ Run(step, start, items) = f[n] /\ f[n] \in S
  BY <1>1 DEF Ends
<1>5. SameEnd(f, g, n)
  BY <1>3, <1>4, ValuesUnique, Zenon
<1>6. Run(step, start, more) = g[n + 1]
  BY <1>2 DEF Ends
<1> QED BY <1>3, <1>4, <1>5, <1>6 DEF SameEnd, OneTurnMore

-----------------------------------------------------------------------------
(* Words.                                                                  *)

LEMMA XorType ==
  ASSUME NEW v \in Words, NEW w \in Words
  PROVE  Xor(v, w) \in Words
BY DEF Xor, Words

LEMMA ShiftType ==
  ASSUME NEW w, NEW n
  PROVE  ShiftLeft(w, n) \in Words
BY DEF ShiftLeft, Words

LEMMA Shifted ==
  ASSUME NEW w \in Words, NEW n \in Nat, NEW i \in Bits
  PROVE  i \in ShiftLeft(w, n) <=> i - n \in w
BY DEF ShiftLeft, Words, Bits

(* Words with the same bits are the same.                                  *)
LEMMA SameBits ==
  ASSUME NEW v \in Words, NEW w \in Words, \A i \in Bits : i \in v <=> i \in w
  PROVE  v = w
BY DEF Words

LEMMA ShiftTwice ==
  ASSUME NEW w \in Words, NEW m \in Nat, NEW n \in Nat
  PROVE  ShiftLeft(ShiftLeft(w, m), n) = ShiftLeft(w, m + n)
<1> DEFINE v == ShiftLeft(w, m)
<1>1. v \in Words /\ ShiftLeft(v, n) \in Words /\ ShiftLeft(w, m + n) \in Words
  BY ShiftType
<1>2. \A i \in Bits : i \in v <=> i - m \in w
  BY Shifted
<1> HIDE DEF v
<1>3. \A i \in Bits : i \in ShiftLeft(v, n) <=> i - n \in v
  BY <1>1, Shifted
<1>4. \A i \in Bits : i \in ShiftLeft(w, m + n) <=> i - (m + n) \in w
  <2>1. m + n \in Nat
    OBVIOUS
  <2> QED BY <2>1, Shifted
<1>5. ASSUME NEW i \in Bits PROVE i \in ShiftLeft(v, n) <=> i \in ShiftLeft(w, m + n)
  <2>1. i \in Int /\ (i - n) - m = i - (m + n) /\ (i - n \notin Bits => i - n < 0)
    BY DEF Bits
  <2>2. i - n \in v => i - n \in Bits
    BY <1>1 DEF Words
  <2>3. i - (m + n) \in w => i - (m + n) >= 0
    BY DEF Words, Bits
  <2>4. i - (m + n) >= 0 => i - n >= 0
    BY <2>1
  <2> QED BY <1>2, <1>3, <1>4, <2>1, <2>2, <2>3, <2>4
<1>6. ShiftLeft(v, n) = ShiftLeft(w, m + n)
  BY <1>1, <1>5, SameBits
<1> QED BY <1>6 DEF v

LEMMA ShiftNothing ==
  ASSUME NEW w \in Words
  PROVE  ShiftLeft(w, 0) = w
<1>1. ASSUME NEW i \in w PROVE i + 0 = i /\ i \in Bits
  BY DEF Words, Bits
<1>2. {i + 0 : i \in w} = w
  BY <1>1
<1>3. w \cap Bits = w
  BY DEF Words
<1> QED BY <1>2, <1>3 DEF ShiftLeft

LEMMA ShiftXor ==
  ASSUME NEW v \in Words, NEW w \in Words, NEW n \in Nat
  PROVE  ShiftLeft(Xor(v, w), n) = Xor(ShiftLeft(v, n), ShiftLeft(w, n))
<1>1. ShiftLeft(Xor(v, w), n) \in Words /\ Xor(ShiftLeft(v, n), ShiftLeft(w, n)) \in Words
  BY ShiftType, XorType
<1>2. ASSUME NEW i \in Bits
      PROVE  i \in ShiftLeft(Xor(v, w), n) <=> i \in Xor(ShiftLeft(v, n), ShiftLeft(w, n))
  <2>1. i \in ShiftLeft(Xor(v, w), n) <=> i - n \in Xor(v, w)
    BY XorType, Shifted
  <2>2. i \in ShiftLeft(v, n) <=> i - n \in v
    BY Shifted
  <2>3. i \in ShiftLeft(w, n) <=> i - n \in w
    BY Shifted
  <2> QED BY <2>1, <2>2, <2>3 DEF Xor
<1> QED BY <1>1, <1>2, SameBits

LEMMA ShiftInType ==
  ASSUME NEW r \in Words, NEW bit
  PROVE  ShiftIn(r, bit) \in Words
<1>1. Polynomial \in Words
  BY DEF Polynomial, Words, Bits
<1> QED BY <1>1, ShiftType, XorType DEF ShiftIn

LEMMA ShiftInXor ==
  ASSUME NEW v \in Words, NEW w \in Words, NEW p \in BOOLEAN, NEW q \in BOOLEAN
  PROVE  ShiftIn(Xor(v, w), p # q) = Xor(ShiftIn(v, p), ShiftIn(w, q))
<1> DEFINE a == ShiftLeft(v, 1)
           b == ShiftLeft(w, 1)
<1>1. ShiftLeft(Xor(v, w), 1) = Xor(a, b)
  BY ShiftXor
<1>2. (31 \in Xor(v, w)) <=> ((31 \in v) # (31 \in w))
  BY DEF Xor
<1>3. /\ Xor(Xor(a, Polynomial), Xor(b, Polynomial)) = Xor(a, b)
      /\ Xor(Xor(a, Polynomial), b) = Xor(Xor(a, b), Polynomial)
      /\ Xor(a, Xor(b, Polynomial)) = Xor(Xor(a, b), Polynomial)
  <2> HIDE DEF a, b
  <2> QED BY DEF Xor
<1> HIDE DEF a, b
<1>4. /\ ShiftIn(v, p) = IF (31 \in v) # p THEN Xor(a, Polynomial) ELSE a
      /\ ShiftIn(w, q) = IF (31 \in w) # q THEN Xor(b, Polynomial) ELSE b
      /\ ShiftIn(Xor(v, w), p # q) =
           IF (31 \in Xor(v, w)) # (p # q) THEN Xor(Xor(a, b), Polynomial) ELSE Xor(a, b)
  BY <1>1 DEF ShiftIn, a, b
<1> QED BY <1>2, <1>3, <1>4
-----------------------------------------------------------------------------
(* A byte that is shifted in.                                              *)

ByteValues(f, r, bits) ==
  /\ f \in [0..8 -> Words] /\ f[0] = r /\ ByteIn(r, bits) = f[8]
  /\ \A k \in 1..8 : f[k] = ShiftIn(f[k - 1], (8 - k) \in bits)

LEMMA ByteInIs ==
  ASSUME NEW r \in Words, NEW bits
  PROVE  \E f : ByteValues(f, r, bits)
<1> DEFINE step == [w \in Words |-> [bit \in BOOLEAN |-> ShiftIn(w, bit)]]
           items == [k \in 1..8 |-> (8 - k) \in bits]
<1>1. step \in [Words -> [BOOLEAN -> Words]]
  BY ShiftInType
<1>2. PICK n \in Nat : n = 8
  OBVIOUS
<1>3. Len(items) = n
  <2>1. items \in [1..n -> BOOLEAN]
    BY <1>2
  <2> HIDE DEF items
  <2>2. items \in Seq(BOOLEAN) /\ DOMAIN items = 1..n
    BY <2>1, SeqDef
  <2> QED BY <2>1, <2>2, LenProperties
<1>4. \A k \in 1..8 : items[k] = ((8 - k) \in bits) /\ items[k] \in BOOLEAN
  <2>1. \A k \in 1..8 : items[k] = ((8 - k) \in bits)
    BY Zenon
  <2>2. \A b : (b \in bits) \in BOOLEAN
    BY SMT
  <2> HIDE DEF items
  <2> QED BY <2>1, <2>2, Zenon
<1>5. ByteIn(r, bits) = Run(step, r, items)
  BY DEF ByteIn
<1>6. \A k \in 1..8 : \A w \in Words : step[w][items[k]] = ShiftIn(w, (8 - k) \in bits)
  <2>1. \A w \in Words : \A bit \in BOOLEAN : step[w][bit] = ShiftIn(w, bit)
    BY Zenon
  <2>2. ASSUME NEW k \in 1..8, NEW w \in Words
        PROVE  step[w][items[k]] = ShiftIn(w, (8 - k) \in bits)
    <3> HIDE DEF step, items
    <3>1. step[w][items[k]] = ShiftIn(w, items[k])
      BY <1>4, <2>1, Zenon
    <3>2. items[k] = ((8 - k) \in bits)
      BY <1>4
    <3> QED BY <3>1, <3>2, Zenon
  <2> QED BY <2>2
<1> HIDE DEF step, items
<1>7. Loop(Words, BOOLEAN, step, r, items, n)
  BY <1>1, <1>2, <1>3, <1>4 DEF Loop
<1>8. PICK f : Ends(Words, step, r, items, n, f)
  BY <1>7, RunIs, Zenon
<1>9. f \in [0..8 -> Words] /\ f[0] = r /\ Run(step, r, items) = f[8]
  BY <1>2, <1>8 DEF Ends, Values
<1>10. ASSUME NEW k \in 1..8 PROVE f[k] = ShiftIn(f[k - 1], (8 - k) \in bits)
  <2>1. f[k] = step[f[k - 1]][items[k]]
    BY <1>2, <1>8 DEF Ends, Values
  <2>2. f[k - 1] \in Words
    BY <1>9
  <2> QED BY <1>6, <2>1, <2>2
<1>11. ByteValues(f, r, bits)
  BY <1>5, <1>9, <1>10 DEF ByteValues
<1> QED BY <1>11

LEMMA ByteInType ==
  ASSUME NEW r \in Words, NEW bits
  PROVE  ByteIn(r, bits) \in Words
<1>1. PICK f : ByteValues(f, r, bits)
  BY ByteInIs
<1> QED BY <1>1 DEF ByteValues

(* The division is linear.                                                 *)
LEMMA ByteInXor ==
  ASSUME NEW a \in Words, NEW b \in Words, NEW x, NEW y
  PROVE  ByteIn(Xor(a, b), Xor(x, y)) = Xor(ByteIn(a, x), ByteIn(b, y))
<1>1. PICK f : ByteValues(f, a, x)
  BY ByteInIs
<1>2. PICK g : ByteValues(g, b, y)
  BY ByteInIs
<1>3. Xor(a, b) \in Words
  BY XorType
<1>4. PICK h : ByteValues(h, Xor(a, b), Xor(x, y))
  BY <1>3, ByteInIs
<1> DEFINE P == {k \in 0..8 : h[k] = Xor(f[k], g[k])}
<1>5. 0 \in P
  BY <1>1, <1>2, <1>4 DEF ByteValues
<1>6. ASSUME NEW k \in 0..(8 - 1), k \in P PROVE k + 1 \in P
  <2>1. k + 1 \in 1..8 /\ (k + 1) - 1 = k /\ h[k] = Xor(f[k], g[k])
    BY <1>6
  <2> DEFINE p == (8 - (k + 1)) \in x
             q == (8 - (k + 1)) \in y
             s == (8 - (k + 1)) \in Xor(x, y)
  <2>2. f[k + 1] = ShiftIn(f[k], p) /\ g[k + 1] = ShiftIn(g[k], q) /\ h[k + 1] = ShiftIn(h[k], s)
    BY <1>1, <1>2, <1>4, <2>1 DEF ByteValues
  <2>3. s = (p # q) /\ p \in BOOLEAN /\ q \in BOOLEAN
    BY DEF Xor
  <2>4. f[k] \in Words /\ g[k] \in Words
    BY <1>1, <1>2 DEF ByteValues
  <2> HIDE DEF p, q, s
  <2>5. ShiftIn(Xor(f[k], g[k]), p # q) = Xor(ShiftIn(f[k], p), ShiftIn(g[k], q))
    BY <2>3, <2>4, ShiftInXor
  <2>6. h[k + 1] = Xor(f[k + 1], g[k + 1])
    BY <2>1, <2>2, <2>3, <2>5
  <2> QED BY <2>1, <2>6
<1> HIDE DEF P
<1>7. PICK n \in Nat : n = 8
  OBVIOUS
<1>8. \A i \in 0..n : i \in P
  <2>1. \A i \in 0..(n - 1) : i \in P => i + 1 \in P
    BY <1>6, <1>7
  <2> QED BY <1>5, <2>1, Induction
<1>9. 8 \in P
  BY <1>7, <1>8
<1> QED BY <1>1, <1>2, <1>4, <1>9 DEF P, ByteValues

(* The bits that a register pushes out itself leave nothing of it behind.  *)
LEMMA OwnByte ==
  ASSUME NEW r \in Words
  PROVE  ByteIn(r, ByteAt(r, 24)) = ShiftLeft(r, 8)
<1>1. PICK f : ByteValues(f, r, ByteAt(r, 24))
  BY ByteInIs
<1> DEFINE P == {k \in 0..8 : f[k] = ShiftLeft(r, k)}
<1>2. 0 \in P
  BY <1>1, ShiftNothing DEF ByteValues
<1>3. ASSUME NEW k \in 0..(8 - 1), k \in P PROVE k + 1 \in P
  <2>1. k + 1 \in 1..8 /\ (k + 1) - 1 = k /\ f[k] = ShiftLeft(r, k)
    BY <1>3
  <2> DEFINE bit == (8 - (k + 1)) \in ByteAt(r, 24)
  <2>2. f[k + 1] = ShiftIn(f[k], bit)
    BY <1>1, <2>1 DEF ByteValues
  <2>3. bit <=> 31 - k \in r
    <3>1. 8 - (k + 1) \in 0..7 /\ 24 + (8 - (k + 1)) = 31 - k
      OBVIOUS
    <3> QED BY <3>1 DEF ByteAt
  <2>4. 31 \in ShiftLeft(r, k) <=> 31 - k \in r
    <3>1. 31 \in Bits /\ k \in Nat
      BY DEF Bits
    <3> QED BY <3>1, Shifted
  <2> HIDE DEF bit
  <2>5. ShiftIn(ShiftLeft(r, k), bit) = ShiftLeft(ShiftLeft(r, k), 1)
    <3>1. bit \in BOOLEAN
      BY DEF bit
    <3> QED BY <2>3, <2>4, <3>1 DEF ShiftIn
  <2>6. ShiftLeft(ShiftLeft(r, k), 1) = ShiftLeft(r, k + 1)
    <3>1. PICK m \in Nat : m = 1
      OBVIOUS
    <3>2. k \in Nat
      OBVIOUS
    <3>3. ShiftLeft(ShiftLeft(r, k), m) = ShiftLeft(r, k + m)
      BY <3>2, ShiftTwice
    <3> QED BY <3>1, <3>3
  <2>7. f[k + 1] = ShiftLeft(r, k + 1)
    BY <2>1, <2>2, <2>5, <2>6
  <2> QED BY <2>1, <2>7
<1> HIDE DEF P
<1>4. PICK n \in Nat : n = 8
  OBVIOUS
<1>5. \A i \in 0..n : i \in P
  <2>1. \A i \in 0..(n - 1) : i \in P => i + 1 \in P
    BY <1>3, <1>4
  <2> QED BY <1>2, <2>1, Induction
<1>6. 8 \in P
  BY <1>4, <1>5
<1> QED BY <1>1, <1>6 DEF P, ByteValues
-----------------------------------------------------------------------------
(* calc_crc32 and the receiver.                                            *)

(* One turn of calc_crc32 shifts in the eight bits of a byte.              *)
LEMMA TurnIs ==
  ASSUME NEW r \in Words, NEW byte
  PROVE  Turn(r, byte) = ByteIn(r, BitsOf(byte))
<1> DEFINE h == ByteAt(r, 24)
           x == BitsOf(byte)
           y == Xor(h, x)
<1>1. h \in SUBSET (0..7) /\ x \in SUBSET (0..7)
  BY DEF ByteAt, BitsOf
<1>2. Turn(r, byte) = Xor(ShiftLeft(r, 8), TableWord(y))
  BY DEF Turn
<1>3. ByteIn(r, h) = ShiftLeft(r, 8)
  BY OwnByte
<1> HIDE DEF h, x
<1>4. y \in SUBSET (0..7)
  BY <1>1 DEF Xor
<1>5. TableWord(y) = ByteIn({}, y)
  BY <1>4, CrcTabAssumption
<1>6. x = Xor(h, y) /\ r = Xor(r, {})
  BY DEF Xor
<1> HIDE DEF y
<1>7. ByteIn(Xor(r, {}), Xor(h, y)) = Xor(ByteIn(r, h), ByteIn({}, y))
  <2>1. {} \in Words
    BY DEF Words
  <2> QED BY <2>1, ByteInXor
<1>8. ByteIn(r, x) = Xor(ByteIn(r, h), ByteIn({}, y))
  BY <1>6, <1>7
<1> QED BY <1>2, <1>3, <1>5, <1>8 DEF x

(* calc_crc32 computes the remainder of the division by the polynomial,    *)
(* for every message (crc.h:47-57).                                        *)
THEOREM CrcIsRemainder == \A bytes : calc_crc32(bytes) = Remainder(bytes)
<1>1. [crc \in Words |-> [byte \in Bytes |-> Turn(crc, byte)]]
        = [r \in Words |-> [byte \in Bytes |-> ByteIn(r, BitsOf(byte))]]
  <2>1. \A r \in Words : \A byte \in Bytes : Turn(r, byte) = ByteIn(r, BitsOf(byte))
    BY TurnIs
  <2> QED BY <2>1
<1> QED BY <1>1 DEF calc_crc32, Remainder

(* The eight bits of a byte.                                               *)
LEMMA BitsOfSum ==
  ASSUME NEW b0 \in 0..1, NEW b1 \in 0..1, NEW b2 \in 0..1, NEW b3 \in 0..1,
         NEW b4 \in 0..1, NEW b5 \in 0..1, NEW b6 \in 0..1, NEW b7 \in 0..1, NEW n,
         n = b0 + 2 * b1 + 4 * b2 + 8 * b3 + 16 * b4 + 32 * b5 + 64 * b6 + 128 * b7
  PROVE  /\ n \in 0..255
         /\ (n \div 1) % 2 = b0 /\ (n \div 2) % 2 = b1 /\ (n \div 4) % 2 = b2
         /\ (n \div 8) % 2 = b3 /\ (n \div 16) % 2 = b4 /\ (n \div 32) % 2 = b5
         /\ (n \div 64) % 2 = b6 /\ (n \div 128) % 2 = b7
<1>1. n \in 0..255
  OBVIOUS
<1>2. (n \div 1) % 2 = b0
  OBVIOUS
<1>3. (n \div 2) % 2 = b1
  OBVIOUS
<1>4. (n \div 4) % 2 = b2
  OBVIOUS
<1>5. (n \div 8) % 2 = b3
  OBVIOUS
<1>6. (n \div 16) % 2 = b4
  OBVIOUS
<1>7. (n \div 32) % 2 = b5
  OBVIOUS
<1>8. (n \div 64) % 2 = b6
  OBVIOUS
<1>9. (n \div 128) % 2 = b7
  OBVIOUS
<1> QED BY <1>1, <1>2, <1>3, <1>4, <1>5, <1>6, <1>7, <1>8, <1>9

LEMMA BitsOfValue ==
  ASSUME NEW bits \in SUBSET (0..7)
  PROVE  ValueOf(bits) \in Bytes /\ BitsOf(ValueOf(bits)) = bits
<1> DEFINE b(i) == IF i \in bits THEN 1 ELSE 0
           n == ValueOf(bits)
<1>1. /\ Weight[1] = 1 /\ Weight[2] = 2 /\ Weight[3] = 4 /\ Weight[4] = 8
      /\ Weight[5] = 16 /\ Weight[6] = 32 /\ Weight[7] = 64 /\ Weight[8] = 128
  BY DEF Weight
<1>2. n = b(0) + 2 * b(1) + 4 * b(2) + 8 * b(3) + 16 * b(4) + 32 * b(5) + 64 * b(6) + 128 * b(7)
  <2> DEFINE v(i) == IF i \in bits THEN Weight[i + 1] ELSE 0
  <2>1. n = v(0) + v(1) + v(2) + v(3) + v(4) + v(5) + v(6) + v(7)
    BY DEF ValueOf
  <2>2. /\ v(0) = b(0) /\ v(1) = 2 * b(1) /\ v(2) = 4 * b(2) /\ v(3) = 8 * b(3)
        /\ v(4) = 16 * b(4) /\ v(5) = 32 * b(5) /\ v(6) = 64 * b(6) /\ v(7) = 128 * b(7)
    BY <1>1
  <2> HIDE DEF n, v, b
  <2> QED BY <2>1, <2>2
<1>3. \A i \in 0..7 : b(i) \in 0..1 /\ (b(i) = 1 <=> i \in bits)
  OBVIOUS
<1> HIDE DEF b, n
<1>4. /\ n \in 0..255
      /\ (n \div 1) % 2 = b(0) /\ (n \div 2) % 2 = b(1) /\ (n \div 4) % 2 = b(2)
      /\ (n \div 8) % 2 = b(3) /\ (n \div 16) % 2 = b(4) /\ (n \div 32) % 2 = b(5)
      /\ (n \div 64) % 2 = b(6) /\ (n \div 128) % 2 = b(7)
  BY <1>2, <1>3, BitsOfSum
<1>5. ASSUME NEW i \in 0..7 PROVE (n \div Weight[i + 1]) % 2 = 1 <=> i \in bits
  <2>1. i = 0 \/ i = 1 \/ i = 2 \/ i = 3 \/ i = 4 \/ i = 5 \/ i = 6 \/ i = 7
    OBVIOUS
  <2> QED BY <1>1, <1>3, <1>4, <2>1
<1>6. BitsOf(n) = bits
  BY <1>5 DEF BitsOf
<1> QED BY <1>4, <1>6 DEF n, Bytes

(* Four bytes of a word, of which each shifts the word on by eight.        *)
LEMMA FourBytesAre ==
  ASSUME NEW c \in Words
  PROVE  /\ FourBytes[c] = [k \in 1..4 |-> FourBytes[c][k]]
         /\ \A k \in 1..4 :
              /\ FourBytes[c][k] \in Bytes
              /\ ByteIn(ShiftLeft(c, 8 * (k - 1)), BitsOf(FourBytes[c][k])) = ShiftLeft(c, 8 * k)
<1>1. FourBytes[c] = [k \in 1..4 |-> ValueOf(ByteAt(c, 32 - 8 * k))]
  BY DEF FourBytes
<1>2. ASSUME NEW k \in 1..4
      PROVE  /\ FourBytes[c][k] \in Bytes
             /\ ByteIn(ShiftLeft(c, 8 * (k - 1)), BitsOf(FourBytes[c][k])) = ShiftLeft(c, 8 * k)
  <2> DEFINE w == ShiftLeft(c, 8 * (k - 1))
             bits == ByteAt(c, 32 - 8 * k)
  <2>1. bits \in SUBSET (0..7) /\ FourBytes[c][k] = ValueOf(bits)
    BY <1>1 DEF ByteAt
  <2>2. ByteAt(w, 24) = bits
    <3>1. ASSUME NEW i \in 0..7 PROVE 24 + i \in w <=> (32 - 8 * k) + i \in c
      <4>1. 24 + i \in Bits /\ 8 * (k - 1) \in Nat /\ (24 + i) - 8 * (k - 1) = (32 - 8 * k) + i
        BY DEF Bits
      <4> QED BY <4>1, Shifted
    <3> QED BY <3>1 DEF ByteAt
  <2>3. w \in Words
    BY ShiftType
  <2>4. ShiftLeft(w, 8) = ShiftLeft(c, 8 * k)
    <3>1. PICK m \in Nat, n \in Nat : m = 8 * (k - 1) /\ n = 8
      OBVIOUS
    <3>2. ShiftLeft(ShiftLeft(c, m), n) = ShiftLeft(c, m + n)
      BY ShiftTwice
    <3>3. m + n = 8 * k
      BY <3>1
    <3> QED BY <3>1, <3>2, <3>3
  <2> HIDE DEF w, bits
  <2>5. ByteIn(w, bits) = ShiftLeft(c, 8 * k)
    BY <2>2, <2>3, <2>4, OwnByte
  <2>6. ValueOf(bits) \in Bytes /\ BitsOf(ValueOf(bits)) = bits
    BY <2>1, BitsOfValue
  <2>7. ByteIn(w, BitsOf(FourBytes[c][k])) = ShiftLeft(c, 8 * k)
    BY <2>1, <2>5, <2>6
  <2> QED BY <2>1, <2>6, <2>7 DEF w
<1> QED BY <1>1, <1>2

LEMMA ShiftedOut ==
  ASSUME NEW c \in Words
  PROVE  ShiftLeft(c, 32) = {}
BY DEF ShiftLeft, Words, Bits

LEMMA Part ==
  ASSUME NEW d, NEW a \in Nat, NEW b \in Nat, a <= b
  PROVE  SubSeq(d, a, b) = [i \in 1..(b - a + 1) |-> d[a + i - 1]]
<1> DEFINE S == {d[i] : i \in a..b}
           p == SubSeq(d, a, b)
<1>1. \A i \in a..b : d[i] \in S
  OBVIOUS
<1> HIDE DEF S
<1>2. p \in Seq(S) /\ Len(p) = b - a + 1 /\ \A i \in 1..(b - a + 1) : p[i] = d[a + i - 1]
  BY <1>1, SubSeqProperties
<1> HIDE DEF p
<1>3. p = [i \in 1..(b - a + 1) |-> p[i]]
  BY <1>2
<1> QED BY <1>2, <1>3 DEF p

-----------------------------------------------------------------------------
(* A section with its CRC.                                                 *)

Message(bytes, n) == n \in Nat /\ Len(bytes) = n /\ \A i \in 1..n : bytes[i] \in Bytes

LEMMA MessageLoop ==
  ASSUME NEW bytes, NEW n, Message(bytes, n)
  PROVE  LET step == [r \in Words |-> [byte \in Bytes |-> ByteIn(r, BitsOf(byte))]]
         IN  Loop(Words, Bytes, step, Bits, bytes, n)
<1> DEFINE step == [r \in Words |-> [byte \in Bytes |-> ByteIn(r, BitsOf(byte))]]
<1>1. step \in [Words -> [Bytes -> Words]]
  BY ByteInType
<1>2. Bits \in Words
  BY DEF Words
<1> HIDE DEF step
<1>3. Loop(Words, Bytes, step, Bits, bytes, n)
  BY <1>1, <1>2 DEF Loop, Message
<1> QED BY <1>3 DEF step

LEMMA RemainderType ==
  ASSUME NEW bytes, NEW n, Message(bytes, n)
  PROVE  Remainder(bytes) \in Words
<1> DEFINE step == [r \in Words |-> [byte \in Bytes |-> ByteIn(r, BitsOf(byte))]]
<1>1. Loop(Words, Bytes, step, Bits, bytes, n)
  BY MessageLoop
<1>2. Remainder(bytes) = Run(step, Bits, bytes)
  BY DEF Remainder
<1> HIDE DEF step
<1>3. PICK f : Ends(Words, step, Bits, bytes, n, f)
  BY <1>1, RunIs, Zenon
<1> QED BY <1>2, <1>3 DEF Ends, Message

LEMMA RemainderOneMore ==
  ASSUME NEW bytes, NEW more, NEW n, Message(bytes, n), Message(more, n + 1), Agree(bytes, more, n)
  PROVE  Remainder(more) = ByteIn(Remainder(bytes), BitsOf(more[n + 1]))
<1> DEFINE step == [r \in Words |-> [byte \in Bytes |-> ByteIn(r, BitsOf(byte))]]
<1>1. Loop(Words, Bytes, step, Bits, bytes, n) /\ Loop(Words, Bytes, step, Bits, more, n + 1)
  BY MessageLoop
<1>2. Remainder(bytes) = Run(step, Bits, bytes) /\ Remainder(more) = Run(step, Bits, more)
  BY DEF Remainder
<1>3. \A r \in Words : \A byte \in Bytes : step[r][byte] = ByteIn(r, BitsOf(byte))
  OBVIOUS
<1> HIDE DEF step
<1>4. /\ Run(step, Bits, bytes) \in Words
      /\ Run(step, Bits, more) = step[Run(step, Bits, bytes)][more[n + 1]]
  <2>1. OneTurnMore(Words, step, Bits, bytes, more, n)
    BY <1>1, RunOneMore, Zenon
  <2> QED BY <2>1 DEF OneTurnMore
<1>5. more[n + 1] \in Bytes
  BY DEF Message
<1> QED BY <1>2, <1>3, <1>4, <1>5

(* Behind a message, the four bytes of its remainder leave nothing.        *)
LEMMA NothingLeft ==
  ASSUME NEW d, NEW n \in Nat, 2 <= n, NEW c, c = Remainder(SubSeq(d, 2, n)),
         \A i \in 2..(n + 4) : d[i] \in Bytes,
         \A k \in 1..4 : d[n + k] = FourBytes[c][k]
  PROVE  Remainder(SubSeq(d, 2, n + 4)) = {}
<1> DEFINE part(k) == SubSeq(d, 2, n + k)
           P == {k \in 0..4 : Remainder(part(k)) = ShiftLeft(c, 8 * k)}
<1>1. ASSUME NEW k \in 0..4
      PROVE  /\ Message(part(k), (n + k) - 1)
             /\ \A i \in 1..((n + k) - 1) : part(k)[i] = d[i + 1]
  <2>1. PICK m \in Nat : m = n + k
    OBVIOUS
  <2>2. SubSeq(d, 2, m) = [i \in 1..(m - 2 + 1) |-> d[2 + i - 1]]
    BY <2>1, Part
  <2>3. m - 2 + 1 = m - 1 /\ m - 1 \in Nat /\ \A i \in 1..(m - 1) : 2 + i - 1 = i + 1 /\ i + 1 \in 2..(n + 4)
    BY <2>1
  <2>4. \A i \in 1..(m - 1) : SubSeq(d, 2, m)[i] = d[i + 1]
    BY <2>2, <2>3
  <2>5. Len(SubSeq(d, 2, m)) = m - 1
    BY <2>2, <2>3
  <2>6. Message(SubSeq(d, 2, m), m - 1)
    BY <2>3, <2>4, <2>5 DEF Message
  <2> QED BY <2>1, <2>4, <2>6
<1>2. part(0) = SubSeq(d, 2, n)
  OBVIOUS
<1> HIDE DEF part
<1>3. c \in Words
  <2>1. Message(part(0), (n + 0) - 1)
    BY <1>1
  <2> QED BY <1>2, <2>1, RemainderType
<1>4. 0 \in P
  <2>1. 8 * 0 = 0
    OBVIOUS
  <2>2. Remainder(part(0)) = ShiftLeft(c, 8 * 0)
    BY <1>2, <1>3, <2>1, ShiftNothing
  <2> QED BY <2>2
<1>5. ASSUME NEW k \in 0..(4 - 1), k \in P PROVE k + 1 \in P
  <2>1. k \in 0..4 /\ k + 1 \in 1..4 /\ k + 1 \in 0..4 /\ (k + 1) - 1 = k /\ Remainder(part(k)) = ShiftLeft(c, 8 * k)
    BY <1>5
  <2>2. PICK m : m = (n + k) - 1
    OBVIOUS
  <2>3. Message(part(k), m) /\ Message(part(k + 1), m + 1) /\ Agree(part(k), part(k + 1), m)
    <3>1. (n + (k + 1)) - 1 = m + 1
      BY <2>2
    <3>2. Message(part(k), m) /\ Message(part(k + 1), m + 1)
      BY <1>1, <2>1, <2>2, <3>1
    <3>3. \A i \in 1..m : part(k)[i] = d[i + 1] /\ part(k + 1)[i] = d[i + 1]
      BY <1>1, <2>1, <2>2, <3>1
    <3> QED BY <3>2, <3>3 DEF Agree
  <2>4. Remainder(part(k + 1)) = ByteIn(ShiftLeft(c, 8 * k), BitsOf(part(k + 1)[m + 1]))
    BY <2>1, <2>3, RemainderOneMore
  <2>5. part(k + 1)[m + 1] = FourBytes[c][k + 1]
    <3>1. (n + (k + 1)) - 1 = m + 1 /\ m + 1 \in 1..(m + 1) /\ (m + 1) + 1 = n + (k + 1)
      BY <2>2
    <3>2. part(k + 1)[m + 1] = d[(m + 1) + 1]
      BY <1>1, <2>1, <3>1
    <3> QED BY <2>1, <3>1, <3>2
  <2>6. ByteIn(ShiftLeft(c, 8 * k), BitsOf(FourBytes[c][k + 1])) = ShiftLeft(c, 8 * (k + 1))
    <3>1. PICK j \in 1..4 : j = k + 1
      BY <2>1
    <3>2. ByteIn(ShiftLeft(c, 8 * (j - 1)), BitsOf(FourBytes[c][j])) = ShiftLeft(c, 8 * j)
      BY <1>3, FourBytesAre
    <3> QED BY <2>1, <3>1, <3>2
  <2>7. Remainder(part(k + 1)) = ShiftLeft(c, 8 * (k + 1))
    BY <2>4, <2>5, <2>6
  <2> QED BY <2>1, <2>7
<1> HIDE DEF P
<1>6. PICK m \in Nat : m = 4
  OBVIOUS
<1>7. \A i \in 0..m : i \in P
  <2>1. \A i \in 0..(m - 1) : i \in P => i + 1 \in P
    BY <1>5, <1>6
  <2> QED BY <1>4, <2>1, Induction
<1>8. Remainder(part(4)) = ShiftLeft(c, 8 * 4)
  <2>1. 4 \in P
    BY <1>6, <1>7
  <2> QED BY <2>1 DEF P
<1> QED BY <1>3, <1>8, ShiftedOut DEF part
-----------------------------------------------------------------------------
(* The payload of a packet.                                                *)

Places == 1..TSPACKET_PAYLOAD_LENGTH

LEMMA PlacesAre == Places = 1..184 /\ TSPACKET_PAYLOAD_LENGTH = 184
BY DEF Places, TSPACKET_PAYLOAD_LENGTH, TSPACKET_LENGTH, TSPACKET_HEADER_LENGTH

(* d is the payload of a packet.                                           *)
ByteSeq(bytes) == \A i \in DOMAIN bytes : bytes[i] \in Bytes
Payload(d) == d = [i \in Places |-> d[i]] /\ \A i \in Places : d[i] \in Bytes

(* Bytes written at an offset are there, and no others change.             *)
LEMMA PutPlaces ==
  ASSUME NEW d, Payload(d), NEW at \in Nat, NEW bytes, ByteSeq(bytes)
  PROVE  /\ Payload(Put(d, at, bytes))
         /\ \A i \in Places :
              Put(d, at, bytes)[i] = IF i - at \in DOMAIN bytes THEN bytes[i - at] ELSE d[i]
<1>1. DOMAIN d = Places
  BY DEF Payload
<1> DEFINE e == Put(d, at, bytes)
<1>2. e = [i \in Places |-> IF i - at \in DOMAIN bytes THEN bytes[i - at] ELSE d[i]]
  BY <1>1 DEF Put
<1> HIDE DEF e
<1>3. \A i \in Places : e[i] = IF i - at \in DOMAIN bytes THEN bytes[i - at] ELSE d[i]
  BY <1>2
<1>4. e = [i \in Places |-> e[i]]
  BY <1>2
<1>5. \A i \in Places : e[i] \in Bytes
  BY <1>3 DEF Payload, ByteSeq
<1> QED BY <1>3, <1>4, <1>5 DEF Payload, e

LEMMA LenOfPayload ==
  ASSUME NEW d, Payload(d)
  PROVE  Len(d) = 184
<1> DEFINE S == {d[i] : i \in Places}
           N == TSPACKET_PAYLOAD_LENGTH
<1>1. d \in [1..N -> S] /\ N \in Nat
  BY PlacesAre DEF Payload, Places
<1> HIDE DEF S, N
<1>2. d \in Seq(S) /\ DOMAIN d = 1..N
  BY <1>1, SeqDef
<1>3. Len(d) \in Nat /\ DOMAIN d = 1..Len(d)
  BY <1>2, LenProperties
<1>4. Len(d) = N
  BY <1>1, <1>2, <1>3
<1> QED BY <1>4, PlacesAre DEF N

LEMMA PartIsMessage ==
  ASSUME NEW d, Payload(d), NEW n \in Nat, 13 <= n, n + 4 <= 184
  PROVE  Message(SubSeq(d, 2, n), n - 1)
<1>1. SubSeq(d, 2, n) = [i \in 1..(n - 2 + 1) |-> d[2 + i - 1]]
  BY Part
<1>2. n - 2 + 1 = n - 1 /\ n - 1 \in Nat
  OBVIOUS
<1>3. \A i \in 1..(n - 1) : 2 + i - 1 \in Places
  BY PlacesAre
<1>4. \A i \in 1..(n - 1) : SubSeq(d, 2, n)[i] \in Bytes
  BY <1>1, <1>2, <1>3 DEF Payload
<1>5. Len(SubSeq(d, 2, n)) = n - 1
  BY <1>1, <1>2
<1> QED BY <1>2, <1>4, <1>5 DEF Message

(* The CRC stored behind a section is found there by a receiver.           *)
LEMMA CrcStored ==
  ASSUME NEW d, Payload(d), NEW n \in Nat, 13 <= n, n + 4 <= 184, LengthOf(d) = n
  PROVE  LET e == WithCrcAt(d, n, n)
         IN  /\ Payload(e) /\ LengthOf(e) = n /\ CrcHolds(e) /\ Accepts(e)
             /\ \A i \in 1..n : e[i] = d[i]
<1> DEFINE sum == FourBytes[calc_crc32(SubSeq(d, 2, n))]
           e == WithCrcAt(d, n, n)
           c == calc_crc32(SubSeq(d, 2, n))
<1>0. c = Remainder(SubSeq(d, 2, n)) /\ c \in Words
  <2>1. c = Remainder(SubSeq(d, 2, n))
    BY CrcIsRemainder
  <2>2. Message(SubSeq(d, 2, n), n - 1)
    BY PartIsMessage
  <2> QED BY <2>1, <2>2, RemainderType
<1>1. DOMAIN sum = 1..4 /\ sum = [i \in 1..4 |-> sum[i]] /\ ByteSeq(sum)
  BY <1>0, FourBytesAre DEF ByteSeq
<1>2. e = Put(d, n, sum)
  BY DEF WithCrcAt
<1> HIDE DEF sum, e
<1>3. /\ Payload(e)
      /\ \A i \in Places : e[i] = IF i \in (n + 1)..(n + 4) THEN sum[i - n] ELSE d[i]
  <2>1. /\ Payload(Put(d, n, sum))
        /\ \A i \in Places :
             Put(d, n, sum)[i] = IF i - n \in DOMAIN sum THEN sum[i - n] ELSE d[i]
    BY <1>1, PutPlaces
  <2>2. \A i \in Places : i - n \in 1..4 <=> i \in (n + 1)..(n + 4)
    BY PlacesAre
  <2> QED BY <1>1, <1>2, <2>1, <2>2
<1>4. \A i \in 1..n : e[i] = d[i]
  BY <1>3, PlacesAre
<1>5. LengthOf(e) = n
  <2>1. e[3] = d[3] /\ e[4] = d[4]
    BY <1>4
  <2> QED BY <2>1 DEF LengthOf, Word
<1>6. SubSeq(e, 2, n) = SubSeq(d, 2, n)
  <2>1. SubSeq(e, 2, n) = [i \in 1..(n - 2 + 1) |-> e[2 + i - 1]]
    BY Part
  <2>2. SubSeq(d, 2, n) = [i \in 1..(n - 2 + 1) |-> d[2 + i - 1]]
    BY Part
  <2>3. \A i \in 1..(n - 2 + 1) : e[2 + i - 1] = d[2 + i - 1]
    BY <1>4
  <2> QED BY <2>1, <2>2, <2>3
<1>7. SubSeq(e, n + 1, n + 4) = sum
  <2>1. SubSeq(e, n + 1, n + 4) = [i \in 1..((n + 4) - (n + 1) + 1) |-> e[(n + 1) + i - 1]]
    BY Part
  <2>2. \A i \in 1..4 : e[(n + 1) + i - 1] = sum[i]
    BY <1>3, PlacesAre
  <2>3. 1..((n + 4) - (n + 1) + 1) = 1..4
    OBVIOUS
  <2> QED BY <1>1, <2>1, <2>2, <2>3
<1>8. CrcHolds(e)
  BY <1>3, <1>5, <1>6, <1>7, LenOfPayload DEF CrcHolds, sum
<1>9. Accepts(e)
  <2>1. \A i \in 2..(n + 4) : e[i] \in Bytes
    <3>1. \A i \in 2..(n + 4) : i \in Places
      BY PlacesAre
    <3>2. \A i \in Places : e[i] \in Bytes
      BY <1>3 DEF Payload
    <3> QED BY <3>1, <3>2
  <2>2. \A k \in 1..4 : e[n + k] = FourBytes[c][k]
    <3>1. \A k \in 1..4 : n + k \in Places /\ n + k \in (n + 1)..(n + 4) /\ (n + k) - n = k
      BY PlacesAre
    <3>2. \A k \in 1..4 : e[n + k] = sum[k]
      BY <1>3, <3>1
    <3> QED BY <3>2 DEF sum
  <2>3. c = Remainder(SubSeq(e, 2, n))
    BY <1>0, <1>6
  <2> HIDE DEF c
  <2>4. Remainder(SubSeq(e, 2, n + 4)) = {}
    BY <2>1, <2>2, <2>3, NothingLeft
  <2>5. n + 4 <= Len(e)
    BY <1>3, LenOfPayload
  <2> QED BY <1>5, <2>4, <2>5 DEF Accepts, Section
<1> QED BY <1>3, <1>4, <1>5, <1>8, <1>9 DEF e

(* Writing two and five bytes.                                             *)
HasTwo(e, d, at, bytes) ==
  /\ Payload(e)
  /\ at + 1 \in Places => e[at + 1] = bytes[1]
  /\ at + 2 \in Places => e[at + 2] = bytes[2]
  /\ \A i \in Places : i # at + 1 /\ i # at + 2 => e[i] = d[i]
HasFive(e, d, at, bytes) ==
  /\ Payload(e)
  /\ \A i \in Places : e[i] = IF i \in (at + 1)..(at + 5) THEN bytes[i - at] ELSE d[i]

LEMMA PutTwo ==
  ASSUME NEW d, Payload(d), NEW at \in Nat, NEW bytes, DOMAIN bytes = 1..2, ByteSeq(bytes)
  PROVE  HasTwo(Put(d, at, bytes), d, at, bytes)
<1> DEFINE e == Put(d, at, bytes)
<1>1. \A i \in Places : /\ i - at \in 1..2 <=> i = at + 1 \/ i = at + 2
                        /\ i = at + 1 => i - at = 1
                        /\ i = at + 2 => i - at = 2 /\ i # at + 1
  BY PlacesAre
<1>2. /\ Payload(e)
      /\ \A i \in Places : e[i] = IF i - at \in DOMAIN bytes THEN bytes[i - at] ELSE d[i]
  BY PutPlaces
<1> HIDE DEF e
<1>3. HasTwo(e, d, at, bytes)
  BY <1>1, <1>2 DEF HasTwo
<1> QED BY <1>3 DEF e

LEMMA PutFive ==
  ASSUME NEW d, Payload(d), NEW at \in Nat, NEW bytes, DOMAIN bytes = 1..5, ByteSeq(bytes)
  PROVE  HasFive(Put(d, at, bytes), d, at, bytes)
<1> DEFINE e == Put(d, at, bytes)
<1>1. \A i \in Places : i - at \in 1..5 <=> i \in (at + 1)..(at + 5)
  BY PlacesAre
<1>2. /\ Payload(e)
      /\ \A i \in Places : e[i] = IF i - at \in DOMAIN bytes THEN bytes[i - at] ELSE d[i]
  BY PutPlaces
<1> HIDE DEF e
<1>3. HasFive(e, d, at, bytes)
  BY <1>1, <1>2 DEF HasFive
<1> QED BY <1>3 DEF e

-----------------------------------------------------------------------------
(* Lengths and PIDs are read as they were written.                         *)

LEMMA LengthRead ==
  ASSUME NEW n \in Nat, n <= 184
  PROVE  (LengthBytes(n)[1] * 256 + LengthBytes(n)[2]) % 4096 = n /\ ByteSeq(LengthBytes(n))
<1>1. n \div 256 = 0 /\ n % 256 = n
  OBVIOUS
<1>2. LengthBytes(n)[1] = 176 /\ LengthBytes(n)[2] = n
  BY <1>1 DEF LengthBytes
<1>3. (176 * 256 + n) % 4096 = n
  OBVIOUS
<1>4. ByteSeq(LengthBytes(n))
  <2>1. DOMAIN LengthBytes(n) = 1..2
    BY DEF LengthBytes
  <2> QED BY <1>2, <2>1 DEF ByteSeq, Bytes
<1> QED BY <1>2, <1>3, <1>4

Pids == {VIDEO_PID, AUDIO_PID}

LEMMA PidRead ==
  ASSUME NEW pid \in Pids
  PROVE  (PidBytes(pid)[1] * 256 + PidBytes(pid)[2]) % 8192 = pid /\ ByteSeq(PidBytes(pid))
BY DEF PidBytes, Pids, VIDEO_PID, AUDIO_PID, ByteSeq, Bytes

LEMMA EntryRead ==
  ASSUME NEW kind \in Kinds
  PROVE  LET e == EntryBytes(kind)
         IN  /\ DOMAIN e = 1..5 /\ ByteSeq(e) /\ e[1] = TypeOf(kind)
             /\ e[2] = PidBytes(PidOf(kind))[1] /\ e[3] = PidBytes(PidOf(kind))[2]
<1> DEFINE f(t, a, b) == << t >> \o << a, b >> \o << 240, 0 >>
<1>1. ASSUME NEW t, NEW a, NEW b
      PROVE  LET p == f(t, a, b)
             IN  DOMAIN p = 1..5 /\ p[1] = t /\ p[2] = a /\ p[3] = b /\ p[4] = 240 /\ p[5] = 0
  OBVIOUS
<1>2. PICK t, a, b : t = TypeOf(kind) /\ << a, b >> = PidBytes(PidOf(kind))
  BY DEF PidBytes
<1>3. EntryBytes(kind) = f(t, a, b)
  BY <1>2 DEF EntryBytes
<1> HIDE DEF f
<1>4. PidBytes(PidOf(kind))[1] = a /\ PidBytes(PidOf(kind))[2] = b
  BY <1>2
<1>5. t \in Bytes /\ a \in Bytes /\ b \in Bytes
  <2>1. t \in Bytes
    BY <1>2 DEF TypeOf, STREAM_TYPE_VIDEO_H264, STREAM_TYPE_AUDIO_AAC, Bytes
  <2>2. PidOf(kind) \in Pids
    BY DEF PidOf, Pids
  <2>3. ByteSeq(PidBytes(PidOf(kind)))
    BY <2>2, PidRead
  <2>4. 1 \in DOMAIN PidBytes(PidOf(kind)) /\ 2 \in DOMAIN PidBytes(PidOf(kind))
    BY DEF PidBytes
  <2> QED BY <1>4, <2>1, <2>3, <2>4 DEF ByteSeq
<1>6. ByteSeq(f(t, a, b))
  <2>1. \A i \in 1..5 : f(t, a, b)[i] \in {t, a, b, 240, 0}
    BY <1>1
  <2>2. {t, a, b, 240, 0} \subseteq Bytes
    BY <1>5 DEF Bytes
  <2> QED BY <1>1, <2>1, <2>2 DEF ByteSeq
<1> QED BY <1>1, <1>2, <1>3, <1>4, <1>6

-----------------------------------------------------------------------------
(* The edits.                                                              *)

(* A stream is added: the fixed fields and the entries in front stay, the  *)
(* new entry takes the place of the old CRC, and the new CRC follows it.   *)
LEMMA EntryAdded ==
  ASSUME NEW d, Payload(d), NEW n \in Nat, 18 <= n, n + 4 <= 184, NEW kind \in Kinds
  PROVE  LET e == WithCrcAt(Put(Put(d, 2, LengthBytes(n)), n - 5, EntryBytes(kind)), n, n)
         IN  /\ Payload(e) /\ LengthOf(e) = n /\ CrcHolds(e) /\ Accepts(e)
             /\ e[n - 4] = TypeOf(kind) /\ Pid(e, n - 4) = PidOf(kind)
             /\ \A i \in 1..(n - 5) : i \notin {3, 4} => e[i] = d[i]
<1> DEFINE a == Put(d, 2, LengthBytes(n))
           b == Put(a, n - 5, EntryBytes(kind))
           e == WithCrcAt(b, n, n)
<1>1. DOMAIN LengthBytes(n) = 1..2 /\ ByteSeq(LengthBytes(n))
  BY LengthRead DEF LengthBytes
<1>2. /\ Payload(a) /\ a[3] = LengthBytes(n)[1] /\ a[4] = LengthBytes(n)[2]
      /\ \A i \in Places : i # 3 /\ i # 4 => a[i] = d[i]
  <2>1. PICK at \in Nat : at = 2
    OBVIOUS
  <2>2. at + 1 \in Places /\ at + 2 \in Places
    BY <2>1, PlacesAre
  <2> DEFINE w == Put(d, at, LengthBytes(n))
  <2>3. HasTwo(w, d, at, LengthBytes(n))
    BY <1>1, PutTwo
  <2>4. at + 1 = 3 /\ at + 2 = 4 /\ a = w
    BY <2>1
  <2> HIDE DEF a, w
  <2> QED BY <2>2, <2>3, <2>4 DEF HasTwo
<1> HIDE DEF a
<1>3. /\ Payload(b)
      /\ \A i \in Places : b[i] = IF i \in (n - 4)..n THEN EntryBytes(kind)[i - (n - 5)] ELSE a[i]
  <2>1. /\ Payload(b)
        /\ \A i \in Places : b[i] = IF i \in ((n - 5) + 1)..((n - 5) + 5)
                                     THEN EntryBytes(kind)[i - (n - 5)] ELSE a[i]
    <3>1. PICK at \in Nat : at = n - 5
      OBVIOUS
    <3>2. PICK w : w = EntryBytes(kind)
      OBVIOUS
    <3>3. DOMAIN w = 1..5 /\ ByteSeq(w)
      BY <3>2, EntryRead
    <3>4. HasFive(Put(a, at, w), a, at, w)
      BY <1>2, <3>3, PutFive
    <3>5. b = Put(a, at, w)
      BY <3>1, <3>2
    <3> HIDE DEF b
    <3> QED BY <3>1, <3>2, <3>4, <3>5 DEF HasFive
  <2>2. (n - 5) + 1 = n - 4 /\ (n - 5) + 5 = n
    OBVIOUS
  <2> QED BY <2>1, <2>2
<1> HIDE DEF b
<1>4. LengthOf(b) = n
  <2>1. b[3] = LengthBytes(n)[1] /\ b[4] = LengthBytes(n)[2]
    BY <1>2, <1>3, PlacesAre
  <2>2. Word(b, 2) = b[3] * 256 + b[4]
    BY DEF Word
  <2> QED BY <2>1, <2>2, LengthRead DEF LengthOf
<1>5. /\ Payload(e) /\ LengthOf(e) = n /\ CrcHolds(e) /\ Accepts(e)
      /\ \A i \in 1..n : e[i] = b[i]
  BY <1>3, <1>4, CrcStored
<1> HIDE DEF e
<1>6. \A i \in 1..(n - 5) : i \notin {3, 4} => e[i] = d[i]
  BY <1>2, <1>3, <1>5, PlacesAre
<1>7. e[n - 4] = EntryBytes(kind)[1] /\ e[n - 3] = EntryBytes(kind)[2] /\ e[n - 2] = EntryBytes(kind)[3]
  <2>1. /\ n - 4 \in 1..n /\ n - 3 \in 1..n /\ n - 2 \in 1..n
        /\ n - 4 \in Places /\ n - 3 \in Places /\ n - 2 \in Places
        /\ n - 4 \in (n - 4)..n /\ n - 3 \in (n - 4)..n /\ n - 2 \in (n - 4)..n
        /\ (n - 4) - (n - 5) = 1 /\ (n - 3) - (n - 5) = 2 /\ (n - 2) - (n - 5) = 3
    BY PlacesAre
  <2>2. b[n - 4] = EntryBytes(kind)[1] /\ b[n - 3] = EntryBytes(kind)[2] /\ b[n - 2] = EntryBytes(kind)[3]
    BY <1>3, <2>1
  <2> QED BY <1>5, <2>1, <2>2
<1>8. Pid(e, n - 4) = PidOf(kind)
  <2>1. Pid(e, n - 4) = (e[n - 3] * 256 + e[n - 2]) % 8192
    <3>1. (n - 4) + 1 = n - 3 /\ (n - 4) + 2 = n - 2
      OBVIOUS
    <3> QED BY <3>1 DEF Pid, Word
  <2>2. PidOf(kind) \in Pids
    BY DEF PidOf, Pids
  <2> QED BY <1>7, <2>1, <2>2, EntryRead, PidRead
<1> QED BY <1>5, <1>6, <1>7, <1>8, EntryRead DEF a, b, e

(* The clock is set: nothing but its PID and the CRC change.               *)
LEMMA ClockSet ==
  ASSUME NEW d, Payload(d), NEW n \in Nat, 18 <= n, n + 4 <= 184, LengthOf(d) = n, NEW pid \in Pids
  PROVE  LET e == WithCrcAt(Put(d, 9, PidBytes(pid)), n, n)
         IN  /\ Payload(e) /\ LengthOf(e) = n /\ CrcHolds(e) /\ Accepts(e) /\ Pid(e, 9) = pid
             /\ \A i \in 1..n : i \notin {10, 11} => e[i] = d[i]
<1> DEFINE a == Put(d, 9, PidBytes(pid))
           e == WithCrcAt(a, n, n)
<1>1. DOMAIN PidBytes(pid) = 1..2 /\ ByteSeq(PidBytes(pid))
  BY PidRead DEF PidBytes
<1>2. /\ Payload(a) /\ a[10] = PidBytes(pid)[1] /\ a[11] = PidBytes(pid)[2]
      /\ \A i \in Places : i # 10 /\ i # 11 => a[i] = d[i]
  <2>1. PICK at \in Nat : at = 9
    OBVIOUS
  <2>2. at + 1 \in Places /\ at + 2 \in Places
    BY <2>1, PlacesAre
  <2> DEFINE w == Put(d, at, PidBytes(pid))
  <2>3. HasTwo(w, d, at, PidBytes(pid))
    BY <1>1, PutTwo
  <2>4. at + 1 = 10 /\ at + 2 = 11 /\ a = w
    BY <2>1
  <2> HIDE DEF a, w
  <2> QED BY <2>2, <2>3, <2>4 DEF HasTwo
<1> HIDE DEF a
<1>3. LengthOf(a) = n
  <2>1. a[3] = d[3] /\ a[4] = d[4]
    <3>1. \A i \in {3, 4} : i \in Places /\ i # 10 /\ i # 11
      BY PlacesAre
    <3> QED BY <1>2, <3>1
  <2>2. Word(a, 2) = Word(d, 2)
    <3>1. Word(a, 2) = a[3] * 256 + a[4] /\ Word(d, 2) = d[3] * 256 + d[4]
      BY DEF Word
    <3> QED BY <2>1, <3>1
  <2> QED BY <2>2 DEF LengthOf
<1>4. /\ Payload(e) /\ LengthOf(e) = n /\ CrcHolds(e) /\ Accepts(e)
      /\ \A i \in 1..n : e[i] = a[i]
  BY <1>2, <1>3, CrcStored
<1> HIDE DEF e
<1>5. \A i \in 1..n : i \notin {10, 11} => e[i] = d[i]
  BY <1>2, <1>4, PlacesAre
<1>6. Pid(e, 9) = pid
  <2>1. e[10] = PidBytes(pid)[1] /\ e[11] = PidBytes(pid)[2]
    BY <1>2, <1>4, PlacesAre
  <2>2. Pid(e, 9) = (e[10] * 256 + e[11]) % 8192
    BY DEF Pid, Word
  <2> QED BY <2>1, <2>2, PidRead
<1> QED BY <1>4, <1>5, <1>6 DEF a, e

-----------------------------------------------------------------------------
(* What is read, as a record of Psi.                                       *)

LEMMA StreamsAre ==
  ASSUME NEW d, NEW k \in Nat, LengthOf(d) = 13 + 5 * k
  PROVE  StreamsOf(d) = [i \in 1..k |-> [type |-> d[5 * i + 9], pid |-> Pid(d, 5 * i + 9)]]
<1>1. ((13 + 5 * k) - 13) \div 5 = k
  <2>1. (13 + 5 * k) - 13 = 5 * k
    OBVIOUS
  <2>2. \A x \in Nat : x = 5 * k => x \div 5 = k
    OBVIOUS
  <2> QED BY <2>1, <2>2
<1> QED BY <1>1 DEF StreamsOf

LEMMA StreamAppended ==
  ASSUME NEW d, NEW e, NEW k \in Nat, LengthOf(d) = 13 + 5 * k, LengthOf(e) = 13 + 5 * (k + 1),
         \A i \in 1..(13 + 5 * k) : i \notin {3, 4} => e[i] = d[i]
  PROVE  StreamsOf(e) =
           Append(StreamsOf(d), [type |-> e[5 * k + 14], pid |-> Pid(e, 5 * k + 14)])
<1> DEFINE f(x, i) == [type |-> x[5 * i + 9], pid |-> Pid(x, 5 * i + 9)]
           old == [i \in 1..k |-> f(d, i)]
           new == [i \in 1..(k + 1) |-> f(e, i)]
<1>1. StreamsOf(d) = old /\ StreamsOf(e) = new
  <2>1. StreamsOf(d) = old
    BY StreamsAre
  <2>2. PICK m \in Nat : m = k + 1
    OBVIOUS
  <2>3. LengthOf(e) = 13 + 5 * m
    BY <2>2
  <2>4. StreamsOf(e) = [i \in 1..m |-> f(e, i)]
    BY <2>3, StreamsAre
  <2> QED BY <2>1, <2>2, <2>4
<1>2. ASSUME NEW i \in 1..k PROVE f(e, i) = f(d, i)
  <2>1. \A j \in {5 * i + 9, 5 * i + 10, 5 * i + 11} : j \in 1..(13 + 5 * k) /\ j \notin {3, 4}
    OBVIOUS
  <2>2. e[5 * i + 9] = d[5 * i + 9] /\ e[5 * i + 10] = d[5 * i + 10] /\ e[5 * i + 11] = d[5 * i + 11]
    BY <2>1
  <2>3. (5 * i + 9) + 1 = 5 * i + 10 /\ (5 * i + 9) + 2 = 5 * i + 11
    OBVIOUS
  <2> QED BY <2>2, <2>3 DEF Pid, Word
<1>3. f(e, k + 1) = [type |-> e[5 * k + 14], pid |-> Pid(e, 5 * k + 14)]
  <2>1. 5 * (k + 1) + 9 = 5 * k + 14
    OBVIOUS
  <2> QED BY <2>1
<1> HIDE DEF f
<1>4. new = Append(old, f(e, k + 1))
  <2> DEFINE S == {f(d, i) : i \in 1..k} \cup {f(e, k + 1)}
  <2>1. old \in [1..k -> S] /\ f(e, k + 1) \in S
    OBVIOUS
  <2> HIDE DEF S, old
  <2>2. old \in Seq(S) /\ Len(old) = k
    <3>1. old \in Seq(S) /\ DOMAIN old = 1..k
      BY <2>1, SeqDef
    <3>2. Len(old) \in Nat /\ DOMAIN old = 1..Len(old)
      BY <3>1, LenProperties
    <3> QED BY <3>1, <3>2
  <2> DEFINE a == Append(old, f(e, k + 1))
  <2>3. /\ a \in Seq(S) /\ Len(a) = k + 1
        /\ \A i \in 1..k : a[i] = old[i]
        /\ a[k + 1] = f(e, k + 1)
    BY <2>1, <2>2, AppendProperties
  <2> HIDE DEF a
  <2>4. a = [i \in 1..(k + 1) |-> a[i]]
    BY <2>3, LenProperties
  <2>5. \A i \in 1..(k + 1) : a[i] = f(e, i)
    <3>1. \A i \in 1..k : a[i] = f(e, i)
      BY <1>2, <2>3 DEF old
    <3> QED BY <2>3, <3>1
  <2> QED BY <2>4, <2>5 DEF a
<1> QED BY <1>1, <1>3, <1>4

Pmt(n, header, pcr, streams, v, a, crc) ==
  [section_length |-> n, header |-> header, PCR_PID |-> pcr, streams |-> streams,
   video_pid |-> v, audio_pid |-> a, crc |-> crc]
CrcOf(n, header, pcr, streams) ==
  [header |-> header, covered |-> n - 1, pcr |-> pcr, streams |-> streams]

LEMMA PmtWithCrc ==
  ASSUME NEW n, NEW h, NEW p, NEW s, NEW v, NEW a, NEW c
  PROVE  WithCrc(Pmt(n, h, p, s, v, a, c)) = Pmt(n, h, p, s, v, a, CrcOf(n, h, p, s))
BY DEF WithCrc, SectionBytes, Pmt, CrcOf

LEMMA DecodedIs ==
  ASSUME NEW d, NEW info
  PROVE  DecodedPmt(d, info) =
           Pmt(info.section_length, HeaderOf(d), Pid(d, 9), StreamsOf(d),
               info.video_pid, info.audio_pid,
               IF CrcHolds(d) THEN CrcOf(info.section_length, HeaderOf(d), Pid(d, 9), StreamsOf(d))
                              ELSE NoCrc)
<1> DEFINE m == Pmt(info.section_length, HeaderOf(d), Pid(d, 9), StreamsOf(d),
                    info.video_pid, info.audio_pid, NoCrc)
<1>1. DecodedPmt(d, info) = IF CrcHolds(d) THEN WithCrc(m) ELSE m
  BY DEF DecodedPmt, Pmt
<1>2. WithCrc(m) = Pmt(info.section_length, HeaderOf(d), Pid(d, 9), StreamsOf(d),
                       info.video_pid, info.audio_pid,
                       CrcOf(info.section_length, HeaderOf(d), Pid(d, 9), StreamsOf(d)))
  BY PmtWithCrc
<1> QED BY <1>1, <1>2

LEMMA PsiAddsStream ==
  ASSUME NEW n, NEW t, NEW l, NEW id, NEW p, NEW s, NEW v, NEW a, NEW c, NEW kind \in Kinds
  PROVE  pmt_section_stream_add(Pmt(n, section_header_set(t, l, id), p, s, v, a, c),
                                TypeOf(kind), PidOf(kind)) =
           LET h == section_header_set(t, n + 5, id)
               r == Append(s, [type |-> TypeOf(kind), pid |-> PidOf(kind)])
           IN  Pmt(n + 5, h, p, r,
                   IF kind = "video" THEN PidOf(kind) ELSE v,
                   IF kind = "video" THEN a ELSE PidOf(kind), CrcOf(n + 5, h, p, r))
<1> DEFINE old == Pmt(n, section_header_set(t, l, id), p, s, v, a, c)
           h == section_header_set(t, n + 5, id)
           r == Append(s, [type |-> TypeOf(kind), pid |-> PidOf(kind)])
           added == [old EXCEPT !.section_length = @ + 5,
                                !.header.section_length = old.section_length + 5,
                                !.streams = Append(@, [type |-> TypeOf(kind), pid |-> PidOf(kind)])]
<1>1. added = Pmt(n + 5, h, p, r, v, a, c)
  <2>1. [section_header_set(t, l, id) EXCEPT !.section_length = n + 5] = h
    BY DEF section_header_set
  <2>2. added = [old EXCEPT !.section_length = n + 5,
                            !.header = [section_header_set(t, l, id) EXCEPT !.section_length = n + 5],
                            !.streams = r]
    BY DEF Pmt
  <2> HIDE DEF added, h, r
  <2> QED BY <2>1, <2>2 DEF Pmt
<1>2. TypeOf(kind) = STREAM_TYPE_VIDEO_H264 <=> kind = "video"
  BY DEF TypeOf, STREAM_TYPE_VIDEO_H264, STREAM_TYPE_AUDIO_AAC
<1>3. pmt_section_stream_add(old, TypeOf(kind), PidOf(kind)) =
        WithCrc(IF kind = "video" THEN [added EXCEPT !.video_pid = PidOf(kind)]
                                  ELSE [added EXCEPT !.audio_pid = PidOf(kind)])
  BY <1>2 DEF pmt_section_stream_add
<1> HIDE DEF added, old, h, r
<1>4. CASE kind = "video"
  <2>1. [added EXCEPT !.video_pid = PidOf(kind)] = Pmt(n + 5, h, p, r, PidOf(kind), a, c)
    BY <1>1 DEF Pmt
  <2> QED BY <1>3, <1>4, <2>1, PmtWithCrc DEF old, h, r
<1>5. CASE kind # "video"
  <2>1. [added EXCEPT !.audio_pid = PidOf(kind)] = Pmt(n + 5, h, p, r, v, PidOf(kind), c)
    BY <1>1 DEF Pmt
  <2> QED BY <1>3, <1>5, <2>1, PmtWithCrc DEF old, h, r
<1> QED BY <1>4, <1>5

LEMMA PsiSetsClock ==
  ASSUME NEW n, NEW h, NEW p, NEW s, NEW v, NEW a, NEW c, NEW pid
  PROVE  pmt_section_pcr_pid_set(Pmt(n, h, p, s, v, a, c), pid) =
           Pmt(n, h, pid, s, v, a, CrcOf(n, h, pid, s))
<1>1. [Pmt(n, h, p, s, v, a, c) EXCEPT !.PCR_PID = pid] = Pmt(n, h, pid, s, v, a, c)
  BY DEF Pmt
<1> QED BY <1>1, PmtWithCrc DEF pmt_section_pcr_pid_set

-----------------------------------------------------------------------------
(* The sections as they are first written.                                 *)

Fixed(table, id, x1, x2, y1, y2) ==
  HeaderBytes(table, 13, id) \o << x1, x2 >> \o << y1, y2 >>

Shown(bytes, d, table, id, x1, x2, y1, y2) ==
  /\ DOMAIN bytes = 1..13 /\ Len(bytes) = 13 /\ bytes = [i \in 1..13 |-> bytes[i]]
  /\ Payload(d) /\ LengthOf(d) = 13
  /\ d[2] = table /\ Word(d, 4) = id
  /\ d[10] = x1 /\ d[11] = x2 /\ d[12] = y1 /\ d[13] = y2
  /\ \A i \in 1..13 : d[i] = bytes[i]

Thirteen(bytes, table, id, n1, n2, i1, i2, x1, x2, y1, y2) ==
  /\ LengthBytes(13) = << n1, n2 >> /\ TwoBytes(id) = << i1, i2 >>
  /\ DOMAIN bytes = 1..13 /\ Len(bytes) = 13 /\ bytes = [i \in 1..13 |-> bytes[i]]
  /\ bytes[2] = table /\ bytes[3] = n1 /\ bytes[4] = n2 /\ bytes[5] = i1 /\ bytes[6] = i2
  /\ bytes[10] = x1 /\ bytes[11] = x2 /\ bytes[12] = y1 /\ bytes[13] = y2
  /\ bytes[1] = 0 /\ bytes[7] = 193 /\ bytes[8] = 0 /\ bytes[9] = 0

LEMMA FixedIs ==
  ASSUME NEW id, NEW table, NEW x1, NEW x2, NEW y1, NEW y2
  PROVE  \E n1, n2, i1, i2 :
           Thirteen(Fixed(table, id, x1, x2, y1, y2), table, id, n1, n2, i1, i2, x1, x2, y1, y2)
<1> DEFINE f(n1, n2, i1, i2) ==
             (<< 0, table >> \o << n1, n2 >> \o << i1, i2 >> \o << 193, 0, 0 >>)
               \o << x1, x2 >> \o << y1, y2 >>
<1>1. ASSUME NEW n1, NEW n2, NEW i1, NEW i2
      PROVE  LET p == f(n1, n2, i1, i2)
             IN  /\ DOMAIN p = 1..13 /\ Len(p) = 13 /\ p = [i \in 1..13 |-> p[i]]
                 /\ p[2] = table /\ p[3] = n1 /\ p[4] = n2 /\ p[5] = i1 /\ p[6] = i2
                 /\ p[10] = x1 /\ p[11] = x2 /\ p[12] = y1 /\ p[13] = y2
                 /\ p[1] = 0 /\ p[7] = 193 /\ p[8] = 0 /\ p[9] = 0
  OBVIOUS
<1>2. PICK n1, n2, i1, i2 : LengthBytes(13) = << n1, n2 >> /\ TwoBytes(id) = << i1, i2 >>
  BY DEF LengthBytes, TwoBytes
<1>3. Fixed(table, id, x1, x2, y1, y2) = f(n1, n2, i1, i2)
  BY <1>2 DEF HeaderBytes, Fixed
<1> HIDE DEF f
<1>4. Thirteen(Fixed(table, id, x1, x2, y1, y2), table, id, n1, n2, i1, i2, x1, x2, y1, y2)
  BY <1>1, <1>2, <1>3 DEF Thirteen
<1> QED BY <1>4

LEMMA Header ==
  ASSUME NEW id \in Nat, id <= 65535, NEW table \in Bytes, NEW x1 \in Bytes, NEW x2 \in Bytes,
         NEW y1 \in Bytes, NEW y2 \in Bytes
  PROVE  Shown(Fixed(table, id, x1, x2, y1, y2), Put(Blank, 0, Fixed(table, id, x1, x2, y1, y2)),
               table, id, x1, x2, y1, y2)
<1> DEFINE bytes == Fixed(table, id, x1, x2, y1, y2)
           d == Put(Blank, 0, bytes)
<1>1. PICK n1, n2, i1, i2 : Thirteen(bytes, table, id, n1, n2, i1, i2, x1, x2, y1, y2)
  BY FixedIs
<1> HIDE DEF bytes
<1>2. LengthBytes(13) = << n1, n2 >> /\ TwoBytes(id) = << i1, i2 >>
  BY <1>1 DEF Thirteen
<1>5. /\ DOMAIN bytes = 1..13 /\ Len(bytes) = 13 /\ bytes = [i \in 1..13 |-> bytes[i]]
      /\ bytes[2] = table /\ bytes[3] = n1 /\ bytes[4] = n2 /\ bytes[5] = i1 /\ bytes[6] = i2
      /\ bytes[10] = x1 /\ bytes[11] = x2 /\ bytes[12] = y1 /\ bytes[13] = y2
      /\ bytes[1] = 0 /\ bytes[7] = 193 /\ bytes[8] = 0 /\ bytes[9] = 0
  BY <1>1 DEF Thirteen
<1>51. ByteSeq(bytes)
  <2>1. n1 \in Bytes /\ n2 \in Bytes
    BY <1>2 DEF LengthBytes, Bytes
  <2>2. i1 \in Bytes /\ i2 \in Bytes
    <3>1. id \div 256 \in Nat /\ id \div 256 <= 255 /\ id % 256 \in Nat /\ id % 256 <= 255
      OBVIOUS
    <3> QED BY <1>2, <3>1 DEF TwoBytes, Bytes
  <2>3. 0 \in Bytes /\ 193 \in Bytes
    BY DEF Bytes
  <2>4. ASSUME NEW i \in 1..13 PROVE bytes[i] \in Bytes
    <3>1. \/ i = 1 \/ i = 2 \/ i = 3 \/ i = 4 \/ i = 5 \/ i = 6 \/ i = 7
          \/ i = 8 \/ i = 9 \/ i = 10 \/ i = 11 \/ i = 12 \/ i = 13
      OBVIOUS
    <3> QED BY <1>5, <2>1, <2>2, <2>3, <3>1
  <2> QED BY <1>5, <2>4 DEF ByteSeq
<1>6. Payload(Blank)
  BY DEF Payload, Blank, Places, Bytes
<1>7. Payload(d) /\ \A i \in 1..13 : d[i] = bytes[i]
  <2>1. /\ Payload(d)
        /\ \A i \in Places : d[i] = IF i - 0 \in DOMAIN bytes THEN bytes[i - 0] ELSE Blank[i]
    BY <1>51, <1>6, PutPlaces
  <2>2. \A i \in 1..13 : i \in Places /\ i - 0 = i
    BY PlacesAre
  <2> QED BY <1>5, <2>1, <2>2
<1> HIDE DEF d
<1>8. /\ d[2] = table /\ d[3] = n1 /\ d[4] = n2 /\ d[5] = i1 /\ d[6] = i2
      /\ d[10] = x1 /\ d[11] = x2 /\ d[12] = y1 /\ d[13] = y2
  BY <1>5, <1>7
<1>9. LengthOf(d) = 13
  <2>1. (n1 * 256 + n2) % 4096 = 13
    BY <1>2, LengthRead
  <2> QED BY <1>8, <2>1 DEF LengthOf, Word
<1>10. Word(d, 4) = id
  <2>1. i1 = id \div 256 /\ i2 = id % 256
    BY <1>2 DEF TwoBytes
  <2>2. (id \div 256) * 256 + (id % 256) = id
    OBVIOUS
  <2> QED BY <1>8, <2>1, <2>2 DEF Word
<1>11. Shown(bytes, d, table, id, x1, x2, y1, y2)
  BY <1>5, <1>7, <1>8, <1>9, <1>10 DEF Shown
<1> QED BY ONLY <1>11 DEF d, bytes

LEMMA EmptyPmtRead ==
  /\ Payload(EmptyPmt) /\ LengthOf(EmptyPmt) = 13 /\ ~CrcHolds(EmptyPmt)
  /\ HeaderOf(EmptyPmt) = section_header_set(2, 13, PROGRAM_NUMBER)
  /\ Pid(EmptyPmt, 9) = 0 /\ StreamsOf(EmptyPmt) = << >>
<1> DEFINE d == Put(Blank, 0, Fixed(2, PROGRAM_NUMBER, 224, 0, 240, 0))
<1>1. EmptyPmt = d
  <2>1. PidBytes(0) = << 224, 0 >>
    BY DEF PidBytes
  <2> QED BY <2>1 DEF EmptyPmt, Fixed
<1>2. /\ PROGRAM_NUMBER \in Nat /\ PROGRAM_NUMBER <= 65535
      /\ 2 \in Bytes /\ 224 \in Bytes /\ 0 \in Bytes /\ 240 \in Bytes
  BY DEF PROGRAM_NUMBER, Bytes
<1>3. /\ Payload(d) /\ LengthOf(d) = 13 /\ d[2] = 2 /\ Word(d, 4) = PROGRAM_NUMBER
      /\ d[10] = 224 /\ d[11] = 0
  <2>1. Shown(Fixed(2, PROGRAM_NUMBER, 224, 0, 240, 0), d, 2, PROGRAM_NUMBER, 224, 0, 240, 0)
    <3>1. PICK t \in Bytes, v \in Bytes, w \in Bytes, z \in Bytes :
            t = 2 /\ v = 224 /\ w = 0 /\ z = 240
      BY <1>2
    <3>2. Shown(Fixed(t, PROGRAM_NUMBER, v, w, z, w), Put(Blank, 0, Fixed(t, PROGRAM_NUMBER, v, w, z, w)),
                t, PROGRAM_NUMBER, v, w, z, w)
      BY <1>2, Header
    <3> QED BY <3>1, <3>2
  <2> HIDE DEF d
  <2> QED BY <2>1 DEF Shown
<1> HIDE DEF d
<1>4. HeaderOf(d) = section_header_set(2, 13, PROGRAM_NUMBER)
  BY <1>3 DEF HeaderOf
<1>5. Pid(d, 9) = 0
  <2>1. Pid(d, 9) = (d[10] * 256 + d[11]) % 8192
    BY DEF Pid, Word
  <2>2. (224 * 256 + 0) % 8192 = 0
    OBVIOUS
  <2> QED BY <1>3, <2>1, <2>2
<1>6. StreamsOf(d) = << >>
  <2>1. PICK k \in Nat : k = 0
    OBVIOUS
  <2>2. LengthOf(d) = 13 + 5 * k
    BY <1>3, <2>1
  <2>3. StreamsOf(d) = [i \in 1..k |-> [type |-> d[5 * i + 9], pid |-> Pid(d, 5 * i + 9)]]
    BY <2>2, StreamsAre
  <2>4. 1..k = {}
    BY <2>1
  <2> QED BY <2>3, <2>4
<1> QED BY <1>1, <1>3, <1>4, <1>5, <1>6, SectionBytesAssumption

LEMMA PatRead ==
  /\ DecodedPat = pat_section_set(PROGRAM_NUMBER, PMT_PID)
  /\ Accepts(PatBytes(PROGRAM_NUMBER, PMT_PID))
<1> DEFINE bytes == HeaderBytes(0, 13, 1) \o TwoBytes(PROGRAM_NUMBER) \o PidBytes(PMT_PID)
           d == Put(Blank, 0, bytes)
           e == PatBytes(PROGRAM_NUMBER, PMT_PID)
<1>1. PICK x1 \in Bytes, x2 \in Bytes, y1 \in Bytes, y2 \in Bytes :
        TwoBytes(PROGRAM_NUMBER) = << x1, x2 >> /\ PidBytes(PMT_PID) = << y1, y2 >>
  BY DEF TwoBytes, PidBytes, PROGRAM_NUMBER, PMT_PID, Bytes
<1>2. bytes = HeaderBytes(0, 13, 1) \o << x1, x2 >> \o << y1, y2 >>
  BY <1>1
<1>3. e = Put(d, 13, FourBytes[calc_crc32(Tail(bytes))])
  BY DEF PatBytes
<1> HIDE DEF bytes, e
<1>4. /\ DOMAIN bytes = 1..13 /\ Len(bytes) = 13 /\ bytes = [i \in 1..13 |-> bytes[i]]
      /\ Payload(d) /\ LengthOf(d) = 13
      /\ d[2] = 0 /\ Word(d, 4) = 1
      /\ d[10] = x1 /\ d[11] = x2 /\ d[12] = y1 /\ d[13] = y2
      /\ \A i \in 1..13 : d[i] = bytes[i]
  <2>1. bytes = Fixed(0, 1, x1, x2, y1, y2)
    BY <1>2 DEF Fixed
  <2>2. Shown(Fixed(0, 1, x1, x2, y1, y2), Put(Blank, 0, Fixed(0, 1, x1, x2, y1, y2)),
              0, 1, x1, x2, y1, y2)
    <3>1. PICK t \in Bytes, id \in Nat : t = 0 /\ id = 1
      BY DEF Bytes
    <3>2. Shown(Fixed(t, id, x1, x2, y1, y2), Put(Blank, 0, Fixed(t, id, x1, x2, y1, y2)),
                t, id, x1, x2, y1, y2)
      <4>1. id <= 65535
        BY <3>1
      <4> QED BY <4>1, Header
    <3> QED BY <3>1, <3>2
  <2>3. Shown(bytes, d, 0, 1, x1, x2, y1, y2)
    BY <2>1, <2>2
  <2> HIDE DEF d
  <2> QED BY <2>3 DEF Shown
<1> HIDE DEF d
<1>5. Tail(bytes) = SubSeq(d, 2, 13)
  <2>1. Tail(bytes) = SubSeq(bytes, 2, 13)
    <3> DEFINE S == {bytes[i] : i \in 1..13}
    <3>1. bytes \in [1..13 -> S]
      BY <1>4
    <3> HIDE DEF S
    <3>2. bytes \in Seq(S)
      BY <3>1, SeqDef
    <3>3. bytes # << >>
      BY <1>4
    <3> QED BY <1>4, <3>2, <3>3, TailIsSubSeq
  <2>2. /\ SubSeq(bytes, 2, 13) = [i \in 1..(13 - 2 + 1) |-> bytes[2 + i - 1]]
        /\ SubSeq(d, 2, 13) = [i \in 1..(13 - 2 + 1) |-> d[2 + i - 1]]
    BY Part
  <2>3. \A i \in 1..(13 - 2 + 1) : d[2 + i - 1] = bytes[2 + i - 1]
    BY <1>4
  <2> QED BY <2>1, <2>2, <2>3
<1>6. e = WithCrcAt(d, 13, 13)
  BY <1>3, <1>5 DEF WithCrcAt
<1>7. /\ Payload(e) /\ LengthOf(e) = 13 /\ CrcHolds(e) /\ Accepts(e)
      /\ \A i \in 1..13 : e[i] = d[i]
  BY <1>4, <1>6, CrcStored
<1>8. HeaderOf(e) = section_header_set(0, 13, 1)
  <2>1. e[2] = 0 /\ e[5] = d[5] /\ e[6] = d[6]
    BY <1>4, <1>7
  <2>2. Word(e, 4) = 1
    BY <1>4, <2>1 DEF Word
  <2> QED BY <1>7, <2>1, <2>2 DEF HeaderOf
<1>9. Word(e, 9) = PROGRAM_NUMBER
  <2>1. Word(e, 9) = x1 * 256 + x2
    BY <1>4, <1>7 DEF Word
  <2> QED BY <1>1, <2>1 DEF TwoBytes, PROGRAM_NUMBER
<1>10. Pid(e, 11) = PMT_PID
  <2>1. Pid(e, 11) = (y1 * 256 + y2) % 8192
    BY <1>4, <1>7 DEF Pid, Word
  <2> QED BY <1>1, <2>1 DEF PidBytes, PMT_PID
<1>11. Covers(section_header_set(0, 13, 1)) = 12
  BY DEF Covers, section_header_set
<1> QED BY <1>7, <1>8, <1>9, <1>10, <1>11 DEF DecodedPat, pat_section_set, e

-----------------------------------------------------------------------------
(* The steps.                                                              *)

PmtInv ==
  /\ Payload(data)
  /\ \E k \in 0..MaxStreams : section_info.section_length = 13 + 5 * k
  /\ LengthOf(data) = section_info.section_length
  /\ section_info = [section_length |-> section_info.section_length,
                     video_pid |-> section_info.video_pid, audio_pid |-> section_info.audio_pid]
  /\ section_info.video_pid \in {0, VIDEO_PID} /\ section_info.audio_pid \in {0, AUDIO_PID}
  /\ section_info.section_length > 13 =>
       /\ section_info.video_pid # 0 \/ section_info.audio_pid # 0
       /\ Accepts(data)

(* The packet has room for the CRC behind the last entry.                  *)
RoomInPacket == 13 + 5 * MaxStreams + 4 <= TSPACKET_PAYLOAD_LENGTH

LEMMA InitRead == Init => PmtInv /\ Decoded = pmt_section_init(PROGRAM_NUMBER)
<1> SUFFICES ASSUME Init PROVE PmtInv /\ Decoded = pmt_section_init(PROGRAM_NUMBER)
  OBVIOUS
<1>1. PmtInv
  <2>1. 0 \in 0..MaxStreams /\ 13 = 13 + 5 * 0
    BY SectionBytesAssumption
  <2> QED BY <2>1, EmptyPmtRead DEF Init, PmtInv
<1>2. Decoded = pmt_section_init(PROGRAM_NUMBER)
  <2>1. Decoded = Pmt(13, section_header_set(2, 13, PROGRAM_NUMBER), 0, << >>, 0, 0, NoCrc)
    BY EmptyPmtRead, DecodedIs DEF Init, Decoded
  <2> QED BY <2>1 DEF Pmt, pmt_section_init
<1> QED BY <1>1, <1>2

LEMMA StreamAddRead ==
  ASSUME RoomInPacket, PmtInv, NEW kind \in Kinds, StreamAdd(kind)
  PROVE  PmtInv' /\ Decoded' = pmt_section_stream_add(Decoded, TypeOf(kind), PidOf(kind))
<1> DEFINE n == section_info.section_length + 5
           e == WithCrcAt(Put(Put(data, 2, LengthBytes(n)), n - 5, EntryBytes(kind)), n, n)
<1>1. PICK k \in Nat : section_info.section_length = 13 + 5 * k
  BY SectionBytesAssumption DEF PmtInv
<1>2. /\ n = 13 + 5 * (k + 1) /\ n <= 13 + 5 * MaxStreams /\ MaxStreams \in Nat
      /\ n \in Nat /\ 18 <= n /\ n + 4 <= 184
  BY <1>1, SectionBytesAssumption, PlacesAre DEF StreamAdd, RoomInPacket
<1>3. /\ data' = e
      /\ section_info' =
           IF kind = "video"
           THEN [section_info EXCEPT !.section_length = n, !.video_pid = PidOf(kind)]
           ELSE [section_info EXCEPT !.section_length = n, !.audio_pid = PidOf(kind)]
  BY DEF StreamAdd
<1>4. /\ section_info'.section_length = n
      /\ section_info'.video_pid = IF kind = "video" THEN PidOf(kind) ELSE section_info.video_pid
      /\ section_info'.audio_pid = IF kind = "video" THEN section_info.audio_pid ELSE PidOf(kind)
      /\ section_info' = [section_length |-> section_info'.section_length,
                          video_pid |-> section_info'.video_pid, audio_pid |-> section_info'.audio_pid]
  <2> HIDE DEF n, e
  <2> QED BY <1>3 DEF PmtInv
<1>5. Payload(data) /\ LengthOf(data) = 13 + 5 * k
  BY <1>1 DEF PmtInv
<1> HIDE DEF n
<1>6. /\ Payload(e) /\ LengthOf(e) = n /\ CrcHolds(e) /\ Accepts(e)
      /\ e[n - 4] = TypeOf(kind) /\ Pid(e, n - 4) = PidOf(kind)
      /\ \A i \in 1..(n - 5) : i \notin {3, 4} => e[i] = data[i]
  BY <1>2, <1>5, EntryAdded
<1> HIDE DEF e
<1>7. n - 4 = 5 * k + 14 /\ n - 5 = 13 + 5 * k
  BY <1>2
<1>8. StreamsOf(e) = Append(StreamsOf(data), [type |-> TypeOf(kind), pid |-> PidOf(kind)])
  <2>1. LengthOf(data) = 13 + 5 * k /\ LengthOf(e) = 13 + 5 * (k + 1)
    BY <1>2, <1>5, <1>6
  <2>2. \A i \in 1..(13 + 5 * k) : i \notin {3, 4} => e[i] = data[i]
    BY <1>6, <1>7
  <2>3. StreamsOf(e) =
          Append(StreamsOf(data), [type |-> e[5 * k + 14], pid |-> Pid(e, 5 * k + 14)])
    BY <2>1, <2>2, StreamAppended
  <2>4. e[5 * k + 14] = TypeOf(kind) /\ Pid(e, 5 * k + 14) = PidOf(kind)
    BY <1>6, <1>7
  <2> QED BY <2>3, <2>4
<1>9. e[2] = data[2] /\ Word(e, 4) = Word(data, 4) /\ Pid(e, 9) = Pid(data, 9)
  <2>1. \A i \in {2, 5, 6, 10, 11} : e[i] = data[i]
    BY <1>2, <1>6
  <2> QED BY <2>1 DEF Pid, Word
<1>10. PmtInv'
  <2>1. \E j \in 0..MaxStreams : n = 13 + 5 * j
    <3>1. k + 1 \in 0..MaxStreams
      BY <1>2
    <3> QED BY <1>2, <3>1
  <2>2. /\ section_info'.video_pid \in {0, VIDEO_PID} /\ section_info'.audio_pid \in {0, AUDIO_PID}
        /\ section_info'.video_pid # 0 \/ section_info'.audio_pid # 0
    BY <1>4 DEF PmtInv, PidOf, VIDEO_PID, AUDIO_PID
  <2> QED BY <1>3, <1>4, <1>6, <2>1, <2>2 DEF PmtInv
<1>11. Decoded' = pmt_section_stream_add(Decoded, TypeOf(kind), PidOf(kind))
  <2> DEFINE l == LengthOf(data)
             p == Pid(data, 9)
             s == StreamsOf(data)
             v == section_info.video_pid
             a == section_info.audio_pid
             c == IF CrcHolds(data)
                  THEN CrcOf(section_info.section_length, HeaderOf(data), p, s) ELSE NoCrc
             h == section_header_set(data[2], n, Word(data, 4))
             r == Append(s, [type |-> TypeOf(kind), pid |-> PidOf(kind)])
  <2>1. Decoded = Pmt(section_info.section_length, section_header_set(data[2], l, Word(data, 4)),
                      p, s, v, a, c)
    <3>1. HeaderOf(data) = section_header_set(data[2], l, Word(data, 4))
      BY DEF HeaderOf
    <3>2. Decoded = Pmt(section_info.section_length, HeaderOf(data), p, s, v, a, c)
      BY DecodedIs DEF Decoded
    <3> QED BY <3>1, <3>2
  <2>2. HeaderOf(e) = h
    BY <1>6, <1>9 DEF HeaderOf
  <2>3. Decoded' = Pmt(n, h, p, r, IF kind = "video" THEN PidOf(kind) ELSE v,
                       IF kind = "video" THEN a ELSE PidOf(kind), CrcOf(n, h, p, r))
    <3>1. Decoded' = DecodedPmt(e, section_info')
      BY <1>3 DEF Decoded
    <3>2. DecodedPmt(e, section_info') =
            Pmt(section_info'.section_length, HeaderOf(e), Pid(e, 9), StreamsOf(e),
                section_info'.video_pid, section_info'.audio_pid,
                CrcOf(section_info'.section_length, HeaderOf(e), Pid(e, 9), StreamsOf(e)))
      BY <1>6, DecodedIs
    <3> HIDE DEF h
    <3> QED BY <1>4, <1>8, <1>9, <2>2, <3>1, <3>2
  <2> HIDE DEF l, p, s, v, a, c
  <2>4. pmt_section_stream_add(Decoded, TypeOf(kind), PidOf(kind)) =
          Pmt(n, h, p, r, IF kind = "video" THEN PidOf(kind) ELSE v,
              IF kind = "video" THEN a ELSE PidOf(kind), CrcOf(n, h, p, r))
    <3>1. n = section_info.section_length + 5
      BY DEF n
    <3> QED BY <2>1, <3>1, PsiAddsStream
  <2> QED BY <2>3, <2>4
<1> QED BY <1>10, <1>11

LEMMA PcrPidSetRead ==
  ASSUME RoomInPacket, PmtInv, PcrPidSet
  PROVE  PmtInv' /\ \E pid \in Pids : Decoded' = pmt_section_pcr_pid_set(Decoded, pid)
<1> DEFINE n == section_info.section_length
           pid == IF section_info.video_pid # 0 THEN section_info.video_pid ELSE section_info.audio_pid
           e == WithCrcAt(Put(data, 9, PidBytes(pid)), n, n)
<1>1. PICK k \in 0..MaxStreams : n = 13 + 5 * k
  BY DEF PmtInv
<1>2. n > 13 /\ data' = e /\ UNCHANGED section_info
  BY DEF PcrPidSet, CrcPlace
<1>3. k \in Nat /\ k <= MaxStreams /\ MaxStreams \in Nat /\ n \in Nat /\ 18 <= n /\ n + 4 <= 184
  BY <1>1, <1>2, SectionBytesAssumption, PlacesAre DEF RoomInPacket
<1>4. pid \in Pids
  BY <1>2 DEF PmtInv, Pids
<1>5. Payload(data) /\ LengthOf(data) = n
  BY DEF PmtInv
<1> HIDE DEF n, pid
<1>6. /\ Payload(e) /\ LengthOf(e) = n /\ CrcHolds(e) /\ Accepts(e) /\ Pid(e, 9) = pid
      /\ \A i \in 1..n : i \notin {10, 11} => e[i] = data[i]
  BY <1>3, <1>4, <1>5, ClockSet
<1> HIDE DEF e
<1>7. PmtInv'
  BY <1>2, <1>6 DEF PmtInv, n
<1>8. HeaderOf(e) = HeaderOf(data)
  <2>1. \A i \in {2, 5, 6} : e[i] = data[i]
    BY <1>3, <1>6
  <2> QED BY <1>5, <1>6, <2>1 DEF HeaderOf, Word
<1>9. StreamsOf(e) = StreamsOf(data)
  <2> DEFINE f(x, i) == [type |-> x[5 * i + 9], pid |-> Pid(x, 5 * i + 9)]
  <2>1. ASSUME NEW i \in 1..k PROVE f(e, i) = f(data, i)
    <3>1. \A j \in {5 * i + 9, 5 * i + 10, 5 * i + 11} : j \in 1..n /\ j \notin {10, 11}
      BY <1>1, <1>3
    <3>2. \A j \in {5 * i + 9, 5 * i + 10, 5 * i + 11} : e[j] = data[j]
      BY <1>6, <3>1
    <3>3. (5 * i + 9) + 1 = 5 * i + 10 /\ (5 * i + 9) + 2 = 5 * i + 11
      BY <1>3
    <3> QED BY <3>2, <3>3 DEF Pid, Word
  <2>2. StreamsOf(e) = [i \in 1..k |-> f(e, i)] /\ StreamsOf(data) = [i \in 1..k |-> f(data, i)]
    BY <1>1, <1>3, <1>5, <1>6, StreamsAre
  <2> HIDE DEF f
  <2> QED BY <2>1, <2>2
<1>10. Decoded' = pmt_section_pcr_pid_set(Decoded, pid)
  <2> DEFINE h == HeaderOf(data)
             s == StreamsOf(data)
             v == section_info.video_pid
             a == section_info.audio_pid
  <2>1. PICK c : Decoded = Pmt(n, h, Pid(data, 9), s, v, a, c)
    BY DecodedIs DEF Decoded, n
  <2>2. Decoded' = Pmt(n, h, pid, s, v, a, CrcOf(n, h, pid, s))
    <3>1. Decoded' = DecodedPmt(e, section_info)
      BY <1>2 DEF Decoded
    <3>2. DecodedPmt(e, section_info) =
            Pmt(n, HeaderOf(e), Pid(e, 9), StreamsOf(e), v, a,
                CrcOf(n, HeaderOf(e), Pid(e, 9), StreamsOf(e)))
      BY <1>6, DecodedIs DEF n
    <3> QED BY <1>6, <1>8, <1>9, <3>1, <3>2
  <2> HIDE DEF h, s, v, a
  <2> QED BY <2>1, <2>2, PsiSetsClock
<1> QED BY <1>4, <1>7, <1>10

(* ImplementsPsi: what a receiver reads in the bytes of psi.c is what the  *)
(* operators of Psi say, for any order of calls, up to the 33 streams for  *)
(* which the packet has room (psi.c:92-234).                               *)
THEOREM BytesImplementPsi ==
  ASSUME RoomInPacket PROVE Spec => ImplementsPsi
<1> DEFINE Step ==
             LET old == Decoded
                 new == Decoded'
             IN  \/ \E kind \in Kinds : new = pmt_section_stream_add(old, TypeOf(kind), PidOf(kind))
                 \/ \E pid \in {VIDEO_PID, AUDIO_PID} : new = pmt_section_pcr_pid_set(old, pid)
<1>1. Init => PmtInv /\ Decoded = pmt_section_init(PROGRAM_NUMBER)
  BY InitRead
<1>2. PmtInv /\ [Next]_vars => PmtInv' /\ [Step]_vars
  <2> SUFFICES ASSUME PmtInv, [Next]_vars PROVE PmtInv' /\ [Step]_vars
    OBVIOUS
  <2>1. ASSUME NEW kind \in Kinds, StreamAdd(kind) PROVE PmtInv' /\ Step
    BY <2>1, StreamAddRead
  <2>2. CASE PcrPidSet
    BY <2>2, PcrPidSetRead DEF Pids
  <2>3. CASE UNCHANGED vars
    BY <2>3 DEF vars, PmtInv
  <2> HIDE DEF Step
  <2> QED BY <2>1, <2>2, <2>3 DEF Next, Complete
<1>3. DecodedPat = pat_section_set(PROGRAM_NUMBER, PMT_PID)
  BY PatRead
<1> QED BY <1>1, <1>2, <1>3, PTL DEF Spec, ImplementsPsi

(* ReceiverAccepts: from the first stream on every receiver takes the PMT, *)
(* and the PAT always, for any order of calls and as many streams as the   *)
(* packet has room for: the division of the section by the polynomial,     *)
(* the CRC that psi.c appended included, leaves nothing.                   *)
THEOREM ReceiverTakesSections ==
  ASSUME RoomInPacket PROVE Spec => []ReceiverAccepts
<1>1. Init => PmtInv
  BY InitRead
<1>2. PmtInv /\ [Next]_vars => PmtInv'
  <2> SUFFICES ASSUME PmtInv, [Next]_vars PROVE PmtInv'
    OBVIOUS
  <2>1. ASSUME NEW kind \in Kinds, StreamAdd(kind) PROVE PmtInv'
    BY <2>1, StreamAddRead
  <2>2. CASE PcrPidSet
    BY <2>2, PcrPidSetRead
  <2>3. CASE UNCHANGED vars
    BY <2>3 DEF vars, PmtInv
  <2> QED BY <2>1, <2>2, <2>3 DEF Next, Complete
<1>3. PmtInv => ReceiverAccepts
  BY PatRead DEF PmtInv, ReceiverAccepts
<1> QED BY <1>1, <1>2, <1>3, PTL DEF Spec
=============================================================================
