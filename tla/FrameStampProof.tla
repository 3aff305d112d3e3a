--------------------------- MODULE FrameStampProof --------------------------
(***************************************************************************)
(* Theorems about FrameStamp, for every time of 64 bits and more, and      *)
(* every size of frame.                                                    *)
(***************************************************************************)
EXTENDS FrameStamp, TLAPS

-----------------------------------------------------------------------------
(* What shifts and masks select of a number: the quotient and the rest of  *)
(* a division are the only ones it can be put together from.               *)

LEMMA Split ==
  ASSUME NEW x \in Nat, NEW b \in Nat \ {0}
  PROVE  x = b * (x \div b) + (x % b) /\ x \div b \in Nat /\ x % b \in 0..(b - 1)
<1>1. x = b * (x \div b) + (x % b)
  OBVIOUS
<1>2. x \div b \in Nat
  OBVIOUS
<1>3. x % b \in 0..(b - 1)
  OBVIOUS
<1> QED BY <1>1, <1>2, <1>3

LEMMA Joined ==
  ASSUME NEW b \in Nat \ {0}, NEW q \in Nat, NEW r \in 0..(b - 1), NEW x \in Nat, x = b * q + r
  PROVE  x \div b = q /\ x % b = r
<1> DEFINE p == x \div b
           s == x % b
<1>1. x = b * p + s /\ p \in Nat /\ s \in 0..(b - 1)
  BY Split
<1> SUFFICES p = q /\ s = r
  OBVIOUS
<1> HIDE DEF p, s
<1>2. b * q \in Int /\ b * p \in Int
  BY <1>1
<1>3. ~(p < q)
  <2> SUFFICES ASSUME p + 1 <= q PROVE FALSE
    BY <1>1
  <2>1. b * p + b <= b * q
    BY <1>1
  <2> QED BY <1>1, <1>2, <2>1
<1>4. ~(q < p)
  <2> SUFFICES ASSUME q + 1 <= p PROVE FALSE
    BY <1>1
  <2>1. b * q + b <= b * p
    BY <1>1
  <2> QED BY <1>1, <1>2, <2>1
<1>5. p = q
  BY <1>1, <1>3, <1>4
<1> QED BY <1>1, <1>2, <1>5

Parts(x, b, q, r) == x = b * q + r /\ q \in Nat /\ r \in 0..(b - 1)

LEMMA HasParts ==
  \A b \in Nat \ {0}, x \in Nat : \E q, r \in Nat : Parts(x, b, q, r)
<1> TAKE b \in Nat \ {0}, x \in Nat
<1>1. Parts(x, b, x \div b, x % b)
  BY Split DEF Parts
<1>2. x \div b \in Nat /\ x % b \in Nat
  BY Split
<1> QED BY <1>1, <1>2

LEMMA ReadParts ==
  \A b \in Nat \ {0}, x, q, r \in Nat : Parts(x, b, q, r) => x \div b = q /\ x % b = r
BY Joined DEF Parts

-----------------------------------------------------------------------------
(* A digit of 15 bits and the marker bit after it, in two bytes: the bits  *)
(* above the digit are lost and the digit is read back.                    *)

Digit == {d \in Nat : d < Base}

LEMMA Digits15 ==
  /\ \A d \in Digit : d \in Nat /\ d <= 32767
  /\ \A d \in Nat : d <= 32767 => d \in Digit
BY DEF Digit, Base

LEMMA MarkedDigit ==
  ASSUME NEW d \in Digit, NEW c \in Nat
  PROVE  LET byte == LowBytes((c * Base + d) * 2 + 1)
         IN  byte[1] * 128 + byte[2] \div 2 = d /\ byte[2] % 2 = 1
<1> DEFINE y  == 2 * d + 1
           hi == y \div 256
           lo == y % 256
           h  == lo \div 2
           o  == lo % 2
           x  == (c * Base + d) * 2 + 1
<1>1. y \in Nat
  BY DEF Digit
<1>2. y = 256 * hi + lo /\ hi \in Nat /\ lo \in 0..255
  <2> HIDE DEF y
  <2> QED BY <1>1, Split
<1>3. lo = 2 * h + o /\ h \in Nat /\ o \in 0..1
  <2>1. lo \in Nat
    BY <1>2
  <2> HIDE DEF lo
  <2> QED BY <2>1, Split
<1> HIDE DEF hi, lo, h, o
<1>4. hi \in 0..255 /\ o = 1 /\ hi * 128 + h = d
  <2>1. d \in Nat /\ d <= 32767
    BY Digits15
  <2> QED BY <1>2, <1>3, <2>1
<1>5. x \in Nat /\ 256 * c + hi \in Nat /\ x = 256 * (256 * c + hi) + lo
  BY <1>2, <1>4 DEF Base, Digit
<1> HIDE DEF x, y
<1>6. x \div 256 = 256 * c + hi /\ x % 256 = lo
  BY <1>2, <1>5, Joined
<1>7. (256 * c + hi) % 256 = hi
  <2>1. \A z \in Nat : z = 256 * c + hi => z % 256 = hi
    BY <1>4, Joined
  <2> QED BY <1>5, <2>1
<1>8. LowBytes(x) = << hi, lo >>
  BY <1>6, <1>7 DEF LowBytes
<1> QED BY <1>4, <1>8 DEF h, o, x

-----------------------------------------------------------------------------
(* The places of the fields in the header.                                 *)

LEMMA HeaderFields ==
  ASSUME NEW kind \in Kinds, NEW size \in Nat, NEW t1 \in Nat, NEW t2 \in Digit, NEW t3 \in Digit
  PROVE  LET h      == pes_header_set(kind, size, << t1, t2, t3 >>)
             middle == LowBytes(((t1 % 16) * Base + t2) * 2 + 1)
             low    == LowBytes(t3 * 2 + 1)
         IN  /\ Len(h) = 14 /\ h[9] = 5
             /\ h[5] = LengthBytes(kind, size)[1] /\ h[6] = LengthBytes(kind, size)[2]
             /\ h[10] = 32 + (t1 % 8) * 2 + 1
             /\ h[11] = middle[1] /\ h[12] = middle[2]
             /\ h[13] = low[1] /\ h[14] = low[2]
<1> DEFINE length == LengthBytes(kind, size)
           top    == 32 + (t1 % 8) * 2 + 1
           middle == LowBytes(((t1 % 16) * Base + t2) * 2 + 1)
           low    == LowBytes(t3 * 2 + 1)
           h(id, n1, n2, t, m1, m2, l1, l2) ==
             << 0, 0, 1, id >> \o << n1, n2 >> \o << 128, 128, 5 >>
               \o (<< t >> \o << m1, m2 >> \o << l1, l2 >>)
<1>1. ASSUME NEW id, NEW n1, NEW n2, NEW t, NEW m1, NEW m2, NEW l1, NEW l2
      PROVE  LET p == h(id, n1, n2, t, m1, m2, l1, l2)
             IN  /\ Len(p) = 14 /\ p[5] = n1 /\ p[6] = n2 /\ p[9] = 5 /\ p[10] = t
                 /\ p[11] = m1 /\ p[12] = m2 /\ p[13] = l1 /\ p[14] = l2
  OBVIOUS
<1>2. /\ length = << length[1], length[2] >> /\ middle = << middle[1], middle[2] >>
      /\ low = << low[1], low[2] >>
  BY DEF LengthBytes, LowBytes
<1>3. pes_header_set(kind, size, << t1, t2, t3 >>) =
        h(StreamId(kind), length[1], length[2], top, middle[1], middle[2], low[1], low[2])
  <2>1. pes_header_set(kind, size, << t1, t2, t3 >>) =
          << 0, 0, 1, StreamId(kind) >> \o length \o << 128, 128, 5 >>
            \o (<< top >> \o middle \o low)
    BY DEF pes_header_set, PtsBytes
  <2> HIDE DEF length, middle, low, top
  <2> QED BY <1>2, <2>1
<1> HIDE DEF h, length, middle, low, top
<1>4. LET p == h(StreamId(kind), length[1], length[2], top, middle[1], middle[2], low[1], low[2])
      IN  /\ Len(p) = 14 /\ p[5] = length[1] /\ p[6] = length[2] /\ p[9] = 5 /\ p[10] = top
          /\ p[11] = middle[1] /\ p[12] = middle[2] /\ p[13] = low[1] /\ p[14] = low[2]
  BY <1>1
<1> QED BY <1>3, <1>4 DEF length, middle, low, top

-----------------------------------------------------------------------------
(* The six bytes of the PCR hold the lowest 33 bits of its base.           *)

LEMMA PcrFields ==
  ASSUME NEW b1 \in Nat, NEW b2 \in Digit, NEW b3 \in Digit
  PROVE  LET p == PcrBytes(<< b1, b2, b3 >>)
         IN  /\ p[1] \div 32 = b1 % 8
             /\ (p[1] % 32) * 1024 + p[2] * 4 + p[3] \div 64 = b2
             /\ (p[3] % 64) * 512 + p[4] * 2 + p[5] \div 128 = b3
             /\ p[5] % 2 = 0 /\ p[6] = 0
<1>3. b2 \in Nat /\ b2 <= 32767 /\ b3 \in Nat /\ b3 <= 32767
  BY Digits15
<1>4. PICK a, b \in Nat : Parts(b1, 8, a, b)
  BY HasParts
<1>5. PICK s, w \in Nat : Parts(b2, 4, s, w)
  BY HasParts, <1>3
<1>6. PICK u, v \in Nat : Parts(s, 256, u, v)
  BY HasParts
<1>7. PICK n, z \in Nat : Parts(b3, 2, n, z)
  BY HasParts, <1>3
<1>8. PICK x, y \in Nat : Parts(n, 256, x, y)
  BY HasParts
<1>9. u \in 0..31 /\ x \in 0..63
  <2>1. u \in 0..31
    BY <1>3, <1>5, <1>6 DEF Parts
  <2>2. x \in 0..63
    BY <1>3, <1>7, <1>8 DEF Parts
  <2> QED BY <2>1, <2>2
<1>10. /\ Parts(b2, 1024, u, v * 4 + w) /\ Parts(b1 * 32 + u, 256, a, b * 32 + u)
       /\ Parts(b3, 512, x, y * 2 + z) /\ Parts(w * 64 + x, 256, 0, w * 64 + x)
  BY <1>4, <1>5, <1>6, <1>7, <1>8, <1>9 DEF Parts
<1>11. Parts(b * 32 + u, 32, b, u) /\ Parts(w * 64 + x, 64, w, x)
       /\ Parts(z * 128 + 126, 128, z, 126) /\ Parts(z * 128 + 126, 2, z * 64 + 63, 0)
  BY <1>4, <1>5, <1>7, <1>9 DEF Parts
<1>12. /\ b2 \div 1024 = u /\ b2 \div 4 = s /\ b2 % 4 = w /\ s % 256 = v
       /\ b3 \div 512 = x /\ b3 \div 2 = n /\ b3 % 2 = z /\ n % 256 = y
       /\ b1 % 8 = b /\ (b1 * 32 + u) % 256 = b * 32 + u /\ (w * 64 + x) % 256 = w * 64 + x
  BY ReadParts, <1>3, <1>4, <1>5, <1>6, <1>7, <1>8, <1>10
<1>13. PcrBytes(<< b1, b2, b3 >>) = << b * 32 + u, v, w * 64 + x, y, z * 128 + 126, 0 >>
  BY <1>12 DEF PcrBytes
<1>14. /\ (b * 32 + u) \div 32 = b /\ (b * 32 + u) % 32 = u
       /\ (w * 64 + x) \div 64 = w /\ (w * 64 + x) % 64 = x
       /\ (z * 128 + 126) \div 128 = z /\ (z * 128 + 126) % 2 = 0
  BY ReadParts, <1>11
<1>15. b2 = u * 1024 + v * 4 + w /\ b3 = x * 512 + y * 2 + z
  BY <1>10 DEF Parts
<1> DEFINE p == PcrBytes(<< b1, b2, b3 >>)
<1>16. /\ p[1] = b * 32 + u /\ p[2] = v /\ p[3] = w * 64 + x
       /\ p[4] = y /\ p[5] = z * 128 + 126 /\ p[6] = 0
  BY <1>13
<1> HIDE DEF p
<1> SUFFICES /\ p[1] \div 32 = b1 % 8
             /\ (p[1] % 32) * 1024 + p[2] * 4 + p[3] \div 64 = b2
             /\ (p[3] % 64) * 512 + p[4] * 2 + p[5] \div 128 = b3
             /\ p[5] % 2 = 0 /\ p[6] = 0
  BY DEF p
<1>17. p[1] \div 32 = b1 % 8 /\ p[5] % 2 = 0 /\ p[6] = 0
  BY <1>12, <1>14, <1>16
<1>18. (p[1] % 32) * 1024 + p[2] * 4 + p[3] \div 64 = b2
  BY <1>14, <1>15, <1>16
<1>19. (p[3] % 64) * 512 + p[4] * 2 + p[5] \div 128 = b3
  BY <1>14, <1>15, <1>16
<1> QED BY <1>17, <1>18, <1>19

(* Adding the lead to the base gives the time back, with each borrow paid. *)
LEMMA LeadPaidBack ==
  ASSUME NEW t1 \in Nat, NEW t2 \in Digit, NEW t3 \in Digit, ~BeforeLead(<< t1, t2, t3 >>)
  PROVE  \E m1 \in Nat, m2 \in Digit, m3 \in Digit :
           /\ MinusLead(<< t1, t2, t3 >>) = << m1, m2, m3 >>
           /\ PlusLead(<< m1 % 8, m2, m3 >>) = << t1 % 8, t2, t3 >>
<1>1. t2 \in Nat /\ t2 <= 32767 /\ t3 \in Nat /\ t3 <= 32767
  BY Digits15
<1>2. ASSUME NEW m1 \in Nat, NEW m2 \in Digit, NEW m3 \in Digit,
             NEW c \in {0, 1}, NEW e \in {0, 1},
             m3 + PCR_LEAD = Base * c + t3, m2 + c = Base * e + t2, m1 + e = t1
      PROVE  PlusLead(<< m1 % 8, m2, m3 >>) = << t1 % 8, t2, t3 >>
  <2>1. /\ Parts(m3 + PCR_LEAD, Base, c, t3) /\ Parts(m2 + c, Base, e, t2)
        /\ m3 + PCR_LEAD \in Nat /\ m2 + c \in Nat /\ c \in Nat /\ e \in Nat
    <3>1. m3 \in Nat /\ m2 \in Nat /\ c \in Nat /\ e \in Nat
      BY Digits15
    <3>2. m3 + PCR_LEAD \in Nat /\ m2 + c \in Nat
      BY <3>1 DEF PCR_LEAD
    <3>3. t3 \in 0..(Base - 1) /\ t2 \in 0..(Base - 1)
      <4>1. Base \in Nat
        BY DEF Base
      <4> QED BY <4>1 DEF Digit
    <3> QED BY <1>2, <3>1, <3>2, <3>3 DEF Parts
  <2>2. /\ (m3 + PCR_LEAD) \div Base = c /\ (m3 + PCR_LEAD) % Base = t3
        /\ (m2 + c) \div Base = e /\ (m2 + c) % Base = t2
    <3>1. Base \in Nat \ {0}
      BY DEF Base
    <3> QED BY <1>1, <2>1, <3>1, ReadParts
  <2>3. ((m1 % 8) + e) % 8 = t1 % 8
    BY <1>2, <2>1
  <2> QED BY <2>2, <2>3 DEF PlusLead
<1> DEFINE Paid == \E m1 \in Nat, m2, m3 \in Digit, c, e \in {0, 1} :
                     /\ MinusLead(<< t1, t2, t3 >>) = << m1, m2, m3 >>
                     /\ m3 + PCR_LEAD = Base * c + t3 /\ m2 + c = Base * e + t2 /\ m1 + e = t1
<1>3. t3 >= PCR_LEAD => Paid
  <2> HAVE t3 >= PCR_LEAD
  <2>1. MinusLead(<< t1, t2, t3 >>) = << t1, t2, t3 - PCR_LEAD >>
    BY DEF MinusLead
  <2>2. t3 - PCR_LEAD \in Digit
    <3>1. t3 - PCR_LEAD \in Nat /\ t3 - PCR_LEAD <= 32767
      BY <1>1 DEF PCR_LEAD
    <3> QED BY <3>1, Digits15
  <2>3. /\ (t3 - PCR_LEAD) + PCR_LEAD = Base * 0 + t3
        /\ t2 + 0 = Base * 0 + t2 /\ t1 + 0 = t1
    BY <1>1 DEF PCR_LEAD, Base
  <2>4. 0 \in {0, 1} /\ t2 \in Digit
    OBVIOUS
  <2> QED BY <2>1, <2>2, <2>3, <2>4, Zenon
<1>4. t3 < PCR_LEAD /\ t2 > 0 => Paid
  <2> HAVE t3 < PCR_LEAD /\ t2 > 0
  <2> DEFINE m2 == t2 - 1
             m3 == t3 + Base - PCR_LEAD
  <2>1. MinusLead(<< t1, t2, t3 >>) = << t1, m2, m3 >>
    BY <1>1 DEF MinusLead, PCR_LEAD
  <2>2. m2 \in Digit
    BY <1>1, Digits15
  <2>3. m3 \in Digit
    <3>1. m3 \in Nat /\ m3 <= 32767
      BY <1>1 DEF PCR_LEAD, Base
    <3> QED BY <3>1, Digits15
  <2>4. t1 + 0 = t1 /\ m3 + PCR_LEAD = Base * 1 + t3 /\ m2 + 1 = Base * 0 + t2
    BY <1>1 DEF PCR_LEAD, Base
  <2>5. 0 \in {0, 1} /\ 1 \in {0, 1}
    OBVIOUS
  <2> HIDE DEF m2, m3
  <2> QED BY <2>1, <2>2, <2>3, <2>4, <2>5, Zenon
<1>5. t3 < PCR_LEAD /\ t2 = 0 => Paid
  <2> HAVE t3 < PCR_LEAD /\ t2 = 0
  <2> DEFINE m1 == t1 - 1
             m2 == Base - 1
             m3 == t3 + Base - PCR_LEAD
  <2>1. MinusLead(<< t1, t2, t3 >>) = << m1, m2, m3 >>
    BY <1>1 DEF MinusLead, PCR_LEAD
  <2>2. m1 \in Nat
    BY DEF BeforeLead
  <2>3. m2 \in Digit
    BY DEF Digit, Base
  <2>4. m3 \in Digit
    <3>1. m3 \in Nat /\ m3 <= 32767
      BY <1>1 DEF PCR_LEAD, Base
    <3> QED BY <3>1, Digits15
  <2>5. m1 + 1 = t1 /\ m3 + PCR_LEAD = Base * 1 + t3 /\ m2 + 1 = Base * 1 + t2
    BY <1>1 DEF PCR_LEAD, Base
  <2>6. 1 \in {0, 1}
    OBVIOUS
  <2> HIDE DEF m1, m2, m3
  <2> QED BY <2>1, <2>2, <2>3, <2>4, <2>5, <2>6, Zenon
<1>6. Paid
  BY <1>1, <1>3, <1>4, <1>5 DEF PCR_LEAD
<1>7. PICK m1 \in Nat, m2 \in Digit, m3 \in Digit, c \in {0, 1}, e \in {0, 1} :
        /\ MinusLead(<< t1, t2, t3 >>) = << m1, m2, m3 >>
        /\ m3 + PCR_LEAD = Base * c + t3 /\ m2 + c = Base * e + t2 /\ m1 + e = t1
  BY <1>6
<1>8. PlusLead(<< m1 % 8, m2, m3 >>) = << t1 % 8, t2, t3 >>
  <2>1. /\ m3 + PCR_LEAD = Base * c + t3 /\ m2 + c = Base * e + t2 /\ m1 + e = t1
    BY <1>7
  <2> QED BY <2>1, <1>2
<1>9. MinusLead(<< t1, t2, t3 >>) = << m1, m2, m3 >>
  BY <1>7
<1> QED BY <1>8, <1>9, Zenon

-----------------------------------------------------------------------------
(* What is known of the frame sent last: the header and the PCR are those  *)
(* of its kind, its size and its time.                                     *)

Stamped ==
  /\ frame.kind \in Kinds /\ frame.size \in Nat
  /\ \E t1 \in Nat, t2, t3 \in Digit : frame.pts = << t1, t2, t3 >>
  /\ pes = pes_header_set(frame.kind, frame.size, frame.pts)
  /\ pcr = << >> \/ pcr = PcrBytes(PcrBase(frame.pts))
StampInv == Sent => Stamped

LEMMA StampInvariant == Spec => []StampInv
<1>1. Init => StampInv
  BY DEF Init, StampInv, Sent
<1>2. StampInv /\ [Next]_vars => StampInv'
  <2> SUFFICES ASSUME StampInv, [Next]_vars PROVE StampInv'
    OBVIOUS
  <2>1. ASSUME NEW kind \in Kinds, NEW size \in Sizes, NEW pts \in Times,
               NEW pcr_reference \in BOOLEAN, WriteHead(kind, size, pts, pcr_reference)
        PROVE  StampInv'
    <3>1. size \in Nat
      BY FrameStampAssumption
    <3>2. \E t1 \in Nat, t2, t3 \in Digit : pts = << t1, t2, t3 >>
      <4>1. PICK t1 \in Tops, t2 \in Digits, t3 \in Digits : pts = << t1, t2, t3 >>
        BY DEF Times
      <4>2. t1 \in Nat /\ t2 \in 0..(Base - 1) /\ t3 \in 0..(Base - 1)
        BY FrameStampAssumption
      <4>3. Base \in Nat
        BY DEF Base
      <4>4. t2 \in Digit /\ t3 \in Digit
        BY <4>2, <4>3 DEF Digit
      <4> QED BY <4>1, <4>2, <4>4
    <3>3. /\ frame' = [kind |-> kind, size |-> size, pts |-> pts]
          /\ pes' = pes_header_set(kind, size, pts)
          /\ pcr' = << >> \/ pcr' = PcrBytes(PcrBase(pts))
      BY <2>1 DEF WriteHead
    <3> QED BY <3>1, <3>2, <3>3 DEF StampInv, Stamped
  <2>2. CASE UNCHANGED vars
    BY <2>2 DEF vars, StampInv, Stamped, Sent
  <2> QED BY <2>1, <2>2 DEF Next
<1> QED BY <1>1, <1>2, PTL DEF Spec

LEMMA Times33 ==
  ASSUME Stamped
  PROVE  ReadPts = << frame.pts[1] % 8, frame.pts[2], frame.pts[3] >> /\ Markers
         /\ Len(pes) = 14 /\ pes[9] = 5
<1>1. PICK t1 \in Nat, t2 \in Digit, t3 \in Digit : frame.pts = << t1, t2, t3 >>
  BY DEF Stamped
<1> DEFINE middle == LowBytes(((t1 % 16) * Base + t2) * 2 + 1)
           low    == LowBytes(t3 * 2 + 1)
<1>2. /\ Len(pes) = 14 /\ pes[9] = 5 /\ pes[10] = 32 + (t1 % 8) * 2 + 1
      /\ pes[11] = middle[1] /\ pes[12] = middle[2] /\ pes[13] = low[1] /\ pes[14] = low[2]
  <2>1. /\ frame.kind \in Kinds /\ frame.size \in Nat
        /\ pes = pes_header_set(frame.kind, frame.size, << t1, t2, t3 >>)
    BY <1>1 DEF Stamped
  <2> HIDE DEF middle, low
  <2> QED BY <2>1, HeaderFields DEF middle, low
<1>3. middle[1] * 128 + middle[2] \div 2 = t2 /\ middle[2] % 2 = 1
  <2>1. t1 % 16 \in Nat
    OBVIOUS
  <2> QED BY <2>1, MarkedDigit
<1>4. low[1] * 128 + low[2] \div 2 = t3 /\ low[2] % 2 = 1
  <2>1. (0 * Base + t3) * 2 + 1 = t3 * 2 + 1
    BY Digits15 DEF Base
  <2> QED BY <2>1, MarkedDigit
<1> HIDE DEF middle, low
<1>5. pes[10] \div 16 = 2 /\ pes[10] % 2 = 1 /\ (pes[10] \div 2) % 8 = t1 % 8
  <2> DEFINE b == t1 % 8
  <2>1. b \in 0..7
    OBVIOUS
  <2> HIDE DEF b
  <2>2. (32 + b * 2 + 1) \div 16 = 2
    BY <2>1
  <2>3. (32 + b * 2 + 1) % 2 = 1
    BY <2>1
  <2>4. ((32 + b * 2 + 1) \div 2) % 8 = b
    BY <2>1
  <2> QED BY <1>2, <2>2, <2>3, <2>4 DEF b
<1>6. Markers
  BY <1>2, <1>3, <1>4, <1>5 DEF Markers
<1>7. ReadPts = << t1 % 8, t2, t3 >>
  BY <1>2, <1>3, <1>4, <1>5 DEF ReadPts
<1> QED BY <1>1, <1>2, <1>6, <1>7

-----------------------------------------------------------------------------
(* PtsArrives: a receiver reads the time of every frame, to its last bit   *)
(* of 33, with the marker bits, in a header of the length spts.c counts.   *)
THEOREM PtsAlwaysArrives == Spec => []PtsArrives
<1>1. StampInv => PtsArrives
  BY Times33 DEF StampInv, PtsArrives, pes_header_length
<1> QED BY <1>1, StampInvariant, PTL

(* PcrBeforePts: the clock a receiver reads is the lead before the time of *)
(* the frame, with the borrows from digit to digit and the wrap of the     *)
(* field, or 0 where the time is less than the lead.                       *)
THEOREM PcrAlwaysBeforePts == Spec => []PcrBeforePts
<1>1. StampInv => PcrBeforePts
  <2> SUFFICES ASSUME Stamped, pcr = PcrBytes(PcrBase(frame.pts))
               PROVE  /\ ReadExtension = 0
                      /\ IF BeforeLead(frame.pts) THEN ReadPcr = << 0, 0, 0 >>
                                                  ELSE PlusLead(ReadPcr) = ReadPts
    BY DEF StampInv, PcrBeforePts, Stamped
  <2>1. PICK t1 \in Nat, t2 \in Digit, t3 \in Digit : frame.pts = << t1, t2, t3 >>
    BY DEF Stamped
  <2>2. ReadPts = << t1 % 8, t2, t3 >>
    BY <2>1, Times33
  <2>3. ASSUME NEW b1 \in Nat, NEW b2 \in Digit, NEW b3 \in Digit, PcrBase(frame.pts) = << b1, b2, b3 >>
        PROVE  ReadExtension = 0 /\ ReadPcr = << b1 % 8, b2, b3 >>
    <3>1. pcr = PcrBytes(<< b1, b2, b3 >>)
      BY <2>3
    <3>2. /\ pcr[1] \div 32 = b1 % 8
          /\ (pcr[1] % 32) * 1024 + pcr[2] * 4 + pcr[3] \div 64 = b2
          /\ (pcr[3] % 64) * 512 + pcr[4] * 2 + pcr[5] \div 128 = b3
          /\ pcr[5] % 2 = 0 /\ pcr[6] = 0
      BY <3>1, PcrFields
    <3> QED BY <3>2 DEF ReadExtension, ReadPcr
  <2>4. CASE BeforeLead(frame.pts)
    <3>1. PcrBase(frame.pts) = << 0, 0, 0 >> /\ 0 \in Digit
      BY <2>4, Digits15 DEF PcrBase
    <3>2. 0 % 8 = 0
      OBVIOUS
    <3> QED BY <2>3, <2>4, <3>1, <3>2
  <2>5. CASE ~BeforeLead(frame.pts)
    <3>1. PICK m1 \in Nat, m2 \in Digit, m3 \in Digit :
            /\ MinusLead(<< t1, t2, t3 >>) = << m1, m2, m3 >>
            /\ PlusLead(<< m1 % 8, m2, m3 >>) = << t1 % 8, t2, t3 >>
      BY <2>1, <2>5, LeadPaidBack
    <3>2. PcrBase(frame.pts) = << m1, m2, m3 >>
      BY <2>1, <2>5, <3>1 DEF PcrBase
    <3> QED BY <2>2, <2>3, <2>5, <3>1, <3>2
  <2> QED BY <2>4, <2>5
<1> QED BY <1>1, StampInvariant, PTL

(* PacketEndsWithFrame: the length an audio packet announces is what       *)
(* follows the field, up to the largest that its two bytes can hold.       *)
THEOREM PacketAlwaysEndsWithFrame == Spec => []PacketEndsWithFrame
<1>1. StampInv => PacketEndsWithFrame
  <2> SUFFICES ASSUME StampInv, frame.kind = "audio", frame.size + Len(pes) - 6 < 65536
               PROVE  pes[5] * 256 + pes[6] = Len(pes) - 6 + frame.size
    BY DEF PacketEndsWithFrame
  <2>1. Stamped
    BY DEF StampInv, Sent, NoPts
  <2>2. PICK t1 \in Nat, t2 \in Digit, t3 \in Digit : frame.pts = << t1, t2, t3 >>
    BY <2>1 DEF Stamped
  <2> DEFINE n == frame.size + 8
             q == n \div 256
             r == n % 256
  <2>3. frame.size \in Nat /\ Len(pes) = 14
    BY <2>1, Times33 DEF Stamped
  <2>. n \in Nat /\ n <= 65535
    BY <2>3
  <2>4. pes[5] = q % 256 /\ pes[6] = r
    <3>1. pes = pes_header_set("audio", frame.size, << t1, t2, t3 >>)
      BY <2>1, <2>2 DEF Stamped
    <3>2. "audio" \in Kinds
      BY DEF Kinds
    <3>3. LET h == pes_header_set("audio", frame.size, << t1, t2, t3 >>)
          IN  /\ h[5] = LengthBytes("audio", frame.size)[1]
              /\ h[6] = LengthBytes("audio", frame.size)[2]
      <4> HIDE DEF n, q, r
      <4> QED BY <2>3, <3>2, HeaderFields
    <3>4. pes[5] = LengthBytes("audio", frame.size)[1] /\ pes[6] = LengthBytes("audio", frame.size)[2]
      BY <3>1, <3>3
    <3>5. LengthBytes("audio", frame.size) = << q % 256, r >>
      BY DEF LengthBytes, LowBytes
    <3> QED BY <3>4, <3>5
  <2> HIDE DEF n
  <2>5. n = 256 * q + r /\ q \in Nat /\ r \in 0..(256 - 1)
    BY Split
  <2> HIDE DEF q, r
  <2>6. q \in Nat /\ q <= 255
    BY <2>3, <2>5
  <2>7. q % 256 = q
    BY <2>6
  <2>8. n = frame.size + 8
    BY DEF n
  <2> QED BY <2>3, <2>4, <2>5, <2>6, <2>7, <2>8
<1> QED BY <1>1, StampInvariant, PTL
=============================================================================
