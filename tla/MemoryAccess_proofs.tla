------------------------- MODULE MemoryAccess_proofs -------------------------
(***************************************************************************)
(* The conversions of MemoryAccess are inverse to each other, and with     *)
(* them its properties, for every base, size of words, memory and buffer.  *)
(***************************************************************************)
EXTENDS MemoryAccess, NatRecursion

-----------------------------------------------------------------------------
\* Division

LEMMA DivType == \A i \in Nat, m \in Nat \ {0} : i \div m \in Nat /\ i % m \in 0 .. m - 1
  BY SMT

LEMMA DivBack == \A i \in Nat, m \in Nat \ {0} : (i \div m) * m + (i % m) = i
  BY SMT

LEMMA DivLess == \A i \in Nat, m \in Nat \ {0}, n \in Nat : i < m * n => i \div m < n
  BY SMT

LEMMA DivTwice ==
  \A i \in Nat, m \in Nat \ {0}, n \in Nat \ {0} : (i \div m) \div n = i \div (n * m)
  BY SMT

LEMMA DivUnique ==
  \A m \in Nat \ {0}, q \in Nat : \A r \in 0 .. m - 1 :
    (m * q + r) \div m = q /\ (m * q + r) % m = r
  BY SMT

LEMMA DivAdd ==
  ASSUME NEW w \in Nat, NEW p \in Nat \ {0}, NEW t \in Nat
  PROVE  (w + p * t) \div p = (w \div p) + t /\ (w + p * t) % p = w % p
  <1> DEFINE q == w \div p
             r == w % p
  <1>1. q \in Nat /\ r \in 0 .. p - 1
    BY DivType, Zenon
  <1>2. q * p + r = w
    BY DivBack
  <1> HIDE DEF q, r
  <1>3. w + p * t = p * (q + t) + r /\ q + t \in Nat
    BY <1>1, <1>2
  <1>4. (p * (q + t) + r) \div p = q + t /\ (p * (q + t) + r) % p = r
    BY <1>1, <1>3, DivUnique
  <1> QED
    BY <1>3, <1>4 DEF q, r

LEMMA Halves ==
  \A n \in Nat : /\ (2 * n) \div 2 = n /\ (2 * n) % 2 = 0
                 /\ (2 * n + 1) \div 2 = n /\ (2 * n + 1) % 2 = 1
  BY SMT

-----------------------------------------------------------------------------
\* Digits and bytes

\* A byte has an even number of values, half of which are to be escaped.
LEMMA ByteModType ==
  /\ HexBase \in Nat \ {0} /\ ByteMod \in Nat \ {0} /\ ByteMod >= 4
  /\ ByteMod = 2 * (ByteMod \div 2) /\ ByteMod \div 2 \in Nat
  <1>1. HexBase \in Nat /\ HexBase >= 2 /\ HexBase % 2 = 0
    BY MemoryAssumption
  <1> DEFINE h == HexBase \div 2
  <1>2. h \in Nat /\ HexBase = 2 * h
    BY <1>1
  <1> HIDE DEF h
  <1>3. ByteMod = 2 * (h * HexBase) /\ h * HexBase \in Nat /\ h >= 1
    BY <1>1, <1>2 DEF ByteMod
  <1>4. ByteMod \div 2 = h * HexBase
    BY <1>3, Halves
  <1>5. h * HexBase >= 2
    BY <1>1, <1>2, <1>3
  <1> QED
    BY <1>1, <1>3, <1>4, <1>5

\* The two digits of a byte are digits, and make the byte again.
LEMMA DigitsOfByte ==
  ASSUME NEW b \in Bytes
  PROVE  /\ \A k \in Nat : DigitOf(b, k) \in 0 .. HexBase - 1
         /\ (b \div HexBase) * HexBase + (b % HexBase) = b
  <1>1. b \in Nat /\ HexBase \in Nat \ {0} /\ b < HexBase * HexBase
    BY ByteModType DEF Bytes, ByteMod
  <1>2. b \div HexBase \in 0 .. HexBase - 1 /\ b % HexBase \in 0 .. HexBase - 1
    <2>1. b \div HexBase \in Nat /\ b % HexBase \in 0 .. HexBase - 1
      BY <1>1, DivType, Zenon
    <2>2. b \div HexBase < HexBase
      BY <1>1, DivLess
    <2> QED
      BY <1>1, <2>1, <2>2
  <1>3. (b \div HexBase) * HexBase + (b % HexBase) = b
    BY <1>1, DivBack
  <1> QED
    BY <1>2, <1>3 DEF DigitOf

\* A text of the digits of some bytes has digits only, and these bytes.
LEMMA DigitsBack ==
  ASSUME NEW n \in Nat, NEW byte, \A i \in 0 .. n - 1 : byte[i] \in Bytes,
         NEW buf, \A k \in 1 .. 2 * n : buf[k] = DigitOf(byte[(k - 1) \div 2], k)
  PROVE  /\ \A k \in 1 .. 2 * n : buf[k] \in 0 .. HexBase - 1
         /\ \A i \in 0 .. n - 1 : ByteOf(buf, i) = byte[i]
  <1>1. ASSUME NEW k \in 1 .. 2 * n PROVE buf[k] \in 0 .. HexBase - 1
    <2>1. (k - 1) \div 2 \in 0 .. n - 1 /\ k \in Nat
      OBVIOUS
    <2>2. byte[(k - 1) \div 2] \in Bytes
      BY <2>1
    <2> QED
      BY <2>1, <2>2, DigitsOfByte
  <1>2. ASSUME NEW i \in 0 .. n - 1 PROVE ByteOf(buf, i) = byte[i]
    <2>1. /\ 2 * i + 1 \in 1 .. 2 * n /\ ((2 * i + 1) - 1) \div 2 = i /\ (2 * i + 1) % 2 = 1
          /\ 2 * i + 2 \in 1 .. 2 * n /\ ((2 * i + 2) - 1) \div 2 = i /\ (2 * i + 2) % 2 = 0
      OBVIOUS
    <2>2. buf[2 * i + 1] = byte[i] \div HexBase /\ buf[2 * i + 2] = byte[i] % HexBase
      BY <2>1 DEF DigitOf
    <2> QED
      BY <2>2, DigitsOfByte DEF ByteOf
  <1> QED
    BY <1>1, <1>2

-----------------------------------------------------------------------------
\* Words

\* A byte counts ByteMod times as much as the one below it.
LEMMA PlaceType ==
  /\ Place[0] = 1
  /\ \A n \in 0 .. RegBytes : Place[n] \in Nat \ {0}
  /\ \A n \in 1 .. RegBytes : Place[n] = ByteMod * Place[n - 1]
  <1> DEFINE R == RegBytes
             X == Nat \ {0}
             Step == [k \in 1 .. R |-> [x \in X |-> ByteMod * x]]
             Eq(f) == f = [n \in 0 .. R |-> IF n = 0 THEN 1 ELSE ByteMod * f[n - 1]]
  <1>1. R \in Nat /\ 1 \in X /\ \A x \in X : ByteMod * x \in X
    BY MemoryAssumption, ByteModType
  <1>2. Step \in [1 .. R -> [X -> X]]
    BY <1>1
  <1>3. PICK s \in [0 .. R -> X] : s[0] = 1 /\ \A k \in 1 .. R : s[k] = Step[k][s[k - 1]]
    <2> HIDE DEF R, X, Step
    <2> QED
      BY <1>1, <1>2, RecursionExists
  <1>4. Eq(s)
    <2>1. ASSUME NEW k \in 1 .. R PROVE s[k] = ByteMod * s[k - 1]
      <3>1. k - 1 \in 0 .. R
        BY <1>1
      <3>2. s[k - 1] \in X
        BY <3>1
      <3>3. Step[k][s[k - 1]] = ByteMod * s[k - 1]
        BY <3>2
      <3> HIDE DEF Step
      <3> QED
        BY <1>3, <3>3
    <2> QED
      BY <1>1, <1>3, <2>1
  <1>5. Eq(Place)
    <2>1. Place = CHOOSE f : Eq(f)
      BY Zenon DEF Place
    <2> HIDE DEF Eq
    <2> QED
      BY <1>4, <2>1, Zenon
  <1>6. Place[0] = 1 /\ \A k \in 1 .. R : Place[k] = ByteMod * Place[k - 1]
    BY <1>1, <1>5
  <1> DEFINE T == {n \in 0 .. R : Place[n] \in X}
  <1>7. 0 \in T /\ \A k \in 0 .. R - 1 : k \in T => k + 1 \in T
    BY <1>1, <1>6
  <1>8. \A k \in 0 .. R : k \in T
    <2> HIDE DEF T, R
    <2> QED
      BY <1>1, <1>7, InductionUpTo
  <1> QED
    BY <1>6, <1>8

\* What a byte counts for is a multiple of what each byte below it does.
LEMMA PlaceMultiple ==
  \A k \in 0 .. RegBytes : \A i \in 0 .. k - 1 :
    \E c \in Nat : Place[k] = Place[i] * (ByteMod * c)
  <1> DEFINE R == RegBytes
             Good(k) == \A i \in 0 .. k - 1 : \E c \in Nat : Place[k] = Place[i] * (ByteMod * c)
             T == {k \in 0 .. R : Good(k)}
  <1>1. R \in Nat /\ ByteMod \in Nat \ {0}
    BY MemoryAssumption, ByteModType
  <1>2. 0 \in T
    BY <1>1
  <1>3. ASSUME NEW k \in 0 .. R - 1, k \in T PROVE k + 1 \in T
    <2>1. k + 1 \in 1 .. R /\ k + 1 \in 0 .. R /\ (k + 1) - 1 = k /\ k \in 0 .. R
      BY <1>1
    <2>2. Place[k + 1] = ByteMod * Place[k] /\ Place[k] \in Nat \ {0}
      BY <2>1, PlaceType
    <2>3. ASSUME NEW i \in 0 .. k
          PROVE  \E c \in Nat : Place[k + 1] = Place[i] * (ByteMod * c)
      <3>1. CASE i = k
        <4>1. Place[k + 1] = Place[i] * (ByteMod * 1)
          BY <1>1, <2>2, <3>1
        <4> QED
          BY <4>1
      <3>2. CASE i # k
        <4>1. i \in 0 .. k - 1 /\ i \in 0 .. R
          BY <1>1, <3>2
        <4>2. PICK c \in Nat : Place[k] = Place[i] * (ByteMod * c)
          BY <1>3, <4>1
        <4>3. Place[i] \in Nat
          BY <4>1, PlaceType
        <4> DEFINE p == Place[i]
        <4> HIDE DEF p
        <4>4. ByteMod * (p * (ByteMod * c)) = p * (ByteMod * (ByteMod * c))
              /\ ByteMod * c \in Nat
          BY <1>1, <4>3 DEF p
        <4> QED
          BY <2>2, <4>2, <4>4 DEF p
      <3> QED
        BY <3>1, <3>2
    <2>4. Good(k + 1)
      BY <2>1, <2>3
    <2> QED
      BY <2>1, <2>4
  <1>4. \A k \in 0 .. R : k \in T
    <2> HIDE DEF T, R
    <2> QED
      BY <1>1, <1>2, <1>3, InductionUpTo
  <1> QED
    BY <1>4

\* The bytes of a word.
ByteAt(v) == [i \in 0 .. RegBytes - 1 |-> (v \div Place[i]) % ByteMod]

LEMMA ByteAtType ==
  ASSUME NEW v \in Words
  PROVE  v \in Nat /\ \A i \in 0 .. RegBytes - 1 : ByteAt(v)[i] \in Bytes
  <1>1. v \in Nat
    BY DEF Words
  <1>2. ASSUME NEW i \in 0 .. RegBytes - 1 PROVE ByteAt(v)[i] \in Bytes
    <2>1. Place[i] \in Nat \ {0}
      BY PlaceType, MemoryAssumption
    <2>2. v \div Place[i] \in Nat
      BY <1>1, <2>1, DivType, Zenon
    <2>3. (v \div Place[i]) % ByteMod \in 0 .. ByteMod - 1
      BY <2>2, ByteModType, DivType, Zenon
    <2> QED
      BY <2>3 DEF ByteAt, Bytes
  <1> QED
    BY <1>1, <1>2

\* regVal2Hex writes two digits for every byte of a word that it is asked for.
LEMMA regVal2HexDigits ==
  ASSUME NEW v \in Words, NEW n \in 0 .. RegBytes
  PROVE  /\ regVal2Hex(v, n) \in [1 .. 2 * n -> 0 .. HexBase - 1]
         /\ \A k \in 1 .. 2 * n : regVal2Hex(v, n)[k] = DigitOf(ByteAt(v)[(k - 1) \div 2], k)
  <1> DEFINE buf == regVal2Hex(v, n)
  <1>1. RegBytes \in Nat /\ n \in Nat
    BY MemoryAssumption
  <1>2. buf = [k \in 1 .. 2 * n |-> DigitOf((v \div Place[(k - 1) \div 2]) % ByteMod, k)]
    BY DEF regVal2Hex
  <1>3. ASSUME NEW k \in 1 .. 2 * n
        PROVE  buf[k] = DigitOf(ByteAt(v)[(k - 1) \div 2], k)
    <2>1. (k - 1) \div 2 \in 0 .. RegBytes - 1
      BY <1>1
    <2> QED
      BY <1>2, <2>1 DEF ByteAt
  <1>4. \A k \in 1 .. 2 * n : buf[k] \in 0 .. HexBase - 1
    <2>1. \A i \in 0 .. n - 1 : ByteAt(v)[i] \in Bytes
      BY <1>1, ByteAtType
    <2> HIDE DEF buf
    <2> QED
      BY <1>1, <1>3, <2>1, DigitsBack
  <1> QED
    BY <1>2, <1>3, <1>4

\* hex2RegVal of a text that starts with the digits of a word is the word:
\* Horner's rule from the most significant byte, which is the last one.
LEMMA WordBack ==
  ASSUME NEW v \in Words, NEW buf,
         \A k \in 1 .. 2 * RegBytes : buf[k] = regVal2Hex(v, RegBytes)[k]
  PROVE  hex2RegVal(buf, RegBytes) = v
  <1> DEFINE R == RegBytes
             Top(n) == v \div Place[R - n]
             Eq(f) == f = [n \in 0 .. R |->
                             IF n = 0 THEN 0 ELSE f[n - 1] * ByteMod + ByteOf(buf, R - n)]
             val == CHOOSE f : Eq(f)
             top == [n \in 0 .. R |-> Top(n)]
  <1>1. R \in Nat /\ v \in Nat /\ v < Place[R]
    BY MemoryAssumption, PlaceType DEF Words
  <1>2. \A i \in 0 .. R - 1 : ByteOf(buf, i) = (v \div Place[i]) % ByteMod
    <2>1. \A k \in 1 .. 2 * R : buf[k] = DigitOf(ByteAt(v)[(k - 1) \div 2], k)
      <3>1. R \in 0 .. RegBytes
        BY <1>1
      <3> QED
        BY <3>1, regVal2HexDigits
    <2>2. \A i \in 0 .. R - 1 : ByteOf(buf, i) = ByteAt(v)[i]
      BY <1>1, <2>1, ByteAtType, DigitsBack
    <2> QED
      BY <2>2 DEF ByteAt
  <1>3. Top(0) = 0 /\ Top(R) = v
    <2>1. v \div Place[R] = 0
      BY <1>1, PlaceType
    <2>2. v \div 1 = v
      BY <1>1
    <2> QED
      BY <1>1, <2>1, <2>2, PlaceType
  <1>4. ASSUME NEW n \in 1 .. R PROVE Top(n) = Top(n - 1) * ByteMod + ByteOf(buf, R - n)
    <2> DEFINE p == Place[R - n]
               q == v \div p
    <2>1. R - n \in 0 .. R - 1 /\ R - (n - 1) = (R - n) + 1 /\ (R - n) + 1 \in 1 .. R
          /\ ((R - n) + 1) - 1 = R - n
      BY <1>1
    <2>2. p \in Nat \ {0} /\ Place[R - (n - 1)] = ByteMod * p
      <3> DEFINE m == (R - n) + 1
      <3>1. m \in 1 .. R /\ m - 1 \in 0 .. R /\ R - (n - 1) = m /\ R - n = m - 1
        BY <1>1, <2>1
      <3> HIDE DEF m
      <3>2. Place[m] = ByteMod * Place[m - 1] /\ Place[m - 1] \in Nat \ {0}
        BY <3>1, PlaceType
      <3> QED
        BY <3>1, <3>2
    <2>3. ByteOf(buf, R - n) = q % ByteMod
      BY <1>2, <2>1
    <2> HIDE DEF p
    <2>4. q \in Nat /\ Top(n - 1) = q \div ByteMod
      <3>1. q \in Nat
        BY <1>1, <2>2, DivType, Zenon
      <3>2. (v \div p) \div ByteMod = v \div (ByteMod * p)
        BY <1>1, <2>2, ByteModType, DivTwice, Zenon
      <3> QED
        BY <2>2, <3>1, <3>2
    <2>5. Top(n) = q
      BY DEF p
    <2> HIDE DEF q, Top
    <2>6. (q \div ByteMod) * ByteMod + (q % ByteMod) = q
      BY <2>4, ByteModType, DivBack, Zenon
    <2> QED
      BY <2>3, <2>4, <2>5, <2>6
  <1>5. Eq(top)
    <2>1. ASSUME NEW n \in 0 .. R
          PROVE  top[n] = IF n = 0 THEN 0 ELSE top[n - 1] * ByteMod + ByteOf(buf, R - n)
      <3>1. CASE n = 0
        BY <1>3, <3>1
      <3>2. CASE n # 0
        <4>1. n \in 1 .. R /\ n - 1 \in 0 .. R
          BY <1>1, <3>2
        <4> HIDE DEF Top
        <4> QED
          BY <1>4, <3>2, <4>1
      <3> QED
        BY <3>1, <3>2
    <2> HIDE DEF Top
    <2> QED
      BY <2>1
  <1>6. Eq(val)
    <2> HIDE DEF Eq, top
    <2> QED
      BY <1>5, Zenon
  <1>7. hex2RegVal(buf, R) = val[R]
    BY Zenon DEF hex2RegVal
  <1> HIDE DEF val
  <1> DEFINE T == {n \in 0 .. R : val[n] = Top(n)}
  <1>8. 0 \in T
    <2>1. 0 \in 0 .. R
      BY <1>1
    <2> HIDE DEF Top
    <2> QED
      BY <1>3, <1>6, <2>1
  <1>9. ASSUME NEW k \in 0 .. R - 1, k \in T PROVE k + 1 \in T
    <2>1. k + 1 \in 1 .. R /\ k + 1 \in 0 .. R /\ (k + 1) - 1 = k /\ k + 1 # 0
      BY <1>1
    <2> HIDE DEF Top
    <2>2. val[k + 1] = val[k] * ByteMod + ByteOf(buf, R - (k + 1))
      BY <1>6, <2>1
    <2>3. Top(k + 1) = Top(k) * ByteMod + ByteOf(buf, R - (k + 1))
      BY <1>4, <2>1
    <2> QED
      BY <1>9, <2>1, <2>2, <2>3
  <1>10. R \in T
    <2> HIDE DEF T, R
    <2>1. \A k \in 0 .. R : k \in T
      BY <1>1, <1>8, <1>9, InductionUpTo
    <2> QED
      BY <1>1, <2>1
  <1> HIDE DEF Top
  <1> QED
    BY <1>3, <1>7, <1>10

-----------------------------------------------------------------------------
\* Escapes

\* Two flips are none, and one takes a byte that must be escaped to the lower
\* half, which the escape character is not in.
LEMMA FlipBack ==
  ASSUME NEW b \in Bytes
  PROVE  /\ Flip(b) \in Bytes /\ Flip(Flip(b)) = b
         /\ Escape \in MustEscape /\ Escape \in Bytes
  <1> DEFINE h == ByteMod \div 2
  <1>1. h \in Nat /\ h >= 2 /\ ByteMod = 2 * h /\ b \in 0 .. 2 * h - 1
    BY ByteModType DEF Bytes
  <1> HIDE DEF h
  <1>2. CASE b < h
    <2>1. (b + h) % (2 * h) = b + h /\ ((b + h) + h) % (2 * h) = b
      BY <1>1, <1>2
    <2> QED
      BY <1>1, <1>2, <2>1 DEF Flip, h, Bytes, Escape, MustEscape
  <1>3. CASE b >= h
    <2>1. (b + h) % (2 * h) = b - h /\ ((b - h) + h) % (2 * h) = b
      BY <1>1, <1>3
    <2> QED
      BY <1>1, <1>3, <2>1 DEF Flip, h, Bytes, Escape, MustEscape
  <1> QED
    BY <1>1, <1>2, <1>3

\* What the client sends for one byte.
EscapedByte(b) == IF b \in MustEscape THEN <<Escape, Flip(b)>> ELSE <<b>>

\* What the client sends, byte after byte.
LEMMA EscapedSteps ==
  ASSUME NEW bytes \in Seq(Bytes)
  PROVE  \E e \in [0 .. Len(bytes) -> Seq(Bytes)] :
           /\ Escaped(bytes) = e[Len(bytes)] /\ e[0] = <<>>
           /\ \A n \in 1 .. Len(bytes) : e[n] = e[n - 1] \o EscapedByte(bytes[n])
  <1> DEFINE N == Len(bytes)
             X == Seq(Bytes)
             a == <<>>
             Go(x, n) == x \o EscapedByte(bytes[n])
             Step == [n \in 1 .. N |-> [x \in X |-> Go(x, n)]]
             Eq(f) == f = [n \in 0 .. N |-> IF n = 0 THEN a ELSE Go(f[n - 1], n)]
             e == CHOOSE f : Eq(f)
  <1>1. N \in Nat /\ a \in X
    OBVIOUS
  <1>2. \A n \in 1 .. N, x \in X : Go(x, n) \in X
    <2>1. ASSUME NEW n \in 1 .. N PROVE EscapedByte(bytes[n]) \in X
      <3>1. bytes[n] \in Bytes
        OBVIOUS
      <3> QED
        BY <3>1, FlipBack DEF EscapedByte
    <2> QED
      BY <2>1
  <1>3. Escaped(bytes) = e[N]
    BY Zenon DEF Escaped, EscapedByte
  <1> HIDE DEF N, X, a, Go
  <1>4. Step \in [1 .. N -> [X -> X]]
    BY <1>2
  <1>5. PICK s \in [0 .. N -> X] :
          s[0] = a /\ \A k \in 1 .. N : s[k] = Step[k][s[k - 1]]
    <2> HIDE DEF Step
    <2> QED
      BY <1>1, <1>4, RecursionExists
  <1>6. Eq(s)
    <2>1. ASSUME NEW k \in 1 .. N PROVE s[k] = Go(s[k - 1], k)
      <3>1. k - 1 \in 0 .. N
        BY <1>1
      <3>2. s[k - 1] \in X
        BY <3>1
      <3>3. Step[k][s[k - 1]] = Go(s[k - 1], k)
        BY <3>2
      <3> HIDE DEF Step
      <3> QED
        BY <1>5, <3>3
    <2> QED
      BY <1>1, <1>5, <2>1
  <1>7. Eq(e)
    <2> HIDE DEF Eq
    <2> QED
      BY <1>6, Zenon
  <1> HIDE DEF e
  <1>8. e[0] = a /\ \A k \in 1 .. N : e[k] = Go(e[k - 1], k)
    BY <1>1, <1>7
  <1>9. \A k \in 0 .. N : e[k] \in X
    <2>1. \A k \in 1 .. N : e[k - 1] \in X => e[k] \in X
      BY <1>2, <1>8
    <2> QED
      BY <1>1, <1>8, <2>1, RecursionStays
  <1>10. e \in [0 .. N -> X]
    BY <1>7, <1>9
  <1> QED
    BY <1>3, <1>8, <1>10 DEF N, X, a, Go

\* The state of rspUnescape after a character.
UnescapedChar(before, c) ==
    IF before.esc THEN [out |-> Append(before.out, Unescaped(c)), esc |-> FALSE]
    ELSE IF c = Escape THEN [out |-> before.out, esc |-> TRUE]
    ELSE [out |-> Append(before.out, c), esc |-> FALSE]

\* rspUnescape, character after character.
LEMMA UnescapeSteps ==
  ASSUME NEW buf \in Seq(Bytes)
  PROVE  \E u \in [0 .. Len(buf) -> [out : Seq(Bytes), esc : BOOLEAN]] :
           /\ rspUnescape(buf) = u[Len(buf)].out
           /\ u[0] = [out |-> <<>>, esc |-> FALSE]
           /\ \A n \in 1 .. Len(buf) : u[n] = UnescapedChar(u[n - 1], buf[n])
  <1> DEFINE N == Len(buf)
             X == [out : Seq(Bytes), esc : BOOLEAN]
             a == [out |-> <<>>, esc |-> FALSE]
             Go(x, n) == UnescapedChar(x, buf[n])
             Step == [n \in 1 .. N |-> [x \in X |-> Go(x, n)]]
             Eq(f) == f = [n \in 0 .. N |-> IF n = 0 THEN a ELSE Go(f[n - 1], n)]
             u == CHOOSE f : Eq(f)
  <1>1. N \in Nat /\ a \in X
    OBVIOUS
  <1>2. \A n \in 1 .. N, x \in X : Go(x, n) \in X
    <2>1. ASSUME NEW n \in 1 .. N, NEW x \in X PROVE Go(x, n) \in X
      <3>1. Unescaped(buf[n]) \in Bytes /\ buf[n] \in Bytes
        BY FlipBack DEF Unescaped
      <3> QED
        BY <3>1 DEF UnescapedChar
    <2> QED
      BY <2>1
  <1>3. rspUnescape(buf) = u[N].out
    BY Zenon DEF rspUnescape, UnescapedChar
  <1> HIDE DEF N, X, a, Go
  <1>4. Step \in [1 .. N -> [X -> X]]
    BY <1>2
  <1>5. PICK s \in [0 .. N -> X] :
          s[0] = a /\ \A k \in 1 .. N : s[k] = Step[k][s[k - 1]]
    <2> HIDE DEF Step
    <2> QED
      BY <1>1, <1>4, RecursionExists
  <1>6. Eq(s)
    <2>1. ASSUME NEW k \in 1 .. N PROVE s[k] = Go(s[k - 1], k)
      <3>1. k - 1 \in 0 .. N
        BY <1>1
      <3>2. s[k - 1] \in X
        BY <3>1
      <3>3. Step[k][s[k - 1]] = Go(s[k - 1], k)
        BY <3>2
      <3> HIDE DEF Step
      <3> QED
        BY <1>5, <3>3
    <2> QED
      BY <1>1, <1>5, <2>1
  <1>7. Eq(u)
    <2> HIDE DEF Eq
    <2> QED
      BY <1>6, Zenon
  <1> HIDE DEF u
  <1>8. u[0] = a /\ \A k \in 1 .. N : u[k] = Go(u[k - 1], k)
    BY <1>1, <1>7
  <1>9. \A k \in 0 .. N : u[k] \in X
    <2>1. \A k \in 1 .. N : u[k - 1] \in X => u[k] \in X
      BY <1>2, <1>8
    <2> QED
      BY <1>1, <1>8, <2>1, RecursionStays
  <1>10. u \in [0 .. N -> X]
    BY <1>7, <1>9
  <1> QED
    BY <1>3, <1>8, <1>10 DEF N, X, a, Go

\* rspUnescape gives back the bytes the client escaped.
LEMMA EscapeBack ==
  ASSUME NEW bytes \in Seq(Bytes)
  PROVE  Escaped(bytes) \in Seq(Bytes) /\ rspUnescape(Escaped(bytes)) = bytes
  <1> DEFINE N == Len(bytes)
  <1>1. N \in Nat
    OBVIOUS
  <1>2. PICK e \in [0 .. N -> Seq(Bytes)] :
           /\ Escaped(bytes) = e[N] /\ e[0] = <<>>
           /\ \A n \in 1 .. N : e[n] = e[n - 1] \o EscapedByte(bytes[n])
    BY EscapedSteps
  <1> DEFINE buf == e[N]
             M == Len(buf)
  <1>3. buf \in Seq(Bytes) /\ M \in Nat
    BY <1>1
  <1>4. PICK u \in [0 .. M -> [out : Seq(Bytes), esc : BOOLEAN]] :
           /\ rspUnescape(buf) = u[M].out
           /\ u[0] = [out |-> <<>>, esc |-> FALSE]
           /\ \A n \in 1 .. M : u[n] = UnescapedChar(u[n - 1], buf[n])
    <2> HIDE DEF buf
    <2> QED
      BY <1>3, UnescapeSteps
  <1> HIDE DEF N
  \* the text of the first n bytes is the beginning of the text of all
  <1> DEFINE Begins(n) == Len(e[n]) <= M /\ \A k \in 1 .. Len(e[n]) : buf[k] = e[n][k]
             E(n) == EscapedByte(bytes[n])
  <1>5. ASSUME NEW n \in 1 .. N
        PROVE  /\ n - 1 \in 0 .. N /\ e[n - 1] \in Seq(Bytes) /\ bytes[n] \in Bytes
               /\ E(n) \in Seq(Bytes) /\ e[n] = e[n - 1] \o E(n)
    <2>1. n - 1 \in 0 .. N /\ bytes[n] \in Bytes
      BY <1>1 DEF N
    <2>2. E(n) \in Seq(Bytes)
      BY <2>1, FlipBack DEF EscapedByte
    <2> QED
      BY <1>2, <2>1, <2>2
  <1>6. \A n \in 0 .. N : Begins(n)
    <2> DEFINE T == {m \in 0 .. N : Begins(N - m)}
    <2>1. 0 \in T
      BY <1>1, <1>3
    <2>2. ASSUME NEW m \in 0 .. N - 1, m \in T PROVE m + 1 \in T
      <3> DEFINE n == N - m
      <3>1. n \in 1 .. N /\ N - (m + 1) = n - 1 /\ m + 1 \in 0 .. N
        BY <1>1
      <3>2. Begins(n)
        BY <2>2
      <3> HIDE DEF n
      <3>3. e[n - 1] \in Seq(Bytes) /\ E(n) \in Seq(Bytes) /\ e[n] = e[n - 1] \o E(n)
        BY <1>5, <3>1
      <3> HIDE DEF E, buf
      <3>4. Len(e[n]) = Len(e[n - 1]) + Len(E(n))
            /\ \A k \in 1 .. Len(e[n - 1]) : e[n][k] = e[n - 1][k]
        BY <3>3
      <3>5. Begins(n - 1)
        BY <1>3, <3>2, <3>3, <3>4
      <3> QED
        BY <3>1, <3>5
    <2>3. \A m \in 0 .. N : m \in T
      <3> HIDE DEF T
      <3> QED
        BY <1>1, <2>1, <2>2, InductionUpTo
    <2>4. ASSUME NEW n \in 0 .. N PROVE Begins(n)
      <3>1. N - n \in 0 .. N /\ N - (N - n) = n
        BY <1>1
      <3> QED
        BY <2>3, <3>1
    <2> QED
      BY <2>4
  \* at the end of it rspUnescape has these bytes
  <1> DEFINE Done(n) == u[Len(e[n])] = [out |-> SubSeq(bytes, 1, n), esc |-> FALSE]
  <1>7. \A n \in 0 .. N : Done(n)
    <2> DEFINE T == {n \in 0 .. N : Done(n)}
    <2>1. 0 \in T
      <3>1. 0 \in 0 .. N /\ Len(e[0]) = 0
        BY <1>1, <1>2
      <3>2. SubSeq(bytes, 1, 0) = <<>>
        OBVIOUS
      <3>3. Done(0)
        BY <1>4, <3>1, <3>2
      <3> QED
        BY <3>1, <3>3
    <2>2. ASSUME NEW m \in 0 .. N - 1, m \in T PROVE m + 1 \in T
      <3> DEFINE n == m + 1
                 L == Len(e[m])
                 b == bytes[n]
                 before == SubSeq(bytes, 1, m)
      <3>1. n \in 1 .. N /\ n - 1 = m /\ n \in 0 .. N /\ m \in 0 .. N
        BY <1>1
      <3>2. b \in Bytes /\ e[m] \in Seq(Bytes) /\ E(n) \in Seq(Bytes) /\ e[n] = e[m] \o E(n)
        BY <1>5, <3>1
      <3>3. L \in Nat /\ Len(e[n]) = L + Len(E(n))
            /\ \A j \in 1 .. Len(E(n)) : e[n][L + j] = E(n)[j]
        <4> HIDE DEF E, n
        <4> QED
          BY <3>2
      <3>4. Append(before, b) = SubSeq(bytes, 1, n) /\ before \in Seq(Bytes)
        BY <3>1 DEF N
      <3>5. u[L] = [out |-> before, esc |-> FALSE]
        BY <2>2
      <3>6. Begins(n)
        BY <1>6, <3>1
      <3> HIDE DEF buf, L, before
      <3>7. CASE b \in MustEscape
        <4>1. E(n) = <<Escape, Flip(b)>>
          BY <3>7 DEF EscapedByte
        <4>2. Len(e[n]) = L + 2 /\ e[n][L + 1] = Escape /\ e[n][L + 2] = Flip(b)
          BY <3>3, <4>1
        <4>3. /\ L + 1 \in 1 .. M /\ L + 2 \in 1 .. M
              /\ buf[L + 1] = Escape /\ buf[L + 2] = Flip(b)
          BY <1>3, <3>3, <3>6, <4>2
        <4>4. (L + 1) - 1 = L /\ (L + 2) - 1 = L + 1
          BY <3>3
        <4>5. u[L + 1] = UnescapedChar(u[L], Escape)
          BY <1>4, <4>3, <4>4
        <4>6. u[L + 1] = [out |-> before, esc |-> TRUE]
          BY <3>5, <4>5 DEF UnescapedChar
        <4>7. u[L + 2] = UnescapedChar(u[L + 1], Flip(b))
          BY <1>4, <4>3, <4>4
        <4>8. u[L + 2] = [out |-> Append(before, b), esc |-> FALSE]
          <5>1. Flip(Flip(b)) = b
            BY <3>2, FlipBack
          <5>2. u[L + 2] = [out |-> Append(before, Flip(Flip(b))), esc |-> FALSE]
            BY <4>6, <4>7 DEF UnescapedChar, Unescaped
          <5> QED
            BY <5>1, <5>2
        <4>9. Done(n)
          BY <3>4, <4>2, <4>8
        <4> QED
          BY <3>1, <4>9
      <3>8. CASE b \notin MustEscape
        <4>1. E(n) = <<b>> /\ b # Escape
          BY <3>2, <3>8, FlipBack DEF EscapedByte
        <4>2. Len(e[n]) = L + 1 /\ e[n][L + 1] = b
          BY <3>3, <4>1
        <4>3. L + 1 \in 1 .. M /\ buf[L + 1] = b /\ (L + 1) - 1 = L
          BY <1>3, <3>3, <3>6, <4>2
        <4>4. u[L + 1] = UnescapedChar(u[L], b)
          BY <1>4, <4>3
        <4>5. u[L + 1] = [out |-> Append(before, b), esc |-> FALSE]
          BY <3>5, <4>1, <4>4 DEF UnescapedChar
        <4>6. Done(n)
          BY <3>4, <4>2, <4>5
        <4> QED
          BY <3>1, <4>6
      <3> QED
        BY <3>7, <3>8
    <2>3. \A n \in 0 .. N : n \in T
      <3> HIDE DEF T
      <3> QED
        BY <1>1, <2>1, <2>2, InductionUpTo
    <2> QED
      BY <2>3
  <1>8. u[M] = [out |-> SubSeq(bytes, 1, N), esc |-> FALSE]
    <2>1. N \in 0 .. N
      BY <1>1
    <2>2. Done(N)
      BY <1>7, <2>1
    <2> QED
      BY <2>2
  <1>9. SubSeq(bytes, 1, N) = bytes
    BY DEF N
  <1> QED
    BY <1>2, <1>3, <1>4, <1>8, <1>9

-----------------------------------------------------------------------------
\* Registers in a packet

LEMMA SeqOfFunction ==
  ASSUME NEW S, NEW n \in Nat, NEW s \in [1 .. n -> S]
  PROVE  s \in Seq(S) /\ Len(s) = n
  OBVIOUS

\* Slot i of m slots of width w lies inside, and its end is the start of the
\* next.
LEMMA Slots ==
  \A w \in Nat, m \in Nat : \A i \in 0 .. m - 1 :
    w * i \in Nat /\ w * (i + 1) = w * i + w /\ w * i + w <= w * m
  BY SMT

LEMMA SlotsOrdered ==
  \A w \in Nat \ {0}, m \in Nat, i \in Nat : w * (i + 1) <= w * m => i < m
  BY SMT

Digits == 0 .. HexBase - 1

\* The digits of a word are as many as are asked for.
LEMMA WordDigits ==
  ASSUME NEW v \in Words, NEW n \in 0 .. RegBytes
  PROVE  regVal2Hex(v, n) \in Seq(Digits) /\ Len(regVal2Hex(v, n)) = 2 * n
  <1>1. regVal2Hex(v, n) \in [1 .. 2 * n -> Digits]
    BY regVal2HexDigits DEF Digits
  <1>2. 2 * n \in Nat
    BY MemoryAssumption
  <1> QED
    BY <1>1, <1>2, SeqOfFunction

\* hex2RegVal makes a word of any digits.
LEMMA WordOfDigits ==
  ASSUME NEW buf, \A k \in 1 .. 2 * RegBytes : buf[k] \in Digits
  PROVE  hex2RegVal(buf, RegBytes) \in Words
  <1> DEFINE R == RegBytes
             X == Nat
             a == 0
             B(n) == ByteOf(buf, R - n)
             Go(x, n) == x * ByteMod + B(n)
             Step == [n \in 1 .. R |-> [x \in X |-> Go(x, n)]]
             Eq(f) == f = [n \in 0 .. R |-> IF n = 0 THEN a ELSE Go(f[n - 1], n)]
             val == CHOOSE f : Eq(f)
  <1>1. R \in Nat /\ a \in X /\ ByteMod \in Nat \ {0}
    BY MemoryAssumption, ByteModType
  <1>2. ASSUME NEW n \in 1 .. R PROVE B(n) \in 0 .. ByteMod - 1
    <2> DEFINE d == buf[2 * (R - n) + 1]
               e == buf[2 * (R - n) + 2]
    <2>1. 2 * (R - n) + 1 \in 1 .. 2 * R /\ 2 * (R - n) + 2 \in 1 .. 2 * R
      BY <1>1
    <2>2. d \in 0 .. HexBase - 1 /\ e \in 0 .. HexBase - 1 /\ HexBase \in Nat \ {0}
      BY <2>1, ByteModType DEF Digits
    <2>3. B(n) = d * HexBase + e
      BY DEF ByteOf
    <2> HIDE DEF d, e, B
    <2>4. d * HexBase \in Nat /\ d * HexBase <= (HexBase - 1) * HexBase
          /\ (HexBase - 1) * HexBase = HexBase * HexBase - HexBase
      BY <2>2
    <2> QED
      BY <2>2, <2>3, <2>4 DEF ByteMod
  <1>3. hex2RegVal(buf, R) = val[R]
    BY Zenon DEF hex2RegVal
  <1>4. \A n \in 1 .. R, x \in X : Go(x, n) \in X
    <2> HIDE DEF B
    <2> QED
      BY <1>1, <1>2
  <1> HIDE DEF R, Go, a, X, B
  <1>5. Step \in [1 .. R -> [X -> X]]
    BY <1>4
  <1>6. PICK s \in [0 .. R -> X] :
          s[0] = a /\ \A k \in 1 .. R : s[k] = Step[k][s[k - 1]]
    <2> HIDE DEF Step
    <2> QED
      BY <1>1, <1>5, RecursionExists
  <1>7. Eq(s)
    <2>1. ASSUME NEW k \in 1 .. R PROVE s[k] = Go(s[k - 1], k)
      <3>1. k - 1 \in 0 .. R
        BY <1>1
      <3>2. s[k - 1] \in X
        BY <3>1
      <3>3. Step[k][s[k - 1]] = Go(s[k - 1], k)
        BY <3>2
      <3> HIDE DEF Step
      <3> QED
        BY <1>6, <3>3
    <2> QED
      BY <1>1, <1>6, <2>1
  <1>8. Eq(val)
    <2> HIDE DEF Eq
    <2> QED
      BY <1>7, Zenon
  <1> HIDE DEF val
  <1>9. val[0] = a /\ \A k \in 1 .. R : val[k] = Go(val[k - 1], k)
    BY <1>1, <1>8
  <1> DEFINE T == {n \in 0 .. R : val[n] \in 0 .. Place[n] - 1}
  <1>10. 0 \in T
    BY <1>1, <1>9, PlaceType DEF a
  <1>11. ASSUME NEW k \in 0 .. R - 1, k \in T PROVE k + 1 \in T
    <2> DEFINE n == k + 1
               b == B(n)
               p == Place[n - 1]
               w == val[n - 1]
    <2>1. n \in 1 .. R /\ n \in 0 .. R /\ n - 1 = k /\ n - 1 \in 0 .. R
      BY <1>1
    <2>2. b \in 0 .. ByteMod - 1 /\ p \in Nat \ {0} /\ Place[n] = ByteMod * p
      BY <1>2, <2>1, PlaceType DEF R
    <2>3. val[n] = w * ByteMod + b
      BY <1>9, <2>1 DEF Go
    <2>4. w \in 0 .. p - 1
      BY <1>11, <2>1
    <2> HIDE DEF b, p, w, n
    <2>5. w * ByteMod <= (p - 1) * ByteMod /\ (p - 1) * ByteMod = ByteMod * p - ByteMod
          /\ w * ByteMod \in Nat /\ ByteMod * p \in Nat
      BY <1>1, <2>2, <2>4
    <2>6. w * ByteMod + b \in 0 .. ByteMod * p - 1
      BY <1>1, <2>2, <2>5
    <2> QED
      BY <2>1, <2>2, <2>3, <2>6 DEF n
  <1>12. R \in T
    <2> HIDE DEF T
    <2>1. \A k \in 0 .. R : k \in T
      BY <1>1, <1>10, <1>11, InductionUpTo
    <2> QED
      BY <1>1, <2>1
  <1> QED
    BY <1>3, <1>12 DEF Words, R

\* rspReadAllRegs, register after register.
LEMMA ReadAllRegsSteps ==
  ASSUME TypeOK
  PROVE  \E s \in [0 .. NumRegs -> Seq(Digits)] :
           /\ rspReadAllRegs = s[NumRegs] /\ s[0] = <<>>
           /\ \A r \in 1 .. NumRegs :
                s[r] = AddData(s[r - 1], regVal2Hex(regs[r - 1], regSize[r - 1]))
  <1> DEFINE N == NumRegs
             X == Seq(Digits)
             a == <<>>
             Go(x, r) == AddData(x, regVal2Hex(regs[r - 1], regSize[r - 1]))
             Step == [r \in 1 .. N |-> [x \in X |-> Go(x, r)]]
             Eq(f) == f = [r \in 0 .. N |-> IF r = 0 THEN a ELSE Go(f[r - 1], r)]
             res == CHOOSE f : Eq(f)
  <1>1. N \in Nat /\ a \in X
    BY MemoryAssumption
  <1>2. \A r \in 1 .. N, x \in X : Go(x, r) \in X
    <2>1. ASSUME NEW r \in 1 .. N PROVE regVal2Hex(regs[r - 1], regSize[r - 1]) \in X
      <3>1. r - 1 \in Regs
        BY <1>1 DEF Regs
      <3>2. regs[r - 1] \in Words /\ regSize[r - 1] \in 0 .. RegBytes
        BY <3>1, MemoryAssumption DEF TypeOK
      <3> QED
        BY <3>2, WordDigits
    <2> QED
      BY <2>1 DEF AddData
  <1>3. rspReadAllRegs = res[N]
    BY Zenon DEF rspReadAllRegs
  <1> HIDE DEF N, X, a, Go
  <1>4. Step \in [1 .. N -> [X -> X]]
    BY <1>2
  <1>5. PICK s \in [0 .. N -> X] :
          s[0] = a /\ \A k \in 1 .. N : s[k] = Step[k][s[k - 1]]
    <2> HIDE DEF Step
    <2> QED
      BY <1>1, <1>4, RecursionExists
  <1>6. Eq(s)
    <2>1. ASSUME NEW k \in 1 .. N PROVE s[k] = Go(s[k - 1], k)
      <3>1. k - 1 \in 0 .. N
        BY <1>1
      <3>2. s[k - 1] \in X
        BY <3>1
      <3>3. Step[k][s[k - 1]] = Go(s[k - 1], k)
        BY <3>2
      <3> HIDE DEF Step
      <3> QED
        BY <1>5, <3>3
    <2> QED
      BY <1>1, <1>5, <2>1
  <1>7. Eq(res)
    <2> HIDE DEF Eq
    <2> QED
      BY <1>6, Zenon
  <1> HIDE DEF res
  <1>8. res[0] = a /\ \A k \in 1 .. N : res[k] = Go(res[k - 1], k)
    BY <1>1, <1>7
  <1>9. \A k \in 0 .. N : res[k] \in X
    <2>1. \A k \in 1 .. N : res[k - 1] \in X => res[k] \in X
      BY <1>2, <1>8
    <2> QED
      BY <1>1, <1>8, <2>1, RecursionStays
  <1>10. res \in [0 .. N -> X]
    BY <1>7, <1>9
  <1> QED
    BY <1>3, <1>8, <1>10 DEF N, X, a, Go

\* The reply to g is whole bytes and fits in the buffer.
LEMMA AllRegsFit ==
  ASSUME TypeOK
  PROVE  /\ rspReadAllRegs \in Seq(Digits)
         /\ Len(rspReadAllRegs) <= bufSize /\ Len(rspReadAllRegs) % 2 = 0
  <1> DEFINE N == NumRegs
             Text(i) == regVal2Hex(regs[i], regSize[i])
  <1>1. N \in Nat /\ bufSize \in Nat
    BY MemoryAssumption DEF TypeOK
  <1>2. PICK s \in [0 .. N -> Seq(Digits)] :
          /\ rspReadAllRegs = s[N] /\ s[0] = <<>>
          /\ \A r \in 1 .. N : s[r] = AddData(s[r - 1], Text(r - 1))
    BY ReadAllRegsSteps
  <1>3. ASSUME NEW i \in 0 .. N - 1
        PROVE  Text(i) \in Seq(Digits) /\ \E n \in Nat : Len(Text(i)) = 2 * n
    <2>1. regs[i] \in Words /\ regSize[i] \in 0 .. RegBytes /\ regSize[i] \in Nat
      BY MemoryAssumption DEF TypeOK, Regs
    <2> QED
      BY <2>1, WordDigits
  <1> HIDE DEF N, Text
  <1> DEFINE Fits(t) == Len(t) <= bufSize /\ \E n \in Nat : Len(t) = 2 * n
             T == {r \in 0 .. N : Fits(s[r])}
  <1>4. 0 \in T
    <2>1. 0 \in 0 .. N /\ Len(s[0]) = 2 * 0 /\ 2 * 0 <= bufSize /\ 0 \in Nat
      BY <1>1, <1>2
    <2>2. Fits(s[0])
      BY <2>1
    <2> QED
      BY <2>1, <2>2
  <1>5. ASSUME NEW q \in 0 .. N - 1, q \in T PROVE q + 1 \in T
    <2> DEFINE r == q + 1
               t == s[q]
               u == Text(q)
    <2>1. r \in 1 .. N /\ r \in 0 .. N /\ r - 1 = q /\ q \in 0 .. N
      BY <1>1
    <2>2. Fits(t) /\ t \in Seq(Digits) /\ u \in Seq(Digits) /\ s[r] = AddData(t, u)
      BY <1>2, <1>3, <1>5, <2>1
    <2>3. PICK n \in Nat : Len(t) = 2 * n
      BY <2>2
    <2>4. PICK k \in Nat : Len(u) = 2 * k
      BY <1>3
    <2> HIDE DEF t, u
    <2>5. Fits(AddData(t, u))
      <3>1. CASE Len(t) + Len(u) > bufSize
        BY <2>2, <3>1 DEF AddData
      <3>2. CASE ~(Len(t) + Len(u) > bufSize)
        <4>1. AddData(t, u) = t \o u
          BY <3>2 DEF AddData
        <4>2. t \in Seq(Digits) /\ u \in Seq(Digits)
          BY <2>2
        <4>3. Len(t \o u) = Len(t) + Len(u) /\ Len(t) \in Nat /\ Len(u) \in Nat
          BY <4>2
        <4>4. n + k \in Nat /\ 2 * n + 2 * k = 2 * (n + k)
          OBVIOUS
        <4>5. Len(t \o u) = 2 * (n + k) /\ Len(t \o u) <= bufSize
          BY <1>1, <2>3, <2>4, <3>2, <4>3, <4>4
        <4>6. Fits(t \o u)
          BY <4>4, <4>5
        <4> QED
          BY <4>1, <4>6
      <3> QED
        BY <3>1, <3>2
    <2> HIDE DEF Fits
    <2> QED
      BY <2>1, <2>2, <2>5
  <1>6. N \in T
    <2> HIDE DEF T
    <2>1. \A k \in 0 .. N : k \in T
      BY <1>1, <1>4, <1>5, InductionUpTo
    <2> QED
      BY <1>1, <2>1
  <1>7. PICK n \in Nat : Len(s[N]) = 2 * n
    BY <1>6
  <1>8. Len(s[N]) % 2 = 0
    BY <1>7, Halves
  <1>9. s[N] \in Seq(Digits)
    BY <1>1
  <1> QED
    BY <1>2, <1>6, <1>8, <1>9

\* If the registers are all of one size, the reply to g has the digits of the
\* first m of them one after the other.
LEMMA AllRegsReply ==
  ASSUME TypeOK, Uniform
  PROVE  /\ rspReadAllRegs \in Seq(Digits)
         /\ \E m \in 0 .. NumRegs :
              /\ Len(rspReadAllRegs) = (2 * RegBytes) * m
              /\ (2 * RegBytes) * m <= bufSize
              /\ \A i \in 0 .. m - 1 : \A k \in 1 .. 2 * RegBytes :
                   rspReadAllRegs[(2 * RegBytes) * i + k] = regVal2Hex(regs[i], RegBytes)[k]
  <1> DEFINE N == NumRegs
             W == 2 * RegBytes
             Text(i) == regVal2Hex(regs[i], RegBytes)
  <1>1. N \in Nat /\ W \in Nat \ {0} /\ bufSize \in Nat
    BY MemoryAssumption DEF TypeOK
  <1>2. PICK s \in [0 .. N -> Seq(Digits)] :
          /\ rspReadAllRegs = s[N] /\ s[0] = <<>>
          /\ \A r \in 1 .. N : s[r] = AddData(s[r - 1], Text(r - 1))
    <2>1. PICK s \in [0 .. N -> Seq(Digits)] :
            /\ rspReadAllRegs = s[N] /\ s[0] = <<>>
            /\ \A r \in 1 .. N : s[r] = AddData(s[r - 1], regVal2Hex(regs[r - 1], regSize[r - 1]))
      BY ReadAllRegsSteps
    <2>2. ASSUME NEW r \in 1 .. N PROVE regSize[r - 1] = RegBytes
      <3>1. r - 1 \in Regs
        BY <1>1 DEF Regs
      <3> QED
        BY <3>1 DEF Uniform
    <2> QED
      BY <2>1, <2>2
  <1>3. \A i \in 0 .. N - 1 : Text(i) \in Seq(Digits) /\ Len(Text(i)) = W
    <2>1. ASSUME NEW i \in 0 .. N - 1 PROVE regs[i] \in Words
      BY DEF TypeOK, Regs
    <2>2. RegBytes \in 0 .. RegBytes
      BY MemoryAssumption
    <2> QED
      BY <2>1, <2>2, WordDigits
  <1> HIDE DEF N, W, Text
  <1> DEFINE Has(t, r, m) ==
               /\ Len(t) = W * m /\ W * m <= bufSize
               /\ m < r => W * (m + 1) > bufSize
               /\ \A i \in 0 .. m - 1 : \A k \in 1 .. W : t[W * i + k] = Text(i)[k]
             T == {r \in 0 .. N : \E m \in 0 .. r : Has(s[r], r, m)}
  <1>4. 0 \in T
    <2>1. Has(s[0], 0, 0) /\ 0 \in 0 .. 0 /\ 0 \in 0 .. N
      BY <1>1, <1>2
    <2> HIDE DEF Has
    <2> QED
      BY <2>1
  <1>5. ASSUME NEW q \in 0 .. N - 1, q \in T PROVE q + 1 \in T
    <2> DEFINE r == q + 1
               t == s[q]
    <2>1. r \in 1 .. N /\ r \in 0 .. N /\ r - 1 = q /\ q \in 0 .. N /\ q \in Nat
      BY <1>1
    <2>2. PICK m \in 0 .. q : Has(t, q, m)
      BY <1>5
    <2>3. t \in Seq(Digits) /\ Text(q) \in Seq(Digits) /\ Len(Text(q)) = W
          /\ s[r] = AddData(t, Text(q))
      BY <1>2, <1>3, <2>1
    <2>4. m \in Nat /\ W * m \in Nat /\ W * (m + 1) = W * m + W
      BY <1>1, <2>1
    <2> HIDE DEF r, t
    <2>5. CASE W * m + W > bufSize
      <3>1. s[r] = t
        BY <2>2, <2>3, <2>5 DEF AddData
      <3>2. Has(s[r], r, m) /\ m \in 0 .. r
        BY <2>1, <2>2, <2>4, <2>5, <3>1
      <3> HIDE DEF Has
      <3> QED
        BY <2>1, <3>2 DEF r
    <2>6. CASE W * m + W <= bufSize
      <3>1. m = q
        BY <1>1, <2>1, <2>2, <2>4, <2>6
      <3>2. s[r] = t \o Text(q) /\ Len(t) = W * m
        BY <1>1, <2>2, <2>3, <2>4, <2>6 DEF AddData
      <3>3. /\ Len(s[r]) = W * (m + 1)
            /\ \A k \in 1 .. W * m : s[r][k] = t[k]
            /\ \A k \in 1 .. W : s[r][W * m + k] = Text(q)[k]
        <4> DEFINE wm == W * m
        <4>1. wm \in Nat /\ Len(t) = wm /\ W * (m + 1) = wm + W
          BY <2>4, <3>2
        <4> HIDE DEF wm
        <4>2. /\ Len(t \o Text(q)) = Len(t) + Len(Text(q))
              /\ \A k \in 1 .. Len(t) : (t \o Text(q))[k] = t[k]
              /\ \A k \in 1 .. Len(Text(q)) : (t \o Text(q))[Len(t) + k] = Text(q)[k]
          <5>1. t \in Seq(Digits) /\ Text(q) \in Seq(Digits)
            BY <2>3
          <5> QED
            BY <5>1
        <4>3. /\ Len(s[r]) = wm + W
              /\ \A k \in 1 .. wm : s[r][k] = t[k]
              /\ \A k \in 1 .. W : s[r][wm + k] = Text(q)[k]
          BY <2>3, <3>2, <4>1, <4>2, Zenon
        <4> QED
          BY <4>1, <4>3 DEF wm
      <3>4. ASSUME NEW i \in 0 .. m, NEW k \in 1 .. W
            PROVE  s[r][W * i + k] = Text(i)[k]
        <4>1. CASE i = m
          BY <3>1, <3>3, <4>1
        <4>2. CASE i # m
          <5>1. i \in 0 .. m - 1
            BY <2>4, <4>2
          <5>2. W * i \in Nat /\ W * i + W <= W * m
            BY <1>1, <2>4, <5>1, Slots
          <5>3. W * i + k \in 1 .. W * m
            <6> DEFINE wi == W * i
                       wm == W * m
            <6>1. wi \in Nat /\ wm \in Nat /\ wi + W <= wm
              BY <2>4, <5>2
            <6> HIDE DEF wi, wm
            <6>2. wi + k \in 1 .. wm
              BY <1>1, <6>1
            <6> QED
              BY <6>2 DEF wi, wm
          <5> QED
            BY <2>2, <3>3, <5>1, <5>3
        <4> QED
          BY <4>1, <4>2
      <3>5. m + 1 \in 0 .. r /\ ~(m + 1 < r) /\ (m + 1) - 1 = m
        BY <2>1, <2>4, <3>1
      <3>6. Has(s[r], r, m + 1)
        BY <2>4, <2>6, <3>3, <3>4, <3>5
      <3> HIDE DEF Has
      <3> QED
        BY <2>1, <3>5, <3>6 DEF r
    <2> QED
      BY <1>1, <2>4, <2>5, <2>6
  <1>6. N \in T
    <2> HIDE DEF T
    <2>1. \A k \in 0 .. N : k \in T
      BY <1>1, <1>4, <1>5, InductionUpTo
    <2> QED
      BY <1>1, <2>1
  <1>7. s[N] \in Seq(Digits)
    BY <1>1
  <1>8. PICK m \in 0 .. N : Has(s[N], N, m)
    BY <1>6
  <1> QED
    BY <1>2, <1>7, <1>8 DEF N, W, Text

\* The place of register r in the data of a G packet has its digits.
LEMMA AllRegsBack ==
  ASSUME NEW new \in [Regs -> Words], NEW r \in Regs, NEW pktData,
         pktData = [k \in 1 .. 2 * RegBytes * NumRegs |->
                      regVal2Hex(new[(k - 1) \div (2 * RegBytes)], RegBytes)
                        [((k - 1) % (2 * RegBytes)) + 1]]
  PROVE  hex2RegVal(SubSeq(pktData, 2 * RegBytes * r + 1, Len(pktData)), RegBytes) = new[r]
  <1> DEFINE W == 2 * RegBytes
             N == NumRegs
             Text(i) == regVal2Hex(new[i], RegBytes)
             buf == SubSeq(pktData, W * r + 1, Len(pktData))
  <1>1. W \in Nat \ {0} /\ N \in Nat /\ r \in 0 .. N - 1 /\ r \in Nat
    BY MemoryAssumption DEF Regs
  <1>2. pktData = [k \in 1 .. W * N |-> Text((k - 1) \div W)[((k - 1) % W) + 1]]
    OBVIOUS
  <1> HIDE DEF W, N, Text
  <1>3. W * r \in Nat /\ W * r + W <= W * N /\ W * N \in Nat
    BY <1>1, Slots
  <1>4. ASSUME NEW k \in 1 .. W PROVE buf[k] = Text(r)[k]
    <2> DEFINE wr == W * r
               wn == W * N
               S == {Text((j - 1) \div W)[((j - 1) % W) + 1] : j \in 1 .. wn}
    <2>1. wr \in Nat /\ wn \in Nat /\ wr + W <= wn
      BY <1>3
    <2>2. pktData \in Seq(S) /\ Len(pktData) = wn
      <3>1. pktData \in [1 .. wn -> S]
        BY <1>2
      <3> HIDE DEF S, wn
      <3> QED
        BY <2>1, <3>1, SeqOfFunction
    <2> HIDE DEF S
    <2>3. wr + k \in 1 .. wn /\ (wr + k) - 1 = wr + (k - 1) /\ k - 1 \in 0 .. W - 1
      <3> HIDE DEF wr, wn
      <3> QED
        BY <1>1, <2>1
    <2>4. buf[k] = pktData[wr + k]
      <3> HIDE DEF wr, wn
      <3>1. SubSeq(pktData, wr + 1, wn)[k] = pktData[wr + k]
        BY <1>1, <2>1, <2>2, <2>3
      <3> QED
        BY <2>2, <3>1 DEF wr
    <2>5. (W * r + (k - 1)) \div W = r /\ (W * r + (k - 1)) % W = k - 1
      BY <1>1, <2>3, DivUnique
    <2>6. pktData[wr + k] = Text(((wr + k) - 1) \div W)[(((wr + k) - 1) % W) + 1]
      BY <1>2, <2>3
    <2> HIDE DEF buf
    <2>7. ((wr + k) - 1) \div W = r /\ (((wr + k) - 1) % W) + 1 = k
      <3>1. ((wr + k) - 1) \div W = r /\ ((wr + k) - 1) % W = k - 1
        BY <2>3, <2>5
      <3>2. (k - 1) + 1 = k
        OBVIOUS
      <3> QED
        BY <3>1, <3>2
    <2> QED
      BY <2>4, <2>6, <2>7
  <1>5. new[r] \in Words
    OBVIOUS
  <1> HIDE DEF buf
  <1>6. hex2RegVal(buf, RegBytes) = new[r]
    BY <1>4, <1>5, WordBack DEF W, Text
  <1> QED
    BY <1>6 DEF buf, W

-----------------------------------------------------------------------------
\* Arguments of system calls

\* readArgLoc gives the word that the program means: every byte of the memory
\* adds to its own place and to no other.
LEMMA ArgIsWord ==
  ASSUME TypeOK, NEW loc \in ArgLocs, HasArg(loc)
  PROVE  readArgLoc(loc) \in Words /\ IsArg(readArgLoc(loc), loc)
  <1> DEFINE R == RegBytes
             b == regs[loc.reg] + loc.offset
             X == Nat
             a == 0
             Go(x, n) == x + mem[b + n - 1] * Place[n - 1]
             Step == [n \in 1 .. R |-> [x \in X |-> Go(x, n)]]
             Eq(f) == f = [n \in 0 .. R |-> IF n = 0 THEN a ELSE Go(f[n - 1], n)]
             val == CHOOSE f : Eq(f)
  <1>1. loc.reg \in Regs /\ loc.offset \in Nat /\ loc.type \in {"REGISTER", "REGISTER_INDIRECT"}
    BY MemoryAssumption DEF ArgLocTypes
  <1>2. regs[loc.reg] \in Words /\ regs[loc.reg] \in Nat
    BY <1>1 DEF TypeOK, Words
  <1>3. CASE loc.type = "REGISTER"
    BY <1>2, <1>3 DEF readArgLoc, IsArg
  <1>4. CASE loc.type = "REGISTER_INDIRECT"
    <2>1. R \in Nat /\ a \in X /\ b \in Nat /\ b + R <= MemSize /\ MemSize \in Nat
      BY <1>1, <1>2, <1>4, MemoryAssumption DEF HasArg, CanRead
    <2>2. ASSUME NEW n \in 1 .. R
          PROVE  /\ mem[b + n - 1] \in 0 .. ByteMod - 1
                 /\ Place[n - 1] \in Nat \ {0} /\ Place[n] = ByteMod * Place[n - 1]
      <3> HIDE DEF b
      <3>1. b + n - 1 \in Addrs /\ n - 1 \in 0 .. R
        BY <2>1 DEF Addrs
      <3> QED
        BY <3>1, PlaceType DEF TypeOK, Bytes
    <2>3. readArgLoc(loc) = val[R]
      BY <1>4, Zenon DEF readArgLoc
    <2>4. \A n \in 1 .. R, x \in X : Go(x, n) \in X
      <3> HIDE DEF b
      <3> QED
        BY <2>2, ByteModType
    <2> HIDE DEF R, Go, a, X, b
    <2>5. Step \in [1 .. R -> [X -> X]]
      BY <2>4
    <2>6. PICK s \in [0 .. R -> X] :
            s[0] = a /\ \A k \in 1 .. R : s[k] = Step[k][s[k - 1]]
      <3>1. R \in Nat /\ a \in X
        BY <2>1
      <3> HIDE DEF Step
      <3> QED
        BY <2>5, <3>1, RecursionExists
    <2>7. Eq(s)
      <3>1. ASSUME NEW k \in 1 .. R PROVE s[k] = Go(s[k - 1], k)
        <4>1. k - 1 \in 0 .. R
          BY <2>1
        <4>2. s[k - 1] \in X
          BY <4>1
        <4>3. Step[k][s[k - 1]] = Go(s[k - 1], k)
          BY <4>2
        <4> HIDE DEF Step
        <4> QED
          BY <2>6, <4>3
      <3> QED
        BY <2>1, <2>6, <3>1
    <2>8. Eq(val)
      <3> HIDE DEF Eq
      <3> QED
        BY <2>7, Zenon
    <2> HIDE DEF val
    <2>9. val[0] = a /\ \A k \in 1 .. R : val[k] = Go(val[k - 1], k)
      BY <2>1, <2>8
    <2> DEFINE HasBytes(v, n) ==
                 \A i \in 0 .. n - 1 : (v \div Place[i]) % ByteMod = mem[b + i]
               T == {n \in 0 .. R : val[n] \in 0 .. Place[n] - 1 /\ HasBytes(val[n], n)}
    <2>10. 0 \in T
      BY <2>1, <2>9, PlaceType DEF a
    <2>11. ASSUME NEW k \in 0 .. R - 1, k \in T PROVE k + 1 \in T
      <3> DEFINE n == k + 1
                 m == mem[b + n - 1]
                 p == Place[n - 1]
                 w == val[n - 1]
      <3>1. n \in 1 .. R /\ n \in 0 .. R /\ n - 1 = k
        BY <2>1
      <3>2. m \in 0 .. ByteMod - 1 /\ p \in Nat \ {0} /\ Place[n] = ByteMod * p
        BY <2>2, <3>1
      <3>3. val[n] = w + m * p
        BY <2>9, <3>1 DEF Go
      <3>4. w \in 0 .. p - 1
        BY <2>11, <3>1
      <3> HIDE DEF m, p, w, n
      <3>5. ByteMod \in Nat \ {0}
        BY ByteModType
      <3>6. m * p <= (ByteMod - 1) * p /\ (ByteMod - 1) * p = ByteMod * p - p
            /\ m * p \in Nat /\ ByteMod * p \in Nat
        BY <3>2, <3>5
      <3>7. w + m * p \in 0 .. ByteMod * p - 1
        BY <3>2, <3>4, <3>6
      <3>7a. w \in Nat /\ m \in Nat
        BY <3>2, <3>4, <3>5
      <3>8. ASSUME NEW i \in 0 .. k PROVE ((w + m * p) \div Place[i]) % ByteMod = mem[b + i]
        <4>1. CASE i = k
          <5>1. p = Place[i] /\ m = mem[b + i]
            BY <2>1, <3>1, <4>1 DEF p, m, n
          <5>2. (w + p * m) \div p = (w \div p) + m
            BY <3>2, <3>7a, DivAdd
          <5>3. w \div p = 0 /\ m % ByteMod = m /\ w + m * p = w + p * m
            BY <3>2, <3>4, <3>5
          <5>4. (w + m * p) \div p = m
            BY <3>2, <5>2, <5>3
          <5> QED
            BY <5>1, <5>3, <5>4
        <4>2. CASE i # k
          <5> DEFINE g == Place[i]
          <5>1. i \in 0 .. k - 1 /\ k \in 0 .. R /\ i \in 0 .. R
            BY <2>1, <4>2
          <5>2. PICK c \in Nat : Place[k] = g * (ByteMod * c)
            BY <5>1, PlaceMultiple DEF R
          <5>3. g \in Nat \ {0} /\ p = Place[k]
            BY <3>1, <5>1, PlaceType DEF R, p
          <5>4. (w \div g) % ByteMod = mem[b + i]
            BY <2>11, <3>1, <5>1 DEF w
          <5> HIDE DEF g
          <5>5. /\ m * p = g * (ByteMod * (c * m))
                /\ ByteMod * (c * m) \in Nat /\ c * m \in Nat
            BY <3>2, <3>5, <5>2, <5>3
          <5>6. (w + m * p) \div g = (w \div g) + ByteMod * (c * m)
            <6> DEFINE t == ByteMod * (c * m)
            <6>1. t \in Nat /\ m * p = g * t
              BY <5>5
            <6> HIDE DEF t
            <6>2. (w + g * t) \div g = (w \div g) + t
              BY <3>7a, <5>3, <6>1, DivAdd
            <6> QED
              BY <6>1, <6>2 DEF t
          <5>7. w \div g \in Nat
            BY <3>7a, <5>3, DivType, Zenon
          <5>8. ((w \div g) + ByteMod * (c * m)) % ByteMod = (w \div g) % ByteMod
            BY <3>5, <5>5, <5>7, DivAdd
          <5> QED
            BY <5>4, <5>6, <5>8 DEF g
        <4> QED
          BY <4>1, <4>2
      <3>9. HasBytes(val[n], n)
        BY <3>1, <3>3, <3>8
      <3> HIDE DEF HasBytes
      <3> QED
        BY <3>1, <3>2, <3>3, <3>7, <3>9 DEF n
    <2>12. R \in T
      <3>1. R \in Nat
        BY <2>1
      <3> HIDE DEF T
      <3>2. \A k \in 0 .. R : k \in T
        BY <3>1, <2>10, <2>11, InductionUpTo
      <3> QED
        BY <3>1, <3>2
    <2>13. IsArg(val[R], loc)
      <3>1. loc.type # "REGISTER"
        BY <1>4
      <3> QED
        BY <2>12, <3>1 DEF IsArg, R, b
    <2> QED
      BY <2>3, <2>12, <2>13 DEF Words, R
  <1> QED
    BY <1>1, <1>3, <1>4

\* count characters are the string at addr: they are in memory, none but the
\* last is zero, and the last is, or there is no more memory.
IsString(addr, count) ==
    /\ \A k \in 0 .. count - 1 : addr + k \in Addrs
    /\ \A k \in 0 .. count - 2 : mem[addr + k] # 0
    /\ addr + count \notin Addrs \/ (count > 0 /\ mem[addr + count - 1] = 0)

\* The loop of stringLength ends at the end of the string.
LEMMA StringMeasured ==
  ASSUME TypeOK, NEW addr \in Nat
  PROVE  stringLength(addr) \in Nat /\ IsString(addr, stringLength(addr))
  <1> DEFINE M == MemSize
             X == Nat
             a == 0
             GoesOn(c) == CanRead(addr + c, 1) /\ (c > 0 => mem[addr + c - 1] # 0)
             Go(x, n) == IF GoesOn(x) THEN x + 1 ELSE x
             Step == [n \in 1 .. M |-> [x \in X |-> Go(x, n)]]
             Eq(f) == f = [n \in 0 .. M |-> IF n = 0 THEN a ELSE Go(f[n - 1], n)]
             val == CHOOSE f : Eq(f)
  <1>1. M \in Nat /\ a \in X
    BY MemoryAssumption
  <1>2. stringLength(addr) = val[M]
    BY Zenon DEF stringLength
  <1>3. \A n \in 1 .. M, x \in X : Go(x, n) \in X
    OBVIOUS
  <1> HIDE DEF M, Go, a, X
  <1>4. Step \in [1 .. M -> [X -> X]]
    BY <1>3
  <1>5. PICK s \in [0 .. M -> X] :
          s[0] = a /\ \A k \in 1 .. M : s[k] = Step[k][s[k - 1]]
    <2> HIDE DEF Step
    <2> QED
      BY <1>1, <1>4, RecursionExists
  <1>6. Eq(s)
    <2>1. ASSUME NEW k \in 1 .. M PROVE s[k] = Go(s[k - 1], k)
      <3>1. k - 1 \in 0 .. M
        BY <1>1
      <3>2. s[k - 1] \in X
        BY <3>1
      <3>3. Step[k][s[k - 1]] = Go(s[k - 1], k)
        BY <3>2
      <3> HIDE DEF Step
      <3> QED
        BY <1>5, <3>3
    <2> QED
      BY <1>1, <1>5, <2>1
  <1>7. Eq(val)
    <2> HIDE DEF Eq
    <2> QED
      BY <1>6, Zenon
  <1> HIDE DEF val
  <1>8. val[0] = a /\ \A k \in 1 .. M : val[k] = Go(val[k - 1], k)
    BY <1>1, <1>7
  <1> HIDE DEF GoesOn
  <1> DEFINE Read(c) == /\ c > 0 => addr + c <= M
                        /\ \A i \in 0 .. c - 2 : mem[addr + i] # 0
             Good(c, k) == c \in 0 .. k /\ Read(c) /\ (c = k \/ ~GoesOn(c))
             T == {k \in 0 .. M : Good(val[k], k)}
  <1>9. 0 \in T
    BY <1>1, <1>8 DEF a
  <1>10. ASSUME NEW k \in 0 .. M - 1, k \in T PROVE k + 1 \in T
    <2> DEFINE c == val[k]
    <2>1. k + 1 \in 1 .. M /\ k + 1 \in 0 .. M /\ (k + 1) - 1 = k /\ k \in Nat
      BY <1>1
    <2>2. Good(c, k)
      BY <1>10
    <2>3. val[k + 1] = IF GoesOn(c) THEN c + 1 ELSE c
      BY <1>8, <2>1 DEF Go
    <2> HIDE DEF c
    <2>4. CASE GoesOn(c)
      <3>1. c = k /\ c \in Nat
        BY <2>1, <2>2, <2>4
      <3>2. addr + (c + 1) <= M
        BY <1>1, <2>4, <3>1 DEF GoesOn, CanRead, M
      <3>3. ASSUME NEW i \in 0 .. (c + 1) - 2 PROVE mem[addr + i] # 0
        <4>1. CASE i = c - 1
          <5>1. c > 0 /\ addr + i = addr + c - 1
            BY <3>1, <4>1
          <5> QED
            BY <2>4, <5>1 DEF GoesOn
        <4>2. CASE i # c - 1
          <5>1. i \in 0 .. c - 2
            BY <3>1, <4>2
          <5> QED
            BY <2>2, <5>1
        <4> QED
          BY <4>1, <4>2
      <3>4. Good(c + 1, k + 1)
        BY <2>1, <3>1, <3>2, <3>3
      <3> HIDE DEF Good
      <3> QED
        BY <2>1, <2>3, <2>4, <3>4
    <2>5. CASE ~GoesOn(c)
      <3>1. Good(c, k + 1)
        BY <2>1, <2>2, <2>5
      <3> HIDE DEF Good
      <3> QED
        BY <2>1, <2>3, <2>5, <3>1
    <2> QED
      BY <2>4, <2>5
  <1>11. M \in T
    <2> HIDE DEF T
    <2>1. \A k \in 0 .. M : k \in T
      BY <1>1, <1>9, <1>10, InductionUpTo
    <2> QED
      BY <1>1, <2>1
  <1> DEFINE c == val[M]
  <1>12. Good(c, M)
    BY <1>11
  <1> HIDE DEF c
  <1>13. c \in Nat /\ Read(c)
    BY <1>1, <1>12
  <1>14. ~CanRead(addr + c, 1) \/ (c > 0 /\ mem[addr + c - 1] = 0)
    <2>1. CASE c = M
      BY <1>1, <2>1 DEF CanRead, M
    <2>2. CASE ~GoesOn(c)
      BY <2>2 DEF GoesOn
    <2> QED
      BY <1>12, <2>1, <2>2
  <1>15. \A k \in 0 .. c - 1 : addr + k \in Addrs
    BY <1>1, <1>13 DEF Addrs, M
  <1>16. addr + c \notin Addrs \/ (c > 0 /\ mem[addr + c - 1] = 0)
    BY <1>1, <1>13, <1>14 DEF Addrs, CanRead, M
  <1>17. IsString(addr, c)
    BY <1>13, <1>15, <1>16 DEF IsString
  <1> QED
    BY <1>2, <1>13, <1>17 DEF c

-----------------------------------------------------------------------------
\* The invariant

\* What has been read of a region so far is known and not wrong, and the
\* reading goes on unless the region reaches past the memory.
ReadSoFar ==
    CanRead(region.addr, region.len) =>
        /\ ~gaveUp
        /\ \A x \in region.addr .. region.addr + region.len - left - 1 :
             cmem[x] # Unknown /\ x \notin lostMem

\* The argument and the name have not changed since the server told of them.
PathKept ==
    \A loc \in path : IsArg(region.addr, loc) /\ IsString(region.addr, region.len)

IInv == TypeOK /\ BeliefTrue /\ ReadSoFar /\ PathKept

\* The reply to m is the digits of the bytes asked for, as many as leave room
\* in the buffer and at least one, or nothing if they are not all in memory.
LEMMA ReadReply ==
  ASSUME TypeOK, NEW a \in Nat, NEW len \in Nat \ {0}
  PROVE  /\ ReadLength(len) \in 1 .. len
         /\ 2 * ReadLength(len) < bufSize
         /\ ~CanRead(a, ReadLength(len)) => rspReadMem(a, len) = <<>>
         /\ CanRead(a, ReadLength(len)) =>
              /\ rspReadMem(a, len) \in Seq(Digits)
              /\ Len(rspReadMem(a, len)) = 2 * ReadLength(len)
              /\ \A i \in 0 .. ReadLength(len) - 1 :
                   ByteOf(rspReadMem(a, len), i) = mem[a + i]
  <1> DEFINE n == ReadLength(len)
  <1>1. bufSize \in Nat /\ bufSize > 2
    BY MemoryAssumption DEF TypeOK
  <1>2. n \in 1 .. len /\ 2 * n < bufSize
    BY <1>1 DEF ReadLength
  <1>3. ASSUME ~CanRead(a, n) PROVE rspReadMem(a, len) = <<>>
    BY <1>3 DEF rspReadMem
  <1>4. ASSUME CanRead(a, n)
        PROVE  /\ rspReadMem(a, len) \in Seq(Digits) /\ Len(rspReadMem(a, len)) = 2 * n
               /\ \A i \in 0 .. n - 1 : ByteOf(rspReadMem(a, len), i) = mem[a + i]
    <2> DEFINE text == [k \in 1 .. 2 * n |-> DigitOf(mem[a + ((k - 1) \div 2)], k)]
               byte == [i \in 0 .. n - 1 |-> mem[a + i]]
    <2>1. rspReadMem(a, len) = AddChars(text)
      BY <1>4 DEF rspReadMem
    <2> HIDE DEF n
    <2>2. n \in Nat /\ MemSize \in Nat /\ a + n <= MemSize
      BY <1>2, <1>4, MemoryAssumption DEF CanRead
    <2>3. \A i \in 0 .. n - 1 : byte[i] = mem[a + i] /\ byte[i] \in Bytes
      <3>1. ASSUME NEW i \in 0 .. n - 1 PROVE a + i \in Addrs
        BY <2>2 DEF Addrs
      <3> QED
        BY <3>1 DEF TypeOK
    <2>4. \A k \in 1 .. 2 * n : text[k] = DigitOf(byte[(k - 1) \div 2], k)
      <3>1. ASSUME NEW k \in 1 .. 2 * n PROVE (k - 1) \div 2 \in 0 .. n - 1
        BY <2>2
      <3> QED
        BY <2>3, <3>1
    <2> HIDE DEF byte
    <2>5. /\ \A k \in 1 .. 2 * n : text[k] \in 0 .. HexBase - 1
          /\ \A i \in 0 .. n - 1 : ByteOf(text, i) = byte[i]
      <3> HIDE DEF text
      <3> QED
        BY <2>2, <2>3, <2>4, DigitsBack
    <2>6. text \in [1 .. 2 * n -> Digits] /\ 2 * n \in Nat
      BY <2>2, <2>5 DEF Digits
    <2> HIDE DEF text
    <2>7. text \in Seq(Digits) /\ Len(text) = 2 * n
      BY <2>6, SeqOfFunction
    <2>8. AddChars(text) = text
      BY <1>1, <1>2, <2>7 DEF AddChars, n
    <2> QED
      BY <2>1, <2>3, <2>5, <2>7, <2>8
  <1> QED
    BY <1>2, <1>3, <1>4

\* What a cell has after a write, and what the client takes it to have.
LEMMA WrittenAt ==
  ASSUME TypeOK, NEW a \in Nat, NEW data \in Seq(Bytes), NEW x \in Addrs
  PROVE  /\ Written(a, data)[x] \in Bytes /\ Believed(a, data)[x] \in Bytes \cup {Unknown}
         /\ Written(a, data)[x] = IF x \in Writable /\ x \in Cells(a, Len(data))
                                  THEN data[x - a + 1] ELSE mem[x]
         /\ Believed(a, data)[x] = IF x \in Cells(a, Len(data))
                                   THEN data[x - a + 1] ELSE cmem[x]
  <1>1. x \in Int /\ Len(data) \in Nat
    BY MemoryAssumption DEF Addrs
  <1>2. x - a + 1 \in DOMAIN data <=> x \in Cells(a, Len(data))
    BY <1>1 DEF Cells
  <1>3. x \in Cells(a, Len(data)) => data[x - a + 1] \in Bytes
    BY <1>1, <1>2
  <1> QED
    BY <1>2, <1>3 DEF Written, Believed, TypeOK

\* A write of M or X: the client is right but where the target has not done
\* what it asked.
LEMMA WriteKept ==
  ASSUME TypeOK, BeliefTrue, NEW a \in Addrs, NEW addr \in Nat,
         NEW data \in Seq(Bytes), NEW made \in Seq(Bytes),
         mem' = Written(addr, made), cmem' = Believed(a, data),
         \/ /\ addr = a /\ made = data
            /\ lostMem' = Lost(Cells(a, Len(data)), Cells(a, Len(data)) \ ReadOnly)
         \/ /\ Len(made) <= Len(data) /\ \A k \in 1 .. Len(made) : made[k] = data[k]
            /\ Cells(addr, Len(made)) \subseteq Writable
            /\ lostMem' = IF addr = a
                          THEN Lost(Cells(a, Len(data)), Cells(a, Len(made)))
                          ELSE Lost(Cells(a, Len(data)) \cup Cells(addr, Len(made)), {})
  PROVE  /\ mem' \in [Addrs -> Bytes] /\ cmem' \in [Addrs -> Bytes \cup {Unknown}]
         /\ lostMem' \subseteq Addrs
         /\ \A x \in Addrs \ lostMem' : cmem'[x] \in {Unknown, mem'[x]}
  <1>1. a \in Nat /\ Len(data) \in Nat /\ Len(made) \in Nat
    BY MemoryAssumption DEF Addrs
  <1>2. ASSUME NEW x \in Addrs
        PROVE  /\ mem'[x] \in Bytes /\ cmem'[x] \in Bytes \cup {Unknown}
               /\ mem'[x] = IF x \in Writable /\ x \in Cells(addr, Len(made))
                            THEN made[x - addr + 1] ELSE mem[x]
               /\ cmem'[x] = IF x \in Cells(a, Len(data)) THEN data[x - a + 1] ELSE cmem[x]
    BY <1>1, WrittenAt
  <1>3. lostMem' \subseteq Addrs
    <2>1. lostMem \subseteq Addrs
      BY DEF TypeOK
    <2>2. ASSUME NEW asked, NEW done PROVE Lost(asked, done) \subseteq Addrs
      BY <2>1 DEF Lost
    <2> QED
      BY <2>2
  <1>4. ASSUME NEW x \in Addrs \ lostMem' PROVE cmem'[x] \in {Unknown, mem'[x]}
    <2>1. x \notin lostMem => cmem[x] \in {Unknown, mem[x]}
      BY DEF BeliefTrue
    <2>2. CASE x \in Cells(a, Len(data))
      <3>1. addr = a /\ x \in Writable /\ x \in Cells(a, Len(made))
        BY <2>2, <1>4 DEF Lost, Writable
      <3>2. made[x - a + 1] = data[x - a + 1]
        <4>1. x \in Int /\ x - a + 1 \in 1 .. Len(made)
          BY <1>1, <3>1, MemoryAssumption DEF Cells, Addrs
        <4> QED
          BY <4>1
      <3> QED
        BY <1>2, <2>2, <3>1, <3>2
    <2>3. CASE x \notin Cells(a, Len(data))
      <3>1. addr = a => Cells(addr, Len(made)) \subseteq Cells(a, Len(data))
        BY <1>1 DEF Cells
      <3>2. x \notin lostMem /\ x \notin Cells(addr, Len(made))
        BY <1>4, <2>3, <3>1 DEF Lost
      <3> QED
        BY <1>2, <2>1, <2>3, <3>2
    <2> QED
      BY <2>2, <2>3
  <1> QED
    BY <1>2, <1>3, <1>4 DEF Written, Believed

\* The data of a write is bytes.
LEMMA WriteDataType ==
  ASSUME NEW bytes \in WriteData
  PROVE  /\ bytes \in Seq(Bytes) /\ Len(bytes) \in 1 .. MaxLen
         /\ bytes \in [1 .. Len(bytes) -> Bytes]
  <1>1. PICK n \in 1 .. MaxLen : bytes \in [1 .. n -> ByteVals]
    BY DEF WriteData
  <1>2. bytes \in [1 .. n -> Bytes] /\ n \in Nat
    BY <1>1, MemoryAssumption
  <1>3. bytes \in Seq(Bytes) /\ Len(bytes) = n
    BY <1>2, SeqOfFunction
  <1> QED
    BY <1>2, <1>3

\* A packet that reads or writes no region leaves the region alone.
LEMMA QuietKeeps ==
  ASSUME TypeOK, NotReading, UNCHANGED conf, reply' \in Seq(Digits),
         mem' \in [Addrs -> Bytes], cmem' \in [Addrs -> Bytes \cup {Unknown}],
         regs' \in [Regs -> Words], cregs' \in [Regs -> Words \cup {Unknown}],
         lostMem' \subseteq Addrs, lostRegs' \subseteq Regs,
         \A x \in Addrs \ lostMem' : cmem'[x] \in {Unknown, mem'[x]},
         Uniform => \A r \in Regs \ lostRegs' : cregs'[r] \in {Unknown, regs'[r]}
  PROVE  IInv'
  <1>1. 0 \in Addrs /\ 0 \in Nat
    BY MemoryAssumption DEF Addrs
  <1>2. TypeOK'
    <2>1. region' \in [addr : Words \cup Addrs, len : Nat] /\ left' \in 0 .. region'.len
      BY <1>1 DEF NotReading, NoRegion
    <2>2. gaveUp' \in BOOLEAN /\ path' \subseteq ArgLocs
      BY DEF NotReading
    <2>3. /\ reply' \in Seq(0 .. HexBase - 1) /\ bufSize' \in BufSizes
          /\ regSize' \in RegSizes /\ ended' \in BOOLEAN
      BY DEF Digits, TypeOK, conf
    <2> QED
      BY <2>1, <2>2, <2>3 DEF TypeOK
  <1>3. BeliefTrue'
    BY DEF BeliefTrue, Uniform, conf
  <1>4. ReadSoFar'
    BY DEF ReadSoFar, NotReading, NoRegion
  <1>5. PathKept'
    BY DEF PathKept, NotReading
  <1> QED
    BY <1>2, <1>3, <1>4, <1>5 DEF IInv

-----------------------------------------------------------------------------
\* The steps

\* m: what comes back is what is there, and there is progress.
LEMMA ReadMemKeeps == IInv /\ ReadMem => IInv'
  <1> SUFFICES ASSUME IInv, ReadMem PROVE IInv'
    OBVIOUS
  <1> DEFINE a == region.addr + region.len - left
             n == ReadLength(left)
             got == Len(reply') \div 2
  <1>1. /\ left \in Nat \ {0} /\ left <= region.len
        /\ region.addr \in Nat /\ region.len \in Nat /\ a \in Nat /\ MemSize \in Nat
    BY MemoryAssumption DEF IInv, TypeOK, ReadMem, Words, Addrs
  <1>2. /\ reply' = rspReadMem(a, left)
        /\ left' = IF got = 0 THEN 0 ELSE left - got
        /\ gaveUp' = (got = 0)
        /\ cmem' = [x \in Addrs |-> IF x \in Cells(a, got)
                                    THEN ByteOf(reply', x - a) ELSE cmem[x]]
        /\ lostMem' = lostMem \ Cells(a, got)
        /\ UNCHANGED <<bufSize, regSize, ended, mem, regs, cregs, lostRegs, region, path>>
    BY DEF ReadMem, conf, regVars
  <1>3. /\ n \in 1 .. left
        /\ ~CanRead(a, n) => reply' = <<>>
        /\ CanRead(a, n) => /\ reply' \in Seq(Digits) /\ Len(reply') = 2 * n
                            /\ \A i \in 0 .. n - 1 : ByteOf(reply', i) = mem[a + i]
    <2>1. TypeOK
      BY DEF IInv
    <2> HIDE DEF a
    <2> QED
      BY <1>1, <1>2, <2>1, ReadReply DEF n
  <1> HIDE DEF n
  <1>4. got = (IF CanRead(a, n) THEN n ELSE 0) /\ reply' \in Seq(Digits)
    <2>1. CASE CanRead(a, n)
      <3>1. n \in Nat
        BY <1>1, <1>3
      <3> QED
        BY <1>3, <2>1, <3>1, Halves
    <2>2. CASE ~CanRead(a, n)
      BY <1>3, <2>2
    <2> QED
      BY <2>1, <2>2
  <1> HIDE DEF got
  <1>5. CASE ~CanRead(a, n)
    <2>1. got = 0 /\ left' = 0 /\ gaveUp' = TRUE
      BY <1>2, <1>4, <1>5
    <2>2. cmem' = cmem /\ lostMem' = lostMem
      <3>1. Cells(a, got) = {}
        BY <1>1, <2>1 DEF Cells
      <3> QED
        BY <1>2, <3>1 DEF IInv, TypeOK
    <2>3. ~CanRead(region.addr, region.len)
      BY <1>1, <1>3, <1>5 DEF CanRead
    <2>4. TypeOK'
      BY <1>1, <1>2, <1>4, <2>1, <2>2 DEF IInv, TypeOK, Digits
    <2> QED
      BY <1>2, <2>2, <2>3, <2>4
      DEF IInv, BeliefTrue, Uniform, ReadSoFar, PathKept, CanRead, IsArg, IsString
  <1>6. CASE CanRead(a, n)
    <2>1. got = n /\ left' = left - n /\ left' \in 0 .. region.len /\ gaveUp' = FALSE
      <3>1. n \in 1 .. left
        BY <1>3
      <3>2. got = n /\ n # 0
        BY <1>1, <1>4, <1>6, <3>1
      <3>3. left' = left - n /\ gaveUp' = FALSE
        BY <1>2, <3>2
      <3> QED
        BY <1>1, <3>1, <3>2, <3>3
    <2>0. Cells(a, got) = a .. a + n - 1
      BY <2>1 DEF Cells
    <2>2. ASSUME NEW x \in Addrs
          PROVE  cmem'[x] = IF x \in a .. a + n - 1 THEN mem[x] ELSE cmem[x]
      <3>1. CASE x \in a .. a + n - 1
        <4>1. x - a \in 0 .. n - 1 /\ a + (x - a) = x
          <5>1. x \in Nat /\ a \in Nat /\ n \in Nat
            BY <1>1, <1>3 DEF Addrs
          <5> HIDE DEF a
          <5> QED
            BY <3>1, <5>1
        <4>2. ByteOf(reply', x - a) = mem[x]
          BY <1>3, <1>6, <4>1
        <4> QED
          BY <1>2, <2>0, <3>1, <4>2
      <3>2. CASE x \notin a .. a + n - 1
        BY <1>2, <2>0, <3>2
      <3> QED
        BY <3>1, <3>2
    <2>3. cmem' \in [Addrs -> Bytes \cup {Unknown}]
      <3>1. \A x \in Addrs : cmem'[x] \in Bytes \cup {Unknown}
        BY <2>2 DEF IInv, TypeOK
      <3> QED
        BY <1>2, <3>1
    <2>4. TypeOK'
      BY <1>2, <1>4, <2>1, <2>3 DEF IInv, TypeOK, Digits
    <2>5. BeliefTrue'
      <3>1. ASSUME NEW x \in Addrs \ lostMem' PROVE cmem'[x] \in {Unknown, mem[x]}
        BY <1>2, <2>0, <2>2 DEF IInv, BeliefTrue
      <3> QED
        BY <1>2, <3>1 DEF IInv, BeliefTrue, Uniform
    <2>6. PathKept'
      BY <1>2 DEF IInv, PathKept, IsArg, IsString
    <2>7. ReadSoFar'
      <3> SUFFICES ASSUME CanRead(region.addr, region.len),
                          NEW x \in region.addr .. region.addr + region.len - left' - 1
                   PROVE  cmem'[x] # Unknown /\ x \notin lostMem'
        BY <1>2, <2>1 DEF ReadSoFar, CanRead
      <3>1. x \in Addrs
        BY <1>1, <2>1 DEF Addrs, CanRead
      <3>2. CASE x \in a .. a + n - 1
        <4>1. mem[x] \in Bytes
          BY <3>1 DEF IInv, TypeOK
        <4> QED
          <5>1. cmem'[x] = mem[x]
            BY <2>2, <3>1, <3>2
          <5>2. x \notin lostMem'
            BY <1>2, <2>0, <3>2
          <5>3. mem[x] # Unknown
            BY <4>1, ByteModType DEF Bytes, Unknown
          <5> QED
            BY <5>1, <5>2, <5>3
      <3>3. CASE x \notin a .. a + n - 1
        <4>1. x \in region.addr .. region.addr + region.len - left - 1
          BY <1>1, <1>3, <2>1, <3>3
        <4> QED
          BY <1>2, <2>0, <2>2, <3>1, <3>3, <4>1 DEF IInv, ReadSoFar
      <3> QED
        BY <3>2, <3>3
    <2> QED
      BY <2>4, <2>5, <2>6, <2>7 DEF IInv
  <1> QED
    BY <1>5, <1>6

\* A region is asked for, by the user or for the name of a file.
LEMMA WantKeeps == IInv /\ (WantMem \/ FileCall) => IInv'
  <1> SUFFICES ASSUME IInv, WantMem \/ FileCall PROVE IInv'
    OBVIOUS
  <1>1. /\ UNCHANGED <<bufSize, regSize, mem, regs, cmem, cregs, lostMem, lostRegs>>
        /\ gaveUp' = FALSE
    BY DEF WantMem, FileCall, conf, memVars, regVars
  <1>2. /\ region' \in [addr : Words \cup Addrs, len : Nat] /\ left' = region'.len
        /\ path' \subseteq ArgLocs /\ ended' \in BOOLEAN
        /\ \A loc \in path' : IsArg(region'.addr, loc) /\ IsString(region'.addr, region'.len)
        /\ reply' \in Seq(0 .. HexBase - 1)
    <2>1. CASE WantMem
      <3>1. PICK a \in Addrs, n \in 1 .. MaxLen :
              region' = [addr |-> a, len |-> n] /\ left' = n
        BY <2>1 DEF WantMem
      <3>2. n \in Nat
        BY <3>1, MemoryAssumption
      <3> QED
        BY <2>1, <3>1, <3>2 DEF WantMem, IInv, TypeOK, conf
    <2>2. CASE FileCall
      <3>1. reply' = <<>>
        BY <2>2 DEF FileCall
      <3>2. PICK loc \in ArgLocs :
              IF HasArg(loc)
              THEN /\ region' = [addr |-> readArgLoc(loc), len |-> stringLength(readArgLoc(loc))]
                   /\ left' = stringLength(readArgLoc(loc))
                   /\ path' = {loc} /\ ended' = FALSE
              ELSE region' = NoRegion /\ left' = 0 /\ path' = {} /\ ended' = TRUE
        BY <2>2 DEF FileCall
      <3>3. CASE HasArg(loc)
        <4> DEFINE addr == readArgLoc(loc)
                   count == stringLength(addr)
        <4>1. TypeOK
          BY DEF IInv
        <4>2. addr \in Words /\ IsArg(addr, loc)
          BY <3>3, <4>1, ArgIsWord
        <4>3. addr \in Nat
          BY <4>2 DEF Words
        <4>4. count \in Nat /\ IsString(addr, count)
          BY <4>1, <4>3, StringMeasured
        <4>5. region' = [addr |-> addr, len |-> count] /\ left' = count
              /\ path' = {loc} /\ ended' = FALSE
          BY <3>2, <3>3
        <4> HIDE DEF addr, count
        <4>6. region'.addr = addr /\ region'.len = count
          BY <4>5
        <4>7. region' \in [addr : Words \cup Addrs, len : Nat]
          BY <4>2, <4>4, <4>5
        <4>8. path' \subseteq ArgLocs
              /\ \A l \in path' : IsArg(region'.addr, l) /\ IsString(region'.addr, region'.len)
          BY <4>2, <4>4, <4>5, <4>6
        <4>9. reply' \in Seq(0 .. HexBase - 1)
          BY <3>1
        <4> QED
          BY <4>5, <4>6, <4>7, <4>8, <4>9
      <3>4. CASE ~HasArg(loc)
        <4>1. 0 \in Addrs /\ 0 \in Nat
          BY MemoryAssumption DEF Addrs
        <4> QED
          BY <3>1, <3>2, <3>4, <4>1 DEF NoRegion
      <3> QED
        BY <3>3, <3>4
    <2> QED
      BY <2>1, <2>2
  <1>3. TypeOK'
    <2>1. left' \in 0 .. region'.len
      <3>1. region'.len \in Nat
        BY <1>2
      <3> QED
        BY <1>2, <3>1
    <2> QED
      BY <1>1, <1>2, <2>1 DEF IInv, TypeOK
  <1>4. BeliefTrue'
    BY <1>1 DEF IInv, BeliefTrue, Uniform
  <1>5. PathKept'
    BY <1>1, <1>2 DEF PathKept, IsArg, IsString
  <1>6. ReadSoFar'
    <2>1. region'.addr \in Nat /\ region'.len \in Nat
      BY <1>2, MemoryAssumption, PlaceType DEF Words, Addrs
    <2>2. region'.addr .. region'.addr + region'.len - left' - 1 = {}
      BY <1>2, <2>1
    <2> QED
      BY <1>1, <2>2 DEF ReadSoFar
  <1> QED
    BY <1>3, <1>4, <1>5, <1>6 DEF IInv

\* M and X: the digits, or the escaped bytes, are the bytes again, and of a
\* length that is not the one announced both sides take the same part.
LEMMA WriteMemKeeps == IInv /\ (RspWriteMem \/ RspWriteMemBin) => IInv'
  <1> SUFFICES ASSUME IInv, RspWriteMem \/ RspWriteMemBin PROVE IInv'
    OBVIOUS
  <1>1. TypeOK /\ BeliefTrue
    BY DEF IInv
  <1>2. NotReading /\ UNCHANGED conf /\ reply' = <<>> /\ UNCHANGED <<regs, cregs, lostRegs>>
    BY DEF RspWriteMem, RspWriteMemBin, Quiet, regVars
  <1> DEFINE Known == /\ mem' \in [Addrs -> Bytes] /\ cmem' \in [Addrs -> Bytes \cup {Unknown}]
                      /\ lostMem' \subseteq Addrs
                      /\ \A x \in Addrs \ lostMem' : cmem'[x] \in {Unknown, mem'[x]}
  <1>3. ASSUME UNCHANGED memVars PROVE Known
    BY <1>1, <1>3 DEF TypeOK, BeliefTrue, memVars
  <1>4. Known
    <2>1. CASE RspWriteMem
      <3> DEFINE Dat(bytes) == [k \in 1 .. 2 * Len(bytes) |->
                                  DigitOf(bytes[((k - 1) \div 2) + 1], k)]
                 Val(bytes, n) == [k \in 1 .. n |-> ByteOf(Dat(bytes), k - 1)]
      <3>1. PICK a \in Addrs, bytes \in WriteData, announced \in 0 .. MaxLen :
              \/ UNCHANGED memVars
              \/ /\ 2 * announced = Len(Dat(bytes))
                 /\ mem' = Written(a, Val(bytes, announced)) /\ cmem' = Believed(a, bytes)
                 /\ lostMem' = Lost(Cells(a, announced), Cells(a, announced) \ ReadOnly)
        BY <2>1 DEF RspWriteMem
      <3> DEFINE L == Len(bytes)
                 symDat == Dat(bytes)
                 byte == [i \in 0 .. L - 1 |-> bytes[i + 1]]
      <3>2. bytes \in Seq(Bytes) /\ L \in Nat /\ bytes \in [1 .. L -> Bytes]
        BY WriteDataType
      <3>3. \A i \in 0 .. L - 1 : byte[i] = bytes[i + 1] /\ byte[i] \in Bytes
        BY <3>2
      <3>4. \A k \in 1 .. 2 * L : symDat[k] = DigitOf(byte[(k - 1) \div 2], k)
        <4>1. ASSUME NEW k \in 1 .. 2 * L PROVE (k - 1) \div 2 \in 0 .. L - 1
          BY <3>2
        <4> QED
          BY <3>3, <4>1
      <3> HIDE DEF byte
      <3>5. /\ \A k \in 1 .. 2 * L : symDat[k] \in 0 .. HexBase - 1
            /\ \A i \in 0 .. L - 1 : ByteOf(symDat, i) = byte[i]
        <4> HIDE DEF symDat, L
        <4> QED
          BY <3>2, <3>3, <3>4, DigitsBack
      <3>6. Len(symDat) = 2 * L
        <4>1. symDat \in [1 .. 2 * L -> Digits] /\ 2 * L \in Nat
          <5>1. symDat = [k \in 1 .. 2 * L |-> DigitOf(bytes[((k - 1) \div 2) + 1], k)]
            OBVIOUS
          <5> HIDE DEF symDat, L
          <5> QED
            BY <3>2, <3>5, <5>1 DEF Digits
        <4> HIDE DEF symDat, L
        <4> QED
          BY <4>1, SeqOfFunction
      <3>7. ASSUME 2 * announced = Len(symDat)
            PROVE  Val(bytes, announced) = bytes /\ announced = L
        <4>1. announced = L
          <5>1. 2 * announced = 2 * L
            BY <3>6, <3>7
          <5> HIDE DEF L
          <5> QED
            BY <3>2, <5>1, MemoryAssumption
        <4>2. ASSUME NEW k \in 1 .. L PROVE ByteOf(symDat, k - 1) = bytes[k]
          <5>1. k - 1 \in 0 .. L - 1 /\ (k - 1) + 1 = k
            BY <3>2
          <5> HIDE DEF symDat, L
          <5> QED
            BY <3>3, <3>5, <5>1
        <4>3. Val(bytes, announced) = [k \in 1 .. L |-> ByteOf(symDat, k - 1)]
          BY <4>1
        <4> HIDE DEF symDat, L
        <4> QED
          BY <3>2, <4>1, <4>2, <4>3
      <3> HIDE DEF Dat, Val
      <3>8. CASE UNCHANGED memVars
        BY <1>3, <3>8
      <3>9. CASE /\ mem' = Written(a, bytes) /\ cmem' = Believed(a, bytes)
                 /\ lostMem' = Lost(Cells(a, L), Cells(a, L) \ ReadOnly)
        <4>1. a \in Nat
          BY MemoryAssumption DEF Addrs
        <4> QED
          BY <1>1, <3>2, <3>9, <4>1, WriteKept
      <3> HIDE DEF Known
      <3> QED
        BY <3>1, <3>7, <3>8, <3>9
    <2>2. CASE RspWriteMemBin
      <3>1. PICK a \in Addrs, bytes \in WriteData, announced \in 0 .. MaxLen :
              LET addr   == a % XAddrMod
                  bindat == rspUnescape(Escaped(bytes))
                  len    == IF announced < Len(bindat) THEN announced ELSE Len(bindat)
              IN  /\ announced - Len(bytes) \in {0, -1}
                  /\ \E done \in 0 .. len :
                      /\ WriteResult(addr, len, done)
                      /\ mem' = Written(addr, SubSeq(bindat, 1, done))
                      /\ lostMem' = IF addr = a
                                    THEN Lost(Cells(a, len), Cells(a, done))
                                    ELSE Lost(Cells(a, len) \cup Cells(addr, done), {})
                  /\ cmem' = Believed(a, SubSeq(bytes, 1, announced))
        BY <2>2 DEF RspWriteMemBin
      <3> DEFINE addr == a % XAddrMod
                 data == SubSeq(bytes, 1, announced)
      <3>2. bytes \in Seq(Bytes) /\ Len(bytes) \in Nat /\ announced \in Nat
        BY WriteDataType, MemoryAssumption
      <3>3. rspUnescape(Escaped(bytes)) = bytes
        BY <3>2, EscapeBack
      <3>4. (IF announced < Len(bytes) THEN announced ELSE Len(bytes)) = announced
            /\ announced <= Len(bytes)
        BY <3>1, <3>2
      <3>5. addr \in Nat
        <4>1. a \in Nat /\ XAddrMod \in Nat \ {0}
          BY MemoryAssumption DEF Addrs
        <4>2. addr \in 0 .. XAddrMod - 1
          BY <4>1, DivType, Zenon
        <4> HIDE DEF addr
        <4> QED
          BY <4>1, <4>2
      <3> HIDE DEF addr
      <3>6. PICK done \in 0 .. announced :
              /\ WriteResult(addr, announced, done)
              /\ mem' = Written(addr, SubSeq(bytes, 1, done))
              /\ lostMem' = IF addr = a
                            THEN Lost(Cells(a, announced), Cells(a, done))
                            ELSE Lost(Cells(a, announced) \cup Cells(addr, done), {})
              /\ cmem' = Believed(a, data)
        BY <3>1, <3>3, <3>4 DEF addr
      <3> DEFINE made == SubSeq(bytes, 1, done)
      <3>7. /\ data \in Seq(Bytes) /\ Len(data) = announced
            /\ made \in Seq(Bytes) /\ Len(made) = done /\ done <= announced
            /\ \A k \in 1 .. done : made[k] = data[k]
        BY <3>2, <3>4
      <3>8. Cells(addr, done) \subseteq Writable
        BY <3>6 DEF WriteResult
      <3> HIDE DEF data, made
      <3>9. mem' = Written(addr, made) /\ cmem' = Believed(a, data)
        BY <3>6 DEF made
      <3>10. lostMem' = IF addr = a
                        THEN Lost(Cells(a, Len(data)), Cells(a, Len(made)))
                        ELSE Lost(Cells(a, Len(data)) \cup Cells(addr, Len(made)), {})
        BY <3>6, <3>7
      <3> QED
        BY <1>1, <3>5, <3>7, <3>8, <3>9, <3>10, WriteKept
    <2> QED
      BY <2>1, <2>2
  <1>5. /\ regs' \in [Regs -> Words] /\ cregs' \in [Regs -> Words \cup {Unknown}]
        /\ lostRegs' \subseteq Regs
        /\ Uniform => \A r \in Regs \ lostRegs' : cregs'[r] \in {Unknown, regs'[r]}
    BY <1>1, <1>2 DEF TypeOK, BeliefTrue
  <1>6. reply' \in Seq(Digits)
    BY <1>2
  <1> QED
    BY <1>1, <1>2, <1>4, <1>5, <1>6, QuietKeeps

\* g and p: every register the client takes from the reply is the one the
\* target has, if all are of the size it counts on, and a word in any case.
LEMMA ReadRegsKeeps == IInv /\ (RspReadAllRegs \/ RspReadReg) => IInv'
  <1> SUFFICES ASSUME IInv, RspReadAllRegs \/ RspReadReg PROVE IInv'
    OBVIOUS
  <1>1. TypeOK /\ BeliefTrue
    BY DEF IInv
  <1>2. NotReading /\ UNCHANGED conf /\ UNCHANGED <<mem, cmem, lostMem, regs>>
    BY DEF RspReadAllRegs, RspReadReg, memVars
  <1>3. /\ reply' \in Seq(Digits)
        /\ cregs' \in [Regs -> Words \cup {Unknown}] /\ lostRegs' \subseteq Regs
        /\ Uniform => \A r \in Regs \ lostRegs' : cregs'[r] \in {Unknown, regs[r]}
    <2>1. CASE RspReadReg
      <3>1. PICK r \in Regs :
              /\ reply' = regVal2Hex(regs[r], regSize[r])
              /\ \/ /\ Len(reply') = 2 * RegBytes
                    /\ cregs' = [cregs EXCEPT ![r] = hex2RegVal(reply', RegBytes)]
                    /\ lostRegs' = lostRegs \ {r}
                 \/ UNCHANGED <<cregs, lostRegs>>
        BY <2>1 DEF RspReadReg
      <3>2. regs[r] \in Words /\ regSize[r] \in 0 .. RegBytes /\ RegBytes \in Nat
        BY <1>1, MemoryAssumption DEF TypeOK
      <3>3. reply' \in Seq(Digits) /\ Len(reply') = 2 * regSize[r]
        BY <3>1, <3>2, WordDigits
      <3>4. CASE UNCHANGED <<cregs, lostRegs>>
        BY <1>1, <3>3, <3>4 DEF TypeOK, BeliefTrue
      <3>5. CASE /\ Len(reply') = 2 * RegBytes
                 /\ cregs' = [cregs EXCEPT ![r] = hex2RegVal(reply', RegBytes)]
                 /\ lostRegs' = lostRegs \ {r}
        <4>1. regSize[r] = RegBytes
          BY <3>2, <3>3, <3>5
        <4>2. hex2RegVal(reply', RegBytes) = regs[r]
          BY <3>1, <3>2, <4>1, WordBack
        <4>3. cregs' = [cregs EXCEPT ![r] = regs[r]]
          BY <3>5, <4>2
        <4> QED
          BY <1>1, <3>2, <3>3, <3>5, <4>3 DEF TypeOK, BeliefTrue
      <3> QED
        BY <3>1, <3>4, <3>5
    <2>2. CASE RspReadAllRegs
      <3> DEFINE W == 2 * RegBytes
                 Slot(r) == SubSeq(reply', W * r + 1, W * (r + 1))
      <3>1. /\ reply' = rspReadAllRegs
            /\ cregs' = [r \in Regs |-> IF W * (r + 1) <= Len(reply')
                                        THEN hex2RegVal(Slot(r), RegBytes) ELSE cregs[r]]
            /\ lostRegs' = {r \in lostRegs : W * (r + 1) > Len(reply')}
        BY <2>2 DEF RspReadAllRegs
      <3>2. reply' \in Seq(Digits) /\ Len(reply') \in Nat
        BY <1>1, <3>1, AllRegsFit
      <3>3. W \in Nat \ {0} /\ NumRegs \in Nat
        BY MemoryAssumption
      <3> HIDE DEF W
      <3>4. ASSUME NEW r \in Regs, W * (r + 1) <= Len(reply'), NEW k \in 1 .. W
            PROVE  Slot(r)[k] = reply'[W * r + k] /\ Slot(r)[k] \in Digits
        <4>1. W * r \in Nat /\ W * (r + 1) = W * r + W
          BY <3>3, Slots DEF Regs
        <4> DEFINE p == W * r + 1
                   q == W * (r + 1)
        <4>2. p \in Nat \ {0} /\ q \in Nat /\ q = p + W - 1 /\ q <= Len(reply')
          BY <3>3, <3>4, <4>1
        <4>3. p + k - 1 = W * r + k
          BY <4>1
        <4> HIDE DEF p, q
        <4>4. SubSeq(reply', p, q)[k] = reply'[p + k - 1] /\ p + k - 1 \in 1 .. Len(reply')
          BY <3>2, <3>3, <4>2
        <4>5. reply'[p + k - 1] \in Digits
          BY <3>2, <4>4
        <4> QED
          BY <4>3, <4>4, <4>5 DEF p, q
      <3>5. ASSUME NEW r \in Regs, W * (r + 1) <= Len(reply')
            PROVE  hex2RegVal(Slot(r), RegBytes) \in Words
        <4>1. \A k \in 1 .. W : Slot(r)[k] \in Digits
          BY <3>4, <3>5
        <4> HIDE DEF Slot
        <4> QED
          BY <4>1, WordOfDigits DEF W
      <3>6. ASSUME Uniform, NEW r \in Regs, W * (r + 1) <= Len(reply')
            PROVE  hex2RegVal(Slot(r), RegBytes) = regs[r]
        <4>1. PICK m \in 0 .. NumRegs :
                /\ Len(reply') = W * m
                /\ \A i \in 0 .. m - 1 : \A k \in 1 .. W :
                     reply'[W * i + k] = regVal2Hex(regs[i], RegBytes)[k]
          BY <1>1, <3>1, <3>6, AllRegsReply DEF W
        <4>2. r \in Nat /\ regs[r] \in Words /\ m \in Nat
          BY <1>1, <3>3 DEF Regs, TypeOK
        <4>3. r \in 0 .. m - 1
          <5>1. W * (r + 1) <= W * m
            BY <3>6, <4>1
          <5>2. r < m
            BY <3>3, <4>2, <5>1, SlotsOrdered
          <5> QED
            BY <4>2, <5>2
        <4>4. \A k \in 1 .. W : Slot(r)[k] = regVal2Hex(regs[r], RegBytes)[k]
          BY <3>4, <3>6, <4>1, <4>3
        <4> HIDE DEF Slot
        <4> QED
          BY <4>2, <4>4, WordBack DEF W
      <3> HIDE DEF Slot
      <3>7. ASSUME NEW r \in Regs PROVE cregs'[r] \in Words \cup {Unknown}
        <4>1. CASE W * (r + 1) <= Len(reply')
          BY <3>1, <3>5, <4>1
        <4>2. CASE ~(W * (r + 1) <= Len(reply'))
          BY <1>1, <3>1, <4>2 DEF TypeOK
        <4> QED
          BY <4>1, <4>2
      <3>8. ASSUME Uniform, NEW r \in Regs \ lostRegs' PROVE cregs'[r] \in {Unknown, regs[r]}
        <4>1. CASE W * (r + 1) <= Len(reply')
          BY <3>1, <3>6, <3>8, <4>1
        <4>2. CASE ~(W * (r + 1) <= Len(reply'))
          <5>1. W * (r + 1) \in Nat
            BY <3>3, Slots DEF Regs
          <5>2. W * (r + 1) > Len(reply')
            BY <3>2, <4>2, <5>1
          <5>3. r \notin lostRegs
            BY <3>1, <5>2
          <5> QED
            BY <1>1, <3>1, <3>8, <4>2, <5>3 DEF BeliefTrue
        <4> QED
          BY <4>1, <4>2
      <3>9. lostRegs' \subseteq Regs
        BY <1>1, <3>1 DEF TypeOK
      <3> QED
        BY <3>1, <3>2, <3>7, <3>8, <3>9
    <2> QED
      BY <2>1, <2>2
  <1>4. /\ mem' \in [Addrs -> Bytes] /\ cmem' \in [Addrs -> Bytes \cup {Unknown}]
        /\ lostMem' \subseteq Addrs
        /\ \A x \in Addrs \ lostMem' : cmem'[x] \in {Unknown, mem'[x]}
        /\ regs' \in [Regs -> Words] /\ regs' = regs
    BY <1>1, <1>2 DEF TypeOK, BeliefTrue
  <1> QED
    BY <1>1, <1>2, <1>3, <1>4, QuietKeeps

\* G and P, and the program, which the client knows nothing of.
LEMMA WriteRegsKeeps ==
  IInv /\ (RspWriteAllRegs \/ RspWriteReg \/ RspMalformed \/ TargetRuns) => IInv'
  <1> SUFFICES ASSUME IInv, RspWriteAllRegs \/ RspWriteReg \/ RspMalformed \/ TargetRuns
               PROVE  IInv'
    OBVIOUS
  <1>1. TypeOK /\ BeliefTrue
    BY DEF IInv
  <1>2. NotReading /\ UNCHANGED conf /\ reply' = <<>>
    BY DEF RspWriteAllRegs, RspWriteReg, RspMalformed, TargetRuns, Quiet
  <1>3. RegVals \subseteq Words /\ ByteVals \subseteq Bytes /\ FixedRegs \subseteq Regs
    BY MemoryAssumption
  <1>4. /\ mem' \in [Addrs -> Bytes] /\ cmem' \in [Addrs -> Bytes \cup {Unknown}]
        /\ lostMem' \subseteq Addrs
        /\ \A x \in Addrs \ lostMem' : cmem'[x] \in {Unknown, mem'[x]}
    <2>1. CASE UNCHANGED memVars
      BY <1>1, <2>1 DEF TypeOK, BeliefTrue, memVars
    <2>2. CASE TargetRuns
      BY <1>1, <1>3, <2>2 DEF TargetRuns, TypeOK
    <2> QED
      BY <2>1, <2>2 DEF RspWriteAllRegs, RspWriteReg, RspMalformed
  <1>5. /\ regs' \in [Regs -> Words] /\ cregs' \in [Regs -> Words \cup {Unknown}]
        /\ lostRegs' \subseteq Regs
        /\ Uniform => \A r \in Regs \ lostRegs' : cregs'[r] \in {Unknown, regs'[r]}
    <2>1. CASE RspWriteAllRegs
      <3> DEFINE Dat(new) == [k \in 1 .. 2 * RegBytes * NumRegs |->
                               regVal2Hex(new[(k - 1) \div (2 * RegBytes)], RegBytes)
                                 [((k - 1) % (2 * RegBytes)) + 1]]
                 Val(d, r) == hex2RegVal(SubSeq(d, 2 * RegBytes * r + 1, Len(d)), RegBytes)
      <3>1. PICK new \in [Regs -> RegVals] :
              /\ regs' = [r \in Regs |-> IF r \in FixedRegs THEN regs[r] ELSE Val(Dat(new), r)]
              /\ cregs' = new
        BY <2>1 DEF RspWriteAllRegs
      <3>2. new \in [Regs -> Words] /\ lostRegs' = FixedRegs
        BY <1>3, <2>1 DEF RspWriteAllRegs
      <3> DEFINE pktData == Dat(new)
      <3>3. pktData = [k \in 1 .. 2 * RegBytes * NumRegs |->
                         regVal2Hex(new[(k - 1) \div (2 * RegBytes)], RegBytes)
                           [((k - 1) % (2 * RegBytes)) + 1]]
        OBVIOUS
      <3> HIDE DEF pktData
      <3>4. \A r \in Regs : Val(pktData, r) = new[r]
        BY <3>2, <3>3, AllRegsBack
      <3> HIDE DEF Dat, Val
      <3>5. regs' = [r \in Regs |-> IF r \in FixedRegs THEN regs[r] ELSE new[r]]
        BY <3>1, <3>4 DEF pktData
      <3> QED
        BY <1>1, <1>3, <3>1, <3>2, <3>5 DEF TypeOK
    <2>2. CASE RspWriteReg
      <3>1. PICK r \in Regs, v \in RegVals :
              /\ cregs' = [cregs EXCEPT ![r] = v]
              /\ \/ regs' = regs /\ lostRegs' = lostRegs \cup {r}
                 \/ /\ regs' = [regs EXCEPT ![r] = hex2RegVal(regVal2Hex(v, RegBytes), RegBytes)]
                    /\ lostRegs' = lostRegs \ {r}
        BY <2>2 DEF RspWriteReg
      <3>2. v \in Words
        BY <1>3
      <3>3. hex2RegVal(regVal2Hex(v, RegBytes), RegBytes) = v
        BY <3>2, WordBack
      <3>4. \/ regs' = regs /\ lostRegs' = lostRegs \cup {r}
            \/ regs' = [regs EXCEPT ![r] = v] /\ lostRegs' = lostRegs \ {r}
        BY <3>1, <3>3
      <3> QED
        BY <1>1, <3>1, <3>2, <3>4 DEF TypeOK, BeliefTrue
    <2>3. CASE RspMalformed
      BY <1>1, <2>3 DEF RspMalformed, regVars, TypeOK, BeliefTrue
    <2>4. CASE TargetRuns
      BY <1>1, <1>3, <2>4 DEF TargetRuns, TypeOK
    <2> QED
      BY <2>1, <2>2, <2>3, <2>4
  <1>6. reply' \in Seq(Digits)
    BY <1>2
  <1> QED
    BY <1>1, <1>2, <1>4, <1>5, <1>6, QuietKeeps

\* IInv is inductive.
LEMMA MemoryInvariant == Spec => []IInv
  <1>1. Init => IInv
    <2> SUFFICES ASSUME Init PROVE IInv
      OBVIOUS
    <2>1. 0 \in Addrs /\ 0 \in Bytes /\ 0 \in Words
      <3>1. RegBytes \in 0 .. RegBytes
        BY MemoryAssumption
      <3>2. Place[RegBytes] \in Nat \ {0}
        BY <3>1, PlaceType
      <3> QED
        BY <3>2, MemoryAssumption, ByteModType DEF Addrs, Bytes, Words
    <2>2. region \in [addr : Words \cup Addrs, len : Nat] /\ left \in 0 .. region.len
      BY <2>1 DEF Init, NoRegion
    <2>3. TypeOK
      BY <2>1, <2>2 DEF Init, TypeOK
    <2>4. BeliefTrue /\ PathKept
      BY DEF Init, BeliefTrue, PathKept
    <2>5. ReadSoFar
      BY DEF Init, ReadSoFar, NoRegion
    <2> QED
      BY <2>3, <2>4, <2>5 DEF IInv
  <1>2. IInv /\ [Next]_vars => IInv'
    <2> SUFFICES ASSUME IInv, [Next]_vars PROVE IInv'
      OBVIOUS
    <2>1. CASE UNCHANGED vars
      BY <2>1 DEF IInv, TypeOK, BeliefTrue, Uniform, ReadSoFar, PathKept, CanRead, IsArg,
                  IsString, vars, conf, memVars, regVars, readVars
    <2>2. CASE Aborted
      BY <2>1, <2>2 DEF Aborted
    <2> QED
      BY <2>1, <2>2, ReadMemKeeps, WantKeeps, WriteMemKeeps, ReadRegsKeeps, WriteRegsKeeps
      DEF Next
  <1> QED
    BY <1>1, <1>2, PTL DEF Spec

-----------------------------------------------------------------------------
\* The packets of GdbServer and the values of Utils have their types for every
\* width of a digit, a register and the memory: in particular what readArgLoc
\* puts together is a word again.
THEOREM TypeCorrect == Spec => []TypeOK
  BY MemoryInvariant, PTL DEF IInv

\* What M, X, G and P write and m, g and p read back through hex digits,
\* escapes and buffers of any size is what the target has, but for the writes
\* that the target refused or X made elsewhere.
THEOREM NothingGarbled == Spec => []BeliefTrue
  BY MemoryInvariant, PTL DEF IInv

\* A region that is in memory is read to its end with replies of rspReadMem,
\* however small the buffer is.
THEOREM RegionsReadWhole == Spec => []ReadWhole
  <1>1. IInv => ReadWhole
    <2> SUFFICES ASSUME IInv, left = 0, CanRead(region.addr, region.len)
                 PROVE  /\ ~gaveUp
                        /\ \A a \in region.addr .. region.addr + region.len - 1 :
                             cmem[a] # Unknown
      BY DEF ReadWhole
    <2>1. region.addr \in Nat /\ region.len \in Nat
      BY MemoryAssumption DEF IInv, TypeOK, Words, Addrs
    <2>2. region.addr + region.len - left - 1 = region.addr + region.len - 1
      BY <2>1
    <2> QED
      BY <2>2 DEF IInv, ReadSoFar
  <1> QED
    BY <1>1, MemoryInvariant, PTL

\* The name that readArgLoc finds, stringLength measures and the client reads
\* is the one the program meant, for every place its address can come from.
THEOREM PathsReadWhole == Spec => []PathWhole
  <1>1. IInv => PathWhole
    <2> SUFFICES ASSUME IInv, NEW loc \in path
                 PROVE  /\ IsArg(region.addr, loc)
                        /\ region.len = 0 => region.addr \notin Addrs
                        /\ (left = 0 /\ region.len > 0) =>
                            /\ ~gaveUp
                            /\ \A k \in 0 .. region.len - 1 :
                                 cmem[region.addr + k] = mem[region.addr + k]
                            /\ \A k \in 0 .. region.len - 2 : cmem[region.addr + k] # 0
                            /\ \/ cmem[region.addr + (region.len - 1)] = 0
                               \/ region.addr + region.len = MemSize
      BY DEF PathWhole
    <2> DEFINE a == region.addr
               n == region.len
    <2>1. a \in Nat /\ n \in Nat /\ MemSize \in Nat
      BY MemoryAssumption DEF IInv, TypeOK, Words, Addrs
    <2>2. IsArg(a, loc) /\ IsString(a, n)
      BY DEF IInv, PathKept
    <2>3. ASSUME n = 0 PROVE a \notin Addrs
      <3>1. a + n = a
        BY <2>1, <2>3
      <3> QED
        BY <2>2, <2>3, <3>1 DEF IsString
    <2>4. ASSUME left = 0, n > 0
          PROVE  /\ ~gaveUp
                 /\ \A k \in 0 .. n - 1 : cmem[a + k] = mem[a + k]
                 /\ \A k \in 0 .. n - 2 : cmem[a + k] # 0
                 /\ cmem[a + (n - 1)] = 0 \/ a + n = MemSize
      <3>1. \A k \in 0 .. n - 1 : a + k \in Addrs
        BY <2>2 DEF IsString
      <3>2. a + (n - 1) \in Addrs
        BY <2>1, <2>4, <3>1
      <3>3. CanRead(a, n)
        BY <2>1, <3>2 DEF CanRead, Addrs
      <3>4. ~gaveUp
        BY <3>3 DEF IInv, ReadSoFar
      <3>5. a + n - left - 1 = a + n - 1
        BY <2>1, <2>4
      <3>6. ASSUME NEW k \in 0 .. n - 1 PROVE cmem[a + k] = mem[a + k]
        <4>1. a + k \in a .. a + n - 1
          BY <2>1
        <4>2. cmem[a + k] # Unknown /\ a + k \notin lostMem
          BY <3>3, <3>5, <4>1 DEF IInv, ReadSoFar
        <4> QED
          BY <3>1, <4>2 DEF IInv, BeliefTrue
      <3>7. ASSUME NEW k \in 0 .. n - 2 PROVE cmem[a + k] # 0
        <4>1. k \in 0 .. n - 1
          BY <2>1
        <4> QED
          BY <2>2, <3>6, <4>1 DEF IsString
      <3>8. cmem[a + (n - 1)] = 0 \/ a + n = MemSize
        <4>1. CASE a + n \notin Addrs
          BY <2>1, <3>3, <4>1 DEF Addrs, CanRead
        <4>2. CASE mem[a + n - 1] = 0
          <5>1. n - 1 \in 0 .. n - 1 /\ a + n - 1 = a + (n - 1)
            BY <2>1, <2>4
          <5> QED
            BY <3>6, <4>2, <5>1
        <4> QED
          BY <2>2, <4>1, <4>2 DEF IsString
      <3> QED
        BY <3>4, <3>6, <3>7, <3>8
    <2> HIDE DEF a, n
    <2>5. IsArg(a, loc) /\ (n = 0 => a \notin Addrs)
      BY <2>2, <2>3
    <2> QED
      BY <2>4, <2>5 DEF a, n
  <1> QED
    BY <1>1, MemoryInvariant, PTL

\* A register fits in a packet, which rspReadReg relies on: it copies the
\* digits of a register without a look at the buffer.
RegistersFit == \A b \in BufSizes : 2 * RegBytes <= b

\* If a register fits in a packet, every reply is whole bytes and fits, the
\* cut ones of rspReadMem and rspReadAllRegs too.
THEOREM RepliesWhole == RegistersFit => (Spec => []WholeBytes)
  <1> SUFFICES ASSUME RegistersFit PROVE Spec => []WholeBytes
    OBVIOUS
  <1> DEFINE Whole(text) == Len(text) <= bufSize /\ Len(text) % 2 = 0
  <1>1. Init => WholeBytes
    <2> SUFFICES ASSUME Init PROVE WholeBytes
      OBVIOUS
    <2>1. Len(reply) = 0 /\ bufSize \in Nat
      BY MemoryAssumption DEF Init
    <2> QED
      BY <2>1 DEF WholeBytes
  <1>2. ASSUME IInv, WholeBytes, [Next]_vars PROVE WholeBytes'
    <2>1. bufSize' = bufSize
      BY <1>2 DEF Next, ReadMem, WantMem, RspWriteMem, RspWriteMemBin, RspReadAllRegs,
                  RspWriteAllRegs, RspReadReg, RspWriteReg, RspMalformed, TargetRuns,
                  FileCall, Aborted, Quiet, conf, vars
    <2>2. bufSize \in BufSizes /\ bufSize \in Nat /\ RegBytes \in Nat /\ TypeOK
      BY <1>2, MemoryAssumption DEF IInv, TypeOK
    <2> SUFFICES Whole(reply')
      BY <2>1 DEF WholeBytes
    <2>3. CASE reply' = reply
      BY <1>2, <2>3 DEF WholeBytes
    <2>4. CASE reply' = <<>>
      BY <2>2, <2>4
    <2>5. CASE ReadMem
      <3> DEFINE a == region.addr + region.len - left
      <3>1. a \in Nat /\ left \in Nat \ {0} /\ reply' = rspReadMem(a, left)
        BY <1>2, <2>5, MemoryAssumption DEF IInv, TypeOK, ReadMem, Words, Addrs
      <3> HIDE DEF a
      <3> DEFINE n == ReadLength(left)
      <3>2. /\ n \in 1 .. left /\ 2 * n < bufSize
            /\ reply' = <<>> \/ Len(reply') = 2 * n
        BY <2>2, <3>1, ReadReply
      <3> HIDE DEF n
      <3>3. n \in Nat
        BY <3>1, <3>2
      <3> QED
        BY <2>2, <2>4, <3>2, <3>3, Halves
    <2>6. CASE RspReadAllRegs
      <3>1. reply' = rspReadAllRegs
        BY <2>6 DEF RspReadAllRegs
      <3> QED
        BY <2>2, <3>1, AllRegsFit
    <2>7. CASE RspReadReg
      <3>1. PICK r \in Regs : reply' = regVal2Hex(regs[r], regSize[r])
        BY <2>7 DEF RspReadReg
      <3> DEFINE n == regSize[r]
      <3>2. regs[r] \in Words /\ n \in 0 .. RegBytes /\ n \in Nat
        BY <2>2, MemoryAssumption DEF TypeOK
      <3>3. Len(reply') = 2 * n
        BY <3>1, <3>2, WordDigits
      <3> HIDE DEF n
      <3>4. 2 * n <= bufSize
        BY <2>2, <3>2 DEF RegistersFit
      <3> QED
        BY <3>2, <3>3, <3>4, Halves
    <2> QED
      BY <1>2, <2>3, <2>4, <2>5, <2>6, <2>7
      DEF Next, WantMem, RspWriteMem, RspWriteMemBin, RspWriteAllRegs, RspWriteReg,
          RspMalformed, TargetRuns, FileCall, Aborted, Quiet, vars
  <1> QED
    BY <1>1, <1>2, MemoryInvariant, PTL DEF Spec
=============================================================================
