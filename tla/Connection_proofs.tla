--------------------------- MODULE Connection_proofs ---------------------------
(***************************************************************************)
(* The safety properties of Connection, for all packets, checksums and     *)
(* buffers.  What one session leaves behind, and what noise can do, is in  *)
(* BaseInv; how the two sides agree while nothing is spoiled is in         *)
(* Protocol.                                                               *)
(***************************************************************************)
EXTENDS Connection, NatRecursion

-----------------------------------------------------------------------------
\* What holds whatever the line does

\* Nothing is on the line before the client has sent a packet; the server
\* may be in a packet that starts with a character of the session before.
NothingSentYet ==
    sent = <<>> => /\ in = <<>> /\ out = <<>> /\ client = "idle"
                   /\ pc \in {"start", "body", "closed"}

\* The server's members: the buffer of getPkt has room for a character, the
\* one of haveBreak is empty inside a packet and never has a break in it, and
\* a break in front of an acknowledgement is remembered.
MembersKept ==
    /\ pc = "body" => Len(newPkt) < MaxPacketSize
    /\ pc \in {"body", "sum"} => mGetCharBuf = NoChar
    /\ mGetCharBuf # Break
    /\ pc = "ack2" => mHavePendingBreak

BaseInv == TypeOK /\ NothingSentYet /\ MembersKept

-----------------------------------------------------------------------------
\* What holds while nothing is spoiled

Br(b) == IF b THEN <<Break>> ELSE <<>>
Count(b) == IF b THEN 1 ELSE 0

\* What the client writes after packet k of the packets S: maybe a break,
\* and up to two more packets with maybe a break after each.
Stream(S, k, b, c, d) ==
    Br(b) \o (IF k = Len(S) THEN <<>>
              ELSE Wire(S[k + 1]) \o
                   (Br(c) \o (IF k + 1 = Len(S) THEN <<>> ELSE Wire(S[k + 2]) \o Br(d))))

\* Whether there is a break after the last packet, and how many there are.
LastBreak(S, k, b, c, d) == IF k = Len(S) THEN b ELSE IF k + 1 = Len(S) THEN c ELSE d
Breaks(S, k, b, c, d) ==
    Count(b) + (IF k = Len(S) THEN 0
                ELSE Count(c) + (IF k + 1 = Len(S) THEN 0 ELSE Count(d)))

Handling == pc \in {"serve", "run", "put"}
Acking == pc \in {"ack", "ack2"}
Getting == pc \in {"start", "body", "sum"}

N == Len(delivered)
Current == sent[N + 1]

\* The breaks that are not yet taken, with those in a stream.
BreaksLeft(n) ==
    breaksTaken + Count(mHavePendingBreak) + n <= breaksSent + Count(leftOver)

\* A stream after packet k, of which the client does not write a second break
\* in the place of the last one.
StreamOK(k, b, c, d) ==
    /\ LastBreak(sent, k, b, c, d) => client = "idle" \/ broke
    /\ BreaksLeft(Breaks(sent, k, b, c, d))

\* Nothing but the stream is to be read.  With acknowledgements a client that
\* is there has no break in front of a packet.
PlainAt(b, c, d) ==
    /\ pc \in {"start"} \cup {"serve", "run", "put", "ack", "ack2"}
    /\ Incoming = Stream(sent, N, b, c, d) /\ StreamOK(N, b, c, d)
    /\ newPkt = <<>>
    /\ (pc = "start" /\ ~mNoAckMode /\ ~peerGone) => ~b
    /\ Acking => N = Len(sent) /\ N = replies + 1
    /\ pc = "ack2" => ~b /\ broke

\* A character was left by the session before,
StaleAt(c, d) ==
    /\ pc = "start" /\ N = 0 /\ mGetCharBuf # NoChar
    /\ in = Stream(sent, 0, FALSE, c, d) /\ StreamOK(0, FALSE, c, d)
    /\ newPkt = <<>>

\* which may be the start of a packet.
StalePacketAt(c, d) ==
    /\ pc = "body" /\ N = 0
    /\ Incoming = Stream(sent, 0, FALSE, c, d) /\ StreamOK(0, FALSE, c, d)
    /\ newPkt = <<>>

\* An acknowledgement is to be read, maybe a break in front of it.
PlusAt(q, c, d) ==
    /\ Acking \/ (pc = "start" /\ clientNoAck)
    /\ N = replies
    /\ Incoming = Br(q) \o (<<Plus>> \o Stream(sent, N, FALSE, c, d))
    /\ LastBreak(sent, N, FALSE, c, d) => client = "idle" \/ broke
    /\ BreaksLeft(Count(q) + Breaks(sent, N, FALSE, c, d))
    /\ newPkt = <<>>
    /\ pc = "ack2" => ~q

\* The rest of the current packet is to be read.
BodyAt(b, c, d) ==
    /\ pc = "body" /\ N < Len(sent)
    /\ Len(newPkt) <= Len(Current) /\ newPkt = SubSeq(Current, 1, Len(newPkt))
    /\ checksum = Sum(newPkt)
    /\ Incoming = SubSeq(Current, Len(newPkt) + 1, Len(Current)) \o
                  (<<Hash, Digit(Sum(Current))>> \o Stream(sent, N + 1, b, c, d))
    /\ StreamOK(N + 1, b, c, d)

\* The checksum is to be read.
SumAt(b, c, d) ==
    /\ pc = "sum" /\ N < Len(sent)
    /\ newPkt = Current /\ checksum = Sum(Current)
    /\ Incoming = <<Digit(Sum(Current))>> \o Stream(sent, N + 1, b, c, d)
    /\ StreamOK(N + 1, b, c, d)

\* What is to be read, until the session ends.
LineInv ==
    pc # "closed" => \E b, c, d \in BOOLEAN :
        \/ PlainAt(b, c, d) \/ StaleAt(c, d) \/ StalePacketAt(c, d)
        \/ PlusAt(b, c, d) \/ BodyAt(b, c, d) \/ SumAt(b, c, d)

\* The counts of both sides, and what they tell of the client.
CountInv ==
    /\ replies <= N /\ N <= Len(sent) /\ Len(sent) <= replies + 2
    /\ delivered = SubSeq(sent, 1, N)
    /\ client = "idle" <=> Len(sent) = replies
    /\ ~clientNoAck => Len(sent) <= replies + 1
    /\ client = "acking" => ~clientNoAck /\ ~broke
    /\ (client = "waiting" /\ ~clientNoAck) => N = Len(sent)
    /\ Handling => N >= replies + 1
    /\ ((Getting \/ pc = "closed") /\ ~mNoAckMode /\ ~peerGone) => N = replies

\* Acknowledgements end on the server's side first, with the last packet.
ModeInv ==
    /\ clientNoAck => mNoAckMode /\ replies >= 1
    /\ (mNoAckMode /\ ~clientNoAck) =>
         /\ N = Len(sent) /\ N = replies + 1 /\ Request = NoAckBody
         /\ pc \in {"put", "start", "closed"}
    /\ (pc \in {"run", "put"} /\ ~mNoAckMode) => Request # NoAckBody
    /\ Acking => ~mNoAckMode /\ Request # NoAckBody

ReplyTo(k) == IF delivered[k] = NoAckBody THEN "OK" ELSE "reply"

\* The number of packets that are answered on the line only.
Underway == N - replies - (IF Handling THEN 1 ELSE 0)

\* What the client has to read, if it is there.
OutInv ==
    ~peerGone =>
        out = (IF client = "acking" /\ N = Len(sent) THEN <<"+">> ELSE <<>>) \o
              (IF Underway = 0 THEN <<>>
               ELSE <<ReplyTo(replies + 1)>> \o
                    (IF Underway = 1 THEN <<>> ELSE <<ReplyTo(replies + 2)>>))

Protocol == pc # "assert" /\ LineInv /\ CountInv /\ ModeInv /\ OutInv

IInv == BaseInv /\ (noise = 0 => Protocol)

-----------------------------------------------------------------------------
\* Sequences, for all members and lengths

LEMMA ReadOne ==
  ASSUME NEW S, NEW c \in S, NEW t \in Seq(S)
  PROVE  /\ <<c>> \o t \in Seq(S) /\ <<c>> \o t # <<>>
         /\ Head(<<c>> \o t) = c /\ Tail(<<c>> \o t) = t
  OBVIOUS

LEMMA Joined ==
  ASSUME NEW S, NEW s \in Seq(S), NEW t \in Seq(S)
  PROVE  s \o t \in Seq(S) /\ Len(s \o t) = Len(s) + Len(t)
  OBVIOUS

LEMMA JoinedThrice ==
  \A s, t, u \in Seq(Chars) : (s \o t) \o u = s \o (t \o u)
  OBVIOUS

LEMMA JoinedEmpty ==
  ASSUME NEW S, NEW s \in Seq(S)
  PROVE  <<>> \o s = s /\ s \o <<>> = s
  OBVIOUS

LEMMA AppendIsJoin ==
  ASSUME NEW S, NEW s \in Seq(S), NEW e \in S
  PROVE  Append(s, e) = s \o <<e>>
  OBVIOUS

LEMMA AppendFacts ==
  ASSUME NEW S, NEW s \in Seq(S), NEW e \in S
  PROVE  /\ Append(s, e) \in Seq(S) /\ Len(Append(s, e)) = Len(s) + 1
         /\ Append(s, e)[Len(s) + 1] = e
         /\ \A k \in 1 .. Len(s) : Append(s, e)[k] = s[k]
  OBVIOUS

\* A prefix one longer.
LEMMA LongerPrefix ==
  ASSUME NEW S, NEW s \in Seq(S), NEW k \in Nat, k < Len(s)
  PROVE  SubSeq(s, 1, k + 1) = Append(SubSeq(s, 1, k), s[k + 1])
  OBVIOUS

LEMMA PrefixOfAppend ==
  ASSUME NEW S, NEW s \in Seq(S), NEW e \in S, NEW k \in Nat, k <= Len(s)
  PROVE  SubSeq(Append(s, e), 1, k) = SubSeq(s, 1, k)
  OBVIOUS

\* The rest of a sequence, one shorter.
LEMMA ShorterRest ==
  ASSUME NEW S, NEW s \in Seq(S), NEW k \in Nat, k < Len(s)
  PROVE  SubSeq(s, k + 1, Len(s)) = <<s[k + 1]>> \o SubSeq(s, k + 2, Len(s))
  OBVIOUS

-----------------------------------------------------------------------------
\* Checksums and packets

LEMMA CharsType ==
  /\ Plus \in Chars /\ Minus \in Chars /\ Break \in Chars
  /\ Dollar \in Chars /\ Hash \in Chars /\ NoChar \notin Chars
  /\ \A n \in 0 .. CsumMod - 1 : Digit(n) \in Chars /\ IsHex(Digit(n))
  BY ConnectionAssumption
     DEF Chars, Plus, Minus, Break, Dollar, Hash, NoChar, Digit, FirstDigit, IsHex

\* The checksum is made of one step per character.
LEMMA SumSteps ==
  ASSUME NEW p \in Seq(Chars)
  PROVE  \E s \in [0 .. Len(p) -> 0 .. CsumMod - 1] :
            /\ s[0] = 0 /\ Sum(p) = s[Len(p)]
            /\ \A k \in 1 .. Len(p) : s[k] = (s[k - 1] + p[k]) % CsumMod
  <1> DEFINE M == Len(p)
             X == 0 .. CsumMod - 1
             a == 0
             Go(x, n) == (x + p[n]) % CsumMod
             Step == [n \in 1 .. M |-> [x \in X |-> Go(x, n)]]
             Eq(f) == f = [n \in 0 .. M |-> IF n = 0 THEN a ELSE Go(f[n - 1], n)]
             e == CHOOSE f : Eq(f)
  <1>1. M \in Nat /\ a \in X
    BY ConnectionAssumption
  <1>2. \A n \in 1 .. M, x \in X : Go(x, n) \in X
    <2>1. ASSUME NEW n \in 1 .. M, NEW x \in X PROVE x + p[n] \in Int
      <3>1. p[n] \in Chars
        OBVIOUS
      <3> QED
        BY <3>1 DEF Chars
    <2> QED
      BY <2>1, RemainderRange, ConnectionAssumption, Zenon
  <1>3. Sum(p) = e[M]
    BY Zenon DEF Sum
  <1> HIDE DEF M, X, a, Go
  <1>4. Step \in [1 .. M -> [X -> X]]
    BY <1>2
  <1>5. PICK s \in [0 .. M -> X] :
          s[0] = a /\ \A k \in 1 .. M : s[k] = Step[k][s[k - 1]]
    <2> HIDE DEF Step
    <2> QED
      BY <1>1, <1>4, RecursionExists
  <1>6. Eq(s)
    <2>1. ASSUME NEW k \in 1 .. M PROVE s[k] = Go(s[k - 1], k)
      <3>1. k - 1 \in 0 .. M
        BY <1>1
      <3>2. s[k - 1] \in X
        BY <3>1
      <3>3. Step[k][s[k - 1]] = Go(s[k - 1], k)
        BY <3>2
      <3> HIDE DEF Step
      <3> QED
        BY <1>5, <3>3
    <2> QED
      BY <1>1, <1>5, <2>1
  <1>7. Eq(e)
    <2> HIDE DEF Eq
    <2> QED
      BY <1>6
  <1>8. e[0] = a /\ \A k \in 1 .. M : e[k] = Go(e[k - 1], k)
    <2> HIDE DEF e
    <2> QED
      BY <1>1, <1>7
  <1>9. e \in [0 .. M -> X]
    <2> HIDE DEF e, Eq
    <2>1. \A k \in 0 .. M : e[k] \in X
      <3>1. \A k \in 1 .. M : e[k - 1] \in X => e[k] \in X
        BY <1>2, <1>8
      <3> QED
        BY <1>1, <1>8, <3>1, RecursionStays
    <2>2. e = [n \in 0 .. M |-> IF n = 0 THEN a ELSE Go(e[n - 1], n)]
      BY <1>7 DEF Eq
    <2> QED
      BY <2>1, <2>2
  <1> HIDE DEF e
  <1> QED
    BY <1>3, <1>8, <1>9 DEF M, X, a, Go

LEMMA SumType ==
  ASSUME NEW p \in Seq(Chars)
  PROVE  Sum(p) \in 0 .. CsumMod - 1
  BY SumSteps

LEMMA SumEmpty == Sum(<<>>) = 0
  <1>1. <<>> \in Seq(Chars) /\ Len(<<>>) = 0
    OBVIOUS
  <1> QED
    BY <1>1, SumSteps

LEMMA SumAppend ==
  ASSUME NEW p \in Seq(Chars), NEW ch \in Chars
  PROVE  Sum(Append(p, ch)) = (Sum(p) + ch) % CsumMod
  <1> DEFINE q == Append(p, ch)
  <1>1. q \in Seq(Chars) /\ Len(q) = Len(p) + 1 /\ q[Len(p) + 1] = ch
        /\ \A k \in 1 .. Len(p) : q[k] = p[k]
    OBVIOUS
  <1>2. PICK s \in [0 .. Len(p) -> 0 .. CsumMod - 1] :
            /\ s[0] = 0 /\ Sum(p) = s[Len(p)]
            /\ \A k \in 1 .. Len(p) : s[k] = (s[k - 1] + p[k]) % CsumMod
    BY SumSteps
  <1> HIDE DEF q
  <1>3. PICK t \in [0 .. Len(q) -> 0 .. CsumMod - 1] :
            /\ t[0] = 0 /\ Sum(q) = t[Len(q)]
            /\ \A k \in 1 .. Len(q) : t[k] = (t[k - 1] + q[k]) % CsumMod
    BY <1>1, SumSteps
  <1> DEFINE M == Len(p)
             T == {k \in 0 .. M : s[k] = t[k]}
  <1>4. M \in Nat
    OBVIOUS
  <1>5. 0 \in T
    BY <1>2, <1>3, <1>4
  <1>6. ASSUME NEW k \in 0 .. M - 1, k \in T PROVE k + 1 \in T
    <2>1. k + 1 \in 1 .. M /\ k + 1 \in 1 .. Len(q) /\ (k + 1) - 1 = k
      BY <1>1, <1>4
    <2>2. s[k + 1] = (s[k] + p[k + 1]) % CsumMod
      BY <1>2, <2>1
    <2>3. t[k + 1] = (t[k] + q[k + 1]) % CsumMod
      BY <1>3, <2>1
    <2>4. s[k] = t[k] /\ p[k + 1] = q[k + 1]
      BY <1>1, <1>6, <2>1
    <2> QED
      BY <2>1, <2>2, <2>3, <2>4
  <1>7. \A k \in 0 .. M : k \in T
    <2> HIDE DEF T, M
    <2> QED
      BY <1>4, <1>5, <1>6, InductionUpTo
  <1>8. s[Len(p)] = t[Len(p)]
    BY <1>4, <1>7
  <1>9. t[Len(p) + 1] = (t[Len(p)] + ch) % CsumMod
    <2>1. Len(p) + 1 \in 1 .. Len(q) /\ (Len(p) + 1) - 1 = Len(p)
      BY <1>1
    <2> QED
      BY <1>1, <1>3, <2>1
  <1> QED
    BY <1>1, <1>2, <1>3, <1>8, <1>9 DEF q

LEMMA WireShape ==
  ASSUME NEW b \in Bodies
  PROVE  /\ b \in Seq(Chars) /\ Sum(b) \in 0 .. CsumMod - 1
         /\ <<Hash, Digit(Sum(b))>> \in Seq(Chars)
         /\ Wire(b) \in Seq(Chars)
         /\ Wire(b) = <<Dollar>> \o (b \o <<Hash, Digit(Sum(b))>>)
  <1>1. b \in Seq(Chars \ {Dollar, Hash})
    BY ConnectionAssumption
  <1>2. b \in Seq(Chars)
    BY <1>1
  <1>3. Sum(b) \in 0 .. CsumMod - 1
    BY <1>2, SumType
  <1>4. Digit(Sum(b)) \in Chars /\ Hash \in Chars /\ Dollar \in Chars
    BY <1>3, CharsType
  <1>5. <<Hash, Digit(Sum(b))>> \in Seq(Chars) /\ <<Dollar>> \in Seq(Chars)
    BY <1>4
  <1> QED
    BY <1>2, <1>3, <1>5 DEF Wire

-----------------------------------------------------------------------------
\* What the client writes

LEMMA BrType ==
  ASSUME NEW b \in BOOLEAN
  PROVE  Br(b) \in Seq(Chars) /\ Count(b) \in Nat
  BY CharsType DEF Br, Count

LEMMA NextPackets ==
  ASSUME NEW S \in Seq(Bodies), NEW k \in 0 .. Len(S)
  PROVE  /\ k # Len(S) => Wire(S[k + 1]) \in Seq(Chars)
         /\ (k # Len(S) /\ k + 1 # Len(S)) => Wire(S[k + 2]) \in Seq(Chars)
  <1>1. k # Len(S) => S[k + 1] \in Bodies
    OBVIOUS
  <1>2. (k # Len(S) /\ k + 1 # Len(S)) => S[k + 2] \in Bodies
    OBVIOUS
  <1> QED
    BY <1>1, <1>2, WireShape

LEMMA StreamType ==
  ASSUME NEW S \in Seq(Bodies), NEW k \in 0 .. Len(S), Len(S) <= k + 2,
         NEW b \in BOOLEAN, NEW c \in BOOLEAN, NEW d \in BOOLEAN
  PROVE  Stream(S, k, b, c, d) \in Seq(Chars) /\ Breaks(S, k, b, c, d) \in Nat
         /\ LastBreak(S, k, b, c, d) \in BOOLEAN
  <1>1. Br(b) \in Seq(Chars) /\ Br(c) \in Seq(Chars) /\ Br(d) \in Seq(Chars)
    BY BrType
  <1>2. k # Len(S) => Wire(S[k + 1]) \in Seq(Chars)
    BY NextPackets
  <1>3. (k # Len(S) /\ k + 1 # Len(S)) => Wire(S[k + 2]) \in Seq(Chars)
    BY NextPackets
  <1>4. Breaks(S, k, b, c, d) \in Nat /\ LastBreak(S, k, b, c, d) \in BOOLEAN
    BY DEF Breaks, Count, LastBreak
  <1> QED
    BY <1>1, <1>2, <1>3, <1>4, Joined DEF Stream

\* A break in front.
LEMMA StreamBreak ==
  ASSUME NEW S \in Seq(Bodies), NEW k \in 0 .. Len(S), Len(S) <= k + 2,
         NEW c \in BOOLEAN, NEW d \in BOOLEAN
  PROVE  /\ Stream(S, k, TRUE, c, d) = <<Break>> \o Stream(S, k, FALSE, c, d)
         /\ Breaks(S, k, TRUE, c, d) = 1 + Breaks(S, k, FALSE, c, d)
         /\ k < Len(S) => (LastBreak(S, k, TRUE, c, d) <=> LastBreak(S, k, FALSE, c, d))
  <1> DEFINE R == IF k = Len(S) THEN <<>>
                  ELSE Wire(S[k + 1]) \o
                   (Br(c) \o (IF k + 1 = Len(S) THEN <<>> ELSE Wire(S[k + 2]) \o Br(d)))
  <1>1. R \in Seq(Chars)
    <2>1. Br(c) \in Seq(Chars) /\ Br(d) \in Seq(Chars)
      BY BrType
    <2>2. k # Len(S) => Wire(S[k + 1]) \in Seq(Chars)
      BY NextPackets
    <2>3. (k # Len(S) /\ k + 1 # Len(S)) => Wire(S[k + 2]) \in Seq(Chars)
      BY NextPackets
    <2> QED
      BY <2>1, <2>2, <2>3, Joined
  <1>2. Stream(S, k, FALSE, c, d) = <<>> \o R /\ Stream(S, k, TRUE, c, d) = <<Break>> \o R
    BY Zenon DEF Stream, Br
  <1> HIDE DEF R
  <1>3. <<>> \o R = R
    BY <1>1
  <1>4. Breaks(S, k, TRUE, c, d) = 1 + Breaks(S, k, FALSE, c, d)
    BY DEF Breaks, Count
  <1>5. k < Len(S) => (LastBreak(S, k, TRUE, c, d) <=> LastBreak(S, k, FALSE, c, d))
    <2>1. k < Len(S) => k # Len(S)
      OBVIOUS
    <2> QED
      BY <2>1, Zenon DEF LastBreak
  <1> QED
    BY <1>2, <1>3, <1>4, <1>5

\* Nothing but a break after the last packet.
LEMMA StreamEnd ==
  ASSUME NEW S \in Seq(Bodies), NEW b \in BOOLEAN, NEW c \in BOOLEAN, NEW d \in BOOLEAN
  PROVE  /\ Stream(S, Len(S), b, c, d) = Br(b)
         /\ Breaks(S, Len(S), b, c, d) = Count(b)
         /\ LastBreak(S, Len(S), b, c, d) <=> b
  <1>1. Br(b) \o <<>> = Br(b)
    BY BrType, JoinedEmpty
  <1> QED
    BY <1>1 DEF Stream, Breaks, LastBreak, Count

\* A packet in front.
LEMMA StreamPacket ==
  ASSUME NEW S \in Seq(Bodies), NEW k \in 0 .. Len(S), Len(S) <= k + 2, k < Len(S),
         NEW c \in BOOLEAN, NEW d \in BOOLEAN
  PROVE  /\ Stream(S, k, FALSE, c, d) =
              <<Dollar>> \o (S[k + 1] \o (<<Hash, Digit(Sum(S[k + 1]))>>
                                          \o Stream(S, k + 1, c, d, FALSE)))
         /\ Breaks(S, k, FALSE, c, d) = Breaks(S, k + 1, c, d, FALSE)
         /\ (LastBreak(S, k, FALSE, c, d) <=> LastBreak(S, k + 1, c, d, FALSE))
  <1> DEFINE T == Stream(S, k + 1, c, d, FALSE)
             x == S[k + 1]
             h == <<Hash, Digit(Sum(x))>>
             B == Br(c) \o (IF k + 1 = Len(S) THEN <<>> ELSE Wire(S[k + 2]) \o Br(d))
  <1>1. x \in Bodies /\ k + 1 \in 0 .. Len(S) /\ Len(S) <= (k + 1) + 2
    OBVIOUS
  <1>2. T \in Seq(Chars)
    BY <1>1, StreamType
  <1>3. Stream(S, k, FALSE, c, d) = <<>> \o (Wire(x) \o B)
    BY k # Len(S) DEF Stream, Br
  <1>4. T = B
    <2>1. CASE k + 1 = Len(S)
      BY <2>1 DEF Stream
    <2>2. CASE k + 1 # Len(S)
      <3>1. S[k + 2] \in Bodies /\ (k + 1) + 1 = Len(S) /\ (k + 1) + 1 = k + 2
        BY <2>2
      <3>2. Wire(S[k + 2]) \in Seq(Chars) /\ Br(d) \in Seq(Chars)
        BY <3>1, WireShape, BrType
      <3>3. T = Br(c) \o (Wire(S[k + 2]) \o (Br(d) \o <<>>))
        BY <2>2, <3>1 DEF Stream
      <3>4. Br(d) \o <<>> = Br(d)
        BY <3>2
      <3> QED
        BY <2>2, <3>3, <3>4
    <2> QED
      BY <2>1, <2>2
  <1>5. Breaks(S, k, FALSE, c, d) = Breaks(S, k + 1, c, d, FALSE)
    BY DEF Breaks, Count
  <1>6. LastBreak(S, k, FALSE, c, d) <=> LastBreak(S, k + 1, c, d, FALSE)
    <2>1. k # Len(S) /\ (k + 1 # Len(S) => (k + 1) + 1 = Len(S))
      OBVIOUS
    <2> QED
      BY <2>1, Zenon DEF LastBreak
  <1>7. /\ x \in Seq(Chars) /\ h \in Seq(Chars) /\ Wire(x) \in Seq(Chars)
        /\ Wire(x) = <<Dollar>> \o (x \o h)
    BY <1>1, WireShape
  <1>8. Dollar \in Chars
    BY CharsType
  <1> HIDE DEF B, T, x, h
  <1>9. Wire(x) \o T = <<Dollar>> \o (x \o (h \o T))
    <2>1. <<Dollar>> \in Seq(Chars) /\ x \o h \in Seq(Chars)
      BY <1>7, <1>8
    <2>2. (<<Dollar>> \o (x \o h)) \o T = <<Dollar>> \o ((x \o h) \o T)
      BY <1>2, <2>1, JoinedThrice, Zenon
    <2>3. (x \o h) \o T = x \o (h \o T)
      BY <1>2, <1>7, JoinedThrice, Zenon
    <2> QED
      BY <1>7, <2>2, <2>3
  <1>10. <<>> \o (Wire(x) \o T) = Wire(x) \o T
    BY <1>2, <1>7
  <1> QED
    BY <1>3, <1>4, <1>5, <1>6, <1>9, <1>10 DEF T, x, h

\* A break at the end: which one is set.
AddBreak(S, k, b) == b \/ k = Len(S)
Broken(S, k, b, c, d, b2, c2, d2) ==
    /\ b2 \in BOOLEAN /\ c2 \in BOOLEAN /\ d2 \in BOOLEAN
    /\ Stream(S, k, b, c, d) \o <<Break>> = Stream(S, k, b2, c2, d2)
    /\ LastBreak(S, k, b2, c2, d2)
    /\ Breaks(S, k, b2, c2, d2) = Breaks(S, k, b, c, d) + 1

LEMMA StreamAddBreak ==
  ASSUME NEW S \in Seq(Bodies), NEW k \in 0 .. Len(S), Len(S) <= k + 2,
         NEW b \in BOOLEAN, NEW c \in BOOLEAN, NEW d \in BOOLEAN,
         ~LastBreak(S, k, b, c, d)
  PROVE  Broken(S, k, b, c, d, AddBreak(S, k, b), AddBreak(S, k + 1, c), AddBreak(S, k + 2, d))
  <1>0. /\ <<Break>> \in Seq(Chars) /\ <<>> \o <<Break>> = <<Break>>
        /\ Br(b) \in Seq(Chars) /\ Br(c) \in Seq(Chars) /\ Br(d) \in Seq(Chars)
    BY CharsType, BrType
  <1>1. CASE k = Len(S)
    <2>1. ~b
      BY <1>1 DEF LastBreak
    <2>2. Stream(S, k, b, c, d) = <<>> /\ Stream(S, k, TRUE, c, d) = <<Break>>
      BY <1>1, <2>1, StreamEnd DEF Br
    <2>4. LastBreak(S, k, TRUE, c, d)
      BY <1>1 DEF LastBreak
    <2>5. /\ Stream(S, k, b, c, d) \o <<Break>> = Stream(S, k, TRUE, c, d)
          /\ Breaks(S, k, TRUE, c, d) = Breaks(S, k, b, c, d) + 1
      <3>1. Stream(S, k, b, c, d) \o <<Break>> = Stream(S, k, TRUE, c, d)
        BY <1>0, <2>2, Zenon
      <3>2. Breaks(S, k, TRUE, c, d) = Breaks(S, k, b, c, d) + 1
        BY <1>1, <2>1 DEF Breaks, Count
      <3> QED
        BY <3>1, <3>2, Zenon
    <2>6. Broken(S, k, b, c, d, TRUE, c, d)
      BY <2>4, <2>5, Zenon DEF Broken
    <2>7. k + 1 # Len(S) /\ k + 2 # Len(S)
      BY <1>1
    <2>8. AddBreak(S, k, b) = TRUE /\ AddBreak(S, k + 1, c) = c /\ AddBreak(S, k + 2, d) = d
      BY <1>1, <2>7, Zenon DEF AddBreak
    <2> QED
      BY <2>6, <2>8, Zenon
  <1>2. CASE k # Len(S) /\ k + 1 = Len(S)
    <2>1. ~c
      BY <1>2 DEF LastBreak
    <2> DEFINE w == Wire(S[k + 1])
    <2>2. w \in Seq(Chars)
      BY <1>2, NextPackets
    <2>3. /\ Stream(S, k, b, c, d) = Br(b) \o (w \o (<<>> \o <<>>))
          /\ Stream(S, k, b, TRUE, d) = Br(b) \o (w \o (<<Break>> \o <<>>))
      BY <1>2, <2>1 DEF Stream, Br
    <2> HIDE DEF w
    <2>4. w \o (<<>> \o <<>>) = w /\ <<Break>> \o <<>> = <<Break>>
      BY <1>0, <2>2
    <2>5. (Br(b) \o w) \o <<Break>> = Br(b) \o (w \o <<Break>>)
      BY <1>0, <2>2, JoinedThrice, Zenon
    <2>6. Breaks(S, k, b, TRUE, d) = Breaks(S, k, b, c, d) + 1
      BY <1>2, <2>1 DEF Breaks, Count
    <2>7. LastBreak(S, k, b, TRUE, d)
      BY <1>2 DEF LastBreak
    <2>8. Stream(S, k, b, c, d) \o <<Break>> = Stream(S, k, b, TRUE, d)
      BY <2>3, <2>4, <2>5
    <2>9. Broken(S, k, b, c, d, b, TRUE, d)
      BY <2>6, <2>7, <2>8, Zenon DEF Broken
    <2>10. k + 2 # Len(S)
      BY <1>2
    <2>11. AddBreak(S, k, b) = b /\ AddBreak(S, k + 1, c) = TRUE /\ AddBreak(S, k + 2, d) = d
      BY <1>2, <2>10, Zenon DEF AddBreak
    <2> QED
      BY <2>9, <2>11, Zenon
  <1>3. CASE k # Len(S) /\ k + 1 # Len(S)
    <2>1. ~d
      BY <1>3 DEF LastBreak
    <2> DEFINE w == Wire(S[k + 1])
               v == Wire(S[k + 2])
    <2>2. w \in Seq(Chars) /\ v \in Seq(Chars)
      BY <1>3, NextPackets
    <2>3. /\ Stream(S, k, b, c, d) = Br(b) \o (w \o (Br(c) \o (v \o <<>>)))
          /\ Stream(S, k, b, c, TRUE) = Br(b) \o (w \o (Br(c) \o (v \o <<Break>>)))
      BY <1>3, <2>1 DEF Stream, Br
    <2> HIDE DEF w, v
    <2>4. v \o <<>> = v
      BY <2>2
    <2>5. (Br(b) \o (w \o (Br(c) \o v))) \o <<Break>>
            = Br(b) \o (w \o (Br(c) \o (v \o <<Break>>)))
      <3>1. Br(c) \o v \in Seq(Chars) /\ w \o (Br(c) \o v) \in Seq(Chars)
        BY <1>0, <2>2, Joined
      <3>2. (Br(b) \o (w \o (Br(c) \o v))) \o <<Break>>
              = Br(b) \o ((w \o (Br(c) \o v)) \o <<Break>>)
        BY <1>0, <3>1, JoinedThrice, Zenon
      <3>3. (w \o (Br(c) \o v)) \o <<Break>> = w \o ((Br(c) \o v) \o <<Break>>)
        <4>1. /\ w \in Seq(Chars) /\ Br(c) \o v \in Seq(Chars) /\ <<Break>> \in Seq(Chars)
          BY <1>0, <2>2, <3>1
        <4> QED
          BY <4>1, JoinedThrice, Zenon
      <3>4. (Br(c) \o v) \o <<Break>> = Br(c) \o (v \o <<Break>>)
        BY <1>0, <2>2, JoinedThrice, Zenon
      <3> QED
        BY <3>2, <3>3, <3>4
    <2>6. Breaks(S, k, b, c, TRUE) = Breaks(S, k, b, c, d) + 1
      BY <1>3, <2>1 DEF Breaks, Count
    <2>7. LastBreak(S, k, b, c, TRUE)
      BY <1>3 DEF LastBreak
    <2>8. Stream(S, k, b, c, d) \o <<Break>> = Stream(S, k, b, c, TRUE)
      BY <2>3, <2>4, <2>5
    <2>9. Broken(S, k, b, c, d, b, c, TRUE)
      BY <2>6, <2>7, <2>8, Zenon DEF Broken
    <2>10. k + 2 = Len(S)
      BY <1>3
    <2>11. AddBreak(S, k, b) = b /\ AddBreak(S, k + 1, c) = c /\ AddBreak(S, k + 2, d) = TRUE
      BY <1>3, <2>10, Zenon DEF AddBreak
    <2> QED
      BY <2>9, <2>11, Zenon
  <1> QED
    BY <1>1, <1>2, <1>3

\* A packet at the end: there is no break after it.
AddPacket(S, k, c) == c /\ k # Len(S)
Longer(S, x, k, b, c, d, c2) ==
    /\ c2 \in BOOLEAN
    /\ Stream(S, k, b, c, d) \o Wire(x) = Stream(Append(S, x), k, b, c2, FALSE)
    /\ ~LastBreak(Append(S, x), k, b, c2, FALSE)
    /\ Breaks(Append(S, x), k, b, c2, FALSE) = Breaks(S, k, b, c, d)

LEMMA StreamAddPacket ==
  ASSUME NEW S \in Seq(Bodies), NEW k \in 0 .. Len(S), Len(S) <= k + 1,
         NEW b \in BOOLEAN, NEW c \in BOOLEAN, NEW d \in BOOLEAN, NEW x \in Bodies
  PROVE  Longer(S, x, k, b, c, d, AddPacket(S, k, c))
  <1> DEFINE Sx == Append(S, x)
  <1>1. /\ Sx \in Seq(Bodies) /\ Len(Sx) = Len(S) + 1 /\ Sx[Len(S) + 1] = x
        /\ \A m \in 1 .. Len(S) : Sx[m] = S[m]
    BY AppendFacts
  <1> HIDE DEF Sx
  <1>2. Wire(x) \in Seq(Chars) /\ Br(b) \in Seq(Chars) /\ Br(c) \in Seq(Chars)
    BY WireShape, BrType
  <1>3. CASE k = Len(S)
    <2>1. k # Len(Sx) /\ k + 1 = Len(Sx)
      BY <1>1, <1>3
    <2>2. Stream(Sx, k, b, FALSE, FALSE) = Br(b) \o (Wire(x) \o (<<>> \o <<>>))
      BY <1>1, <1>3, <2>1 DEF Stream, Br
    <2>3. Wire(x) \o (<<>> \o <<>>) = Wire(x)
      BY <1>2
    <2>4. Stream(S, k, b, c, d) = Br(b)
      BY <1>3, StreamEnd
    <2>5. ~LastBreak(Sx, k, b, FALSE, FALSE)
      BY <2>1 DEF LastBreak
    <2>6. Breaks(Sx, k, b, FALSE, FALSE) = Breaks(S, k, b, c, d)
      BY <1>3, <2>1 DEF Breaks, Count
    <2>7. Longer(S, x, k, b, c, d, FALSE)
      BY <2>2, <2>3, <2>4, <2>5, <2>6, Zenon DEF Sx, Longer
    <2>8. AddPacket(S, k, c) = FALSE
      BY <1>3, Zenon DEF AddPacket
    <2> QED
      BY <2>7, <2>8, Zenon
  <1>4. CASE k # Len(S)
    <2>1. /\ k # Len(Sx) /\ k + 1 = Len(S) /\ k + 1 # Len(Sx) /\ k + 2 = Len(Sx)
          /\ Sx[k + 2] = x /\ Sx[k + 1] = S[k + 1]
      BY <1>1, <1>4
    <2> DEFINE w == Wire(S[k + 1])
    <2>2. w \in Seq(Chars)
      BY <1>4, NextPackets
    <2>3. Stream(Sx, k, b, c, FALSE) = Br(b) \o (w \o (Br(c) \o (Wire(x) \o <<>>)))
      BY <2>1 DEF Stream, Br
    <2>4. Stream(S, k, b, c, d) = Br(b) \o (w \o (Br(c) \o <<>>))
      BY <1>4, <2>1 DEF Stream
    <2> HIDE DEF w
    <2>5. Wire(x) \o <<>> = Wire(x) /\ Br(c) \o <<>> = Br(c)
      BY <1>2
    <2>6. (Br(b) \o (w \o Br(c))) \o Wire(x) = Br(b) \o (w \o (Br(c) \o Wire(x)))
      <3>1. w \o Br(c) \in Seq(Chars)
        BY <1>2, <2>2, Joined
      <3>2. (Br(b) \o (w \o Br(c))) \o Wire(x) = Br(b) \o ((w \o Br(c)) \o Wire(x))
        BY <1>2, <3>1, JoinedThrice, Zenon
      <3>3. (w \o Br(c)) \o Wire(x) = w \o (Br(c) \o Wire(x))
        BY <1>2, <2>2, JoinedThrice, Zenon
      <3> QED
        BY <3>2, <3>3
    <2>7. ~LastBreak(Sx, k, b, c, FALSE)
      BY <2>1 DEF LastBreak
    <2>8. Breaks(Sx, k, b, c, FALSE) = Breaks(S, k, b, c, d)
      BY <1>4, <2>1 DEF Breaks, Count
    <2>9. Stream(S, k, b, c, d) \o Wire(x) = Stream(Sx, k, b, c, FALSE)
      BY <2>3, <2>4, <2>5, <2>6
    <2>10. Longer(S, x, k, b, c, d, c)
      BY <2>7, <2>8, <2>9, Zenon DEF Sx, Longer
    <2>11. AddPacket(S, k, c) = c
      BY <1>4, Zenon DEF AddPacket
    <2> QED
      BY <2>10, <2>11, Zenon
  <1> QED
    BY <1>3, <1>4

-----------------------------------------------------------------------------
\* Reading and writing characters

LEMMA IncomingType ==
  ASSUME TypeOK
  PROVE  Incoming \in Seq(Chars) /\ (Incoming = <<>> <=> in = <<>> /\ mGetCharBuf = NoChar)
  BY DEF TypeOK, Incoming

LEMMA Reading ==
  ASSUME TypeOK, NEW ch \in Chars, getRspChar(ch)
  PROVE  /\ Incoming # <<>> /\ Incoming' \in Seq(Chars)
         /\ Incoming = <<ch>> \o Incoming'
         /\ in' \in Seq(Chars) /\ in' = Incoming' /\ mGetCharBuf' = NoChar
  <1>1. Incoming \in Seq(Chars)
    BY IncomingType
  <1>2. Incoming' = Tail(Incoming)
    BY DEF getRspChar, Incoming
  <1>3. Incoming # <<>> /\ ch = Head(Incoming) /\ in' = Tail(Incoming) /\ mGetCharBuf' = NoChar
    BY DEF getRspChar
  <1> DEFINE I == Incoming
  <1>4. I \in Seq(Chars) /\ I # <<>> /\ ch = Head(I)
    BY <1>1, <1>3
  <1> HIDE DEF I
  <1>5. I = <<ch>> \o Tail(I) /\ Tail(I) \in Seq(Chars)
    BY <1>4
  <1> QED
    BY <1>2, <1>3, <1>5 DEF I

\* Reading gets the first of the characters that are to be read.
LEMMA ReadingFirst ==
  ASSUME TypeOK, NEW ch \in Chars, getRspChar(ch),
         NEW c \in Chars, NEW t \in Seq(Chars), Incoming = <<c>> \o t
  PROVE  ch = c /\ Incoming' = t /\ mGetCharBuf' = NoChar
  <1>1. Incoming' = Tail(Incoming) /\ ch = Head(Incoming) /\ mGetCharBuf' = NoChar
    BY DEF getRspChar, Incoming
  <1> QED
    BY <1>1, ReadOne

\* Writing adds to them.
LEMMA Writing ==
  ASSUME TypeOK, NEW x \in Seq(Chars), in' = in \o x, UNCHANGED mGetCharBuf
  PROVE  Incoming' = Incoming \o x
  <1>1. in \in Seq(Chars) /\ mGetCharBuf \in Chars \cup {NoChar} /\ mGetCharBuf' = mGetCharBuf
    BY DEF TypeOK
  <1>2. CASE mGetCharBuf = NoChar
    BY <1>1, <1>2, Zenon DEF Incoming
  <1>3. CASE mGetCharBuf # NoChar
    <2>1. <<mGetCharBuf>> \in Seq(Chars)
      BY <1>1, <1>3
    <2>2. (<<mGetCharBuf>> \o in) \o x = <<mGetCharBuf>> \o (in \o x)
      BY <1>1, <2>1, JoinedThrice, Zenon
    <2> QED
      BY <1>1, <1>3, <2>2, Zenon DEF Incoming
  <1> QED
    BY <1>2, <1>3

-----------------------------------------------------------------------------
\* Type correctness, and what holds whatever the line does

\* A packet goes out in characters, also if the line spoils one of them.
LEMMA TransmitType ==
  ASSUME TypeOK, NEW b \in Bodies, Transmit(b)
  PROVE  in' \in Seq(Chars) /\ noise' \in Nat
  <1>1. Wire(b) \in Seq(Chars) /\ in \in Seq(Chars) /\ noise \in Nat
    BY WireShape DEF TypeOK
  <1>2. CASE in' = in \o Wire(b) /\ UNCHANGED noise
    BY <1>1, <1>2
  <1>3. CASE /\ noise' = noise + 1
             /\ \E k \in 1 .. Len(Wire(b)), ch \in Spoiled :
                    in' = in \o [Wire(b) EXCEPT ![k] = ch]
    <2>1. PICK k \in 1 .. Len(Wire(b)), ch \in Spoiled :
              in' = in \o [Wire(b) EXCEPT ![k] = ch]
      BY <1>3
    <2>2. ch \in Chars
      BY ConnectionAssumption
    <2> DEFINE w == Wire(b)
    <2>3. [w EXCEPT ![k] = ch] \in Seq(Chars)
      <3> HIDE DEF w
      <3>1. w \in Seq(Chars) /\ k \in 1 .. Len(w)
        BY <1>1 DEF w
      <3> QED
        BY <2>2, <3>1
    <2> QED
      BY <1>1, <1>3, <2>1, <2>3
  <1> QED
    BY <1>2, <1>3 DEF Transmit

LEMMA OutType ==
  ASSUME TypeOK, out' = out \/ \E x \in {"+", "-", "OK", "reply"} : out' = Append(out, x)
  PROVE  out' \in Seq({"+", "-", "OK", "reply"})
  <1> DEFINE X == {"+", "-", "OK", "reply"}
  <1>1. out \in Seq(X) /\ (out' = out \/ \E x \in X : out' = Append(out, x))
    BY DEF TypeOK
  <1> HIDE DEF X
  <1>2. out' \in Seq(X)
    BY <1>1
  <1> QED
    BY <1>2 DEF X

LEMMA Empty == \A S : <<>> \in Seq(S) /\ Len(<<>>) = 0
  OBVIOUS

LEMMA BaseInit == Init => BaseInv
  <1> SUFFICES ASSUME Init PROVE BaseInv
    OBVIOUS
  <1>1. /\ newPkt \in Seq(Chars) /\ Len(newPkt) = 0 /\ in \in Seq(Chars)
        /\ out \in Seq({"+", "-", "OK", "reply"})
        /\ sent \in Seq(Bodies) /\ delivered \in Seq(Seq(Chars))
    BY Empty, Zenon DEF Init
  <1>2. TypeOK
    <2>1. Len(newPkt) <= MaxPacketSize
      BY <1>1, ConnectionAssumption
    <2>2. /\ mHavePendingBreak \in BOOLEAN /\ mNoAckMode \in BOOLEAN
          /\ broke \in BOOLEAN /\ clientNoAck \in BOOLEAN
          /\ peerGone \in BOOLEAN /\ leftOver \in BOOLEAN
      BY Zenon DEF Init
    <2>3. 0 \in 0 .. CsumMod - 1 /\ 0 \in Nat
      BY ConnectionAssumption
    <2>4. /\ mGetCharBuf \in Chars \cup {NoChar} /\ pc \in Places
          /\ checksum \in 0 .. CsumMod - 1 /\ client \in {"idle", "acking", "waiting"}
          /\ replies \in Nat /\ breaksSent \in Nat /\ breaksTaken \in Nat
          /\ noise \in Nat
      BY <2>3, Zenon DEF Init, Places
    <2> QED
      BY <1>1, <2>1, <2>2, <2>4 DEF TypeOK
  <1>3. NothingSentYet /\ MembersKept
    BY DEF Init, NothingSentYet, MembersKept, NoChar, Break
  <1> QED
    BY <1>2, <1>3 DEF BaseInv

LEMMA BaseServer ==
  ASSUME BaseInv, Server
  PROVE  BaseInv'
  <1> USE DEF BaseInv
  <1>0. Break \in Chars /\ NoChar # Break
    BY CharsType DEF NoChar, Break
  <1>1. CASE GetStart
    <2>1. PICK ch \in Chars :
            /\ getRspChar(ch)
            /\ IF ch = Dollar
               THEN checksum' = 0 /\ pc' = IF HasRoom(newPkt) THEN "body" ELSE "start"
               ELSE UNCHANGED <<checksum, pc>>
      BY <1>1 DEF GetStart
    <2>2. Incoming # <<>> /\ in' \in Seq(Chars) /\ mGetCharBuf' = NoChar
          /\ Incoming = <<ch>> \o in'
      BY <2>1, Reading
    <2>3. TypeOK'
      BY <1>1, <2>1, <2>2, ConnectionAssumption DEF GetStart, TypeOK, Places, lineVars
    <2>4. sent = <<>> => in' = <<>>
      <3> SUFFICES ASSUME sent = <<>> PROVE in' = <<>>
        OBVIOUS
      <3>1. in = <<>> /\ in \in Seq(Chars)
        BY DEF NothingSentYet
      <3>2. Incoming = <<mGetCharBuf>>
        BY <2>2, <3>1 DEF Incoming, TypeOK
      <3>3. in' = Tail(Incoming)
        BY <2>1 DEF getRspChar
      <3> QED
        BY <3>2, <3>3
    <2>5. NothingSentYet'
      BY <1>1, <2>1, <2>4 DEF GetStart, NothingSentYet, lineVars
    <2>6. MembersKept'
      BY <1>0, <1>1, <2>1, <2>2 DEF GetStart, MembersKept, HasRoom
    <2> QED
      BY <2>3, <2>5, <2>6
  <1>2. CASE GetBody
    <2>1. PICK ch \in Chars :
            /\ getRspChar(ch)
            /\ \/ Restarts(ch) /\ newPkt' = <<>> /\ checksum' = 0 /\ pc' = "body"
               \/ ch = Hash /\ pc' = "sum" /\ UNCHANGED <<newPkt, checksum>>
               \/ /\ ~Restarts(ch) /\ ch # Hash
                  /\ newPkt' = Append(newPkt, ch)
                  /\ checksum' = (checksum + ch) % CsumMod
                  /\ pc' = IF HasRoom(newPkt') THEN "body" ELSE "start"
      BY <1>2 DEF GetBody
    <2>2. Incoming # <<>> /\ in' \in Seq(Chars) /\ mGetCharBuf' = NoChar
      BY <2>1, Reading
    <2>3. (checksum + ch) % CsumMod \in 0 .. CsumMod - 1
      <3>1. checksum + ch \in Int
        BY DEF TypeOK, Chars
      <3> QED
        BY <3>1, RemainderRange, ConnectionAssumption, Zenon
    <2>4. /\ newPkt \in Seq(Chars) /\ Len(newPkt) < MaxPacketSize /\ pc = "body"
          /\ mGetCharBuf = NoChar
      BY <1>2 DEF GetBody, TypeOK, MembersKept
    <2>5. newPkt' \in Seq(Chars) /\ Len(newPkt') <= MaxPacketSize
          /\ (pc' = "body" => Len(newPkt') < MaxPacketSize)
      <3>1. /\ Append(newPkt, ch) \in Seq(Chars)
            /\ Len(Append(newPkt, ch)) = Len(newPkt) + 1 /\ Len(newPkt) \in Nat
        BY <2>4
      <3>2. <<>> \in Seq(Chars) /\ Len(<<>>) = 0
        OBVIOUS
      <3>3. newPkt' = newPkt \/ newPkt' = <<>>
            \/ (newPkt' = Append(newPkt, ch) /\ (pc' = "body" => HasRoom(newPkt')))
        BY <2>1
      <3>4. MaxPacketSize \in Nat /\ 0 < MaxPacketSize
        BY ConnectionAssumption
      <3>5. CASE newPkt' = newPkt
        BY <2>4, <3>1, <3>4, <3>5
      <3>6. CASE newPkt' = <<>>
        BY <3>2, <3>4, <3>6
      <3>7. CASE newPkt' = Append(newPkt, ch) /\ (pc' = "body" => HasRoom(newPkt'))
        BY <2>4, <3>1, <3>4, <3>7 DEF HasRoom
      <3> QED
        BY <3>3, <3>5, <3>6, <3>7
    <2>6. pc' \in {"body", "sum", "start"} /\ checksum' \in 0 .. CsumMod - 1
      BY <2>1, <2>3, ConnectionAssumption DEF TypeOK
    <2>7. TypeOK'
      BY <1>2, <2>2, <2>5, <2>6 DEF GetBody, TypeOK, Places, lineVars
    <2>8. sent # <<>>
      BY <2>2, <2>4 DEF NothingSentYet, Incoming
    <2>9. NothingSentYet' /\ MembersKept'
      BY <1>0, <1>2, <2>2, <2>5, <2>6, <2>8 DEF GetBody, NothingSentYet, MembersKept, lineVars
    <2> QED
      BY <2>7, <2>9
  <1>3. CASE GetSum
    <2>1. PICK ch \in Chars :
            /\ getRspChar(ch)
            /\ pc' \in {"assert", "serve", "start", "closed"}
            /\ \/ UNCHANGED <<newPkt, delivered>>
               \/ newPkt' = <<>> /\ delivered' = Append(delivered, newPkt)
            /\ out' = out \/ \E x \in {"+", "-"} : out' = Append(out, x)
      BY <1>3 DEF GetSum, Return
    <2>2. in' \in Seq(Chars) /\ mGetCharBuf' = NoChar
      BY <2>1, Reading
    <2>3. sent # <<>>
      BY <1>3 DEF GetSum, NothingSentYet
    <2>4. newPkt' \in Seq(Chars) /\ Len(newPkt') <= MaxPacketSize
      <3>1. CASE UNCHANGED newPkt
        BY <3>1 DEF TypeOK
      <3>2. CASE newPkt' = <<>>
        BY <3>2, Empty, ConnectionAssumption
      <3> QED
        BY <2>1, <3>1, <3>2
    <2>5. delivered' \in Seq(Seq(Chars)) /\ out' \in Seq({"+", "-", "OK", "reply"})
      <3>1. newPkt \in Seq(Chars) /\ delivered \in Seq(Seq(Chars))
        BY DEF TypeOK
      <3>2. delivered' \in Seq(Seq(Chars))
        BY <2>1, <3>1
      <3>3. out' \in Seq({"+", "-", "OK", "reply"})
        BY <2>1, OutType
      <3> QED
        BY <3>2, <3>3
    <2>6. TypeOK'
      BY <1>3, <2>1, <2>2, <2>4, <2>5 DEF GetSum, TypeOK, Places, lineVars
    <2>7. NothingSentYet' /\ MembersKept'
      BY <1>0, <1>3, <2>1, <2>2, <2>3 DEF GetSum, NothingSentYet, MembersKept, lineVars
    <2> QED
      BY <2>6, <2>7
  <1>4. CASE GetFails
    BY <1>4 DEF GetFails, TypeOK, NothingSentYet, MembersKept, lineVars, getVars, Places
  <1>5. CASE Handle
    BY <1>5 DEF Handle, TypeOK, NothingSentYet, MembersKept, lineVars, getVars, Places
  <1>6. CASE PollBreak
    <2>1. /\ mHavePendingBreak' = FALSE /\ pc' \in {"put", "run"}
          /\ pc \in {"run", "serve"} /\ breaksTaken' \in Nat
      BY <1>6 DEF PollBreak, haveBreakEffect, TypeOK
    <2>2. in' \in Seq(Chars) /\ mGetCharBuf' \in Chars \cup {NoChar} /\ mGetCharBuf' # Break
      <3>1. CASE Peeks
        <4>1. in \in Seq(Chars) /\ in # <<>>
          BY <3>1 DEF Peeks, TypeOK
        <4>2. Tail(in) \in Seq(Chars) /\ Head(in) \in Chars
          BY <4>1
        <4>3. in' = Tail(in) /\ mGetCharBuf' = IF Head(in) # Break THEN Head(in) ELSE mGetCharBuf
          BY <1>6, <3>1 DEF PollBreak, haveBreakEffect
        <4> QED
          BY <4>2, <4>3 DEF TypeOK, MembersKept
      <3>2. CASE ~Peeks
        BY <1>6, <3>2 DEF PollBreak, haveBreakEffect, TypeOK, MembersKept
      <3> QED
        BY <3>1, <3>2
    <2>3. TypeOK'
      BY <1>6, <2>1, <2>2 DEF PollBreak, TypeOK, lineVars, getVars, Places
    <2>4. NothingSentYet' /\ MembersKept'
      BY <1>6, <2>1, <2>2 DEF PollBreak, NothingSentYet, MembersKept, lineVars, getVars
    <2> QED
      BY <2>3, <2>4
  <1>7. CASE TargetStops
    BY <1>7 DEF TargetStops, TypeOK, NothingSentYet, MembersKept, lineVars, getVars, Places
  <1>8. CASE PutPkt
    <2>1. /\ pc = "put" /\ pc' \in {"closed", "start", "ack"}
          /\ out' = out \/ \E x \in {"OK", "reply"} : out' = Append(out, x)
      BY <1>8 DEF PutPkt, Done, AfterFailedWrite
    <2>2. out' \in Seq({"+", "-", "OK", "reply"})
      BY <2>1, OutType
    <2>3. TypeOK'
      BY <1>8, <2>1, <2>2 DEF PutPkt, TypeOK, lineVars, getVars, Places
    <2>4. NothingSentYet' /\ MembersKept'
      BY <1>8, <2>1 DEF PutPkt, NothingSentYet, MembersKept, lineVars, getVars
    <2> QED
      BY <2>3, <2>4
  <1>9. CASE GetAck
    <2>1. PICK ch \in Chars :
            /\ getRspChar(ch)
            /\ \/ pc = "ack" /\ pc' = AfterAck(ch)
               \/ pc = "ack2" /\ pc' = AfterBreak(ch)
            /\ mHavePendingBreak' = (mHavePendingBreak \/ pc' = "ack2")
      BY <1>9 DEF GetAck
    <2>2. in' \in Seq(Chars) /\ mGetCharBuf' = NoChar
      BY <2>1, Reading
    <2>3. /\ pc \in {"ack", "ack2"}
          /\ pc' \in {"closed", "start", "put", "assert", "ack2"}
          /\ mHavePendingBreak' \in BOOLEAN
          /\ pc' = "ack2" => mHavePendingBreak'
      BY <2>1 DEF AfterAck, AfterBreak, Done, TypeOK
    <2>4. TypeOK'
      BY <1>9, <2>2, <2>3 DEF GetAck, TypeOK, lineVars, getVars, Places
    <2>5. NothingSentYet' /\ MembersKept'
      BY <1>0, <1>9, <2>2, <2>3 DEF GetAck, NothingSentYet, MembersKept, lineVars, getVars
    <2> QED
      BY <2>4, <2>5
  <1>10. CASE AckFails
    <2>1. pc \in {"ack", "ack2"} /\ pc' \in {"closed", "start", "put"}
      BY <1>10 DEF AckFails, Done
    <2> QED
      BY <1>10, <2>1 DEF AckFails, TypeOK, NothingSentYet, MembersKept, lineVars, getVars, Places
  <1> QED
    BY <1>1, <1>2, <1>3, <1>4, <1>5, <1>6, <1>7, <1>8, <1>9, <1>10 DEF Server, ServerThread

LEMMA BaseConnect ==
  ASSUME BaseInv, RspConnect
  PROVE  BaseInv'
  <1>1. /\ newPkt' \in Seq(Chars) /\ Len(newPkt') = 0 /\ in' \in Seq(Chars)
        /\ out' \in Seq({"+", "-", "OK", "reply"})
        /\ sent' \in Seq(Bodies) /\ delivered' \in Seq(Seq(Chars))
    BY Empty, Zenon DEF RspConnect
  <1>2. TypeOK'
    <2>1. Len(newPkt') <= MaxPacketSize
      BY <1>1, ConnectionAssumption
    <2>2. /\ mHavePendingBreak' \in BOOLEAN /\ mNoAckMode' \in BOOLEAN
          /\ broke' \in BOOLEAN /\ clientNoAck' \in BOOLEAN
          /\ peerGone' \in BOOLEAN /\ leftOver' \in BOOLEAN
      BY Zenon DEF RspConnect, AckModeOnConnect, BaseInv, TypeOK
    <2>3. 0 \in 0 .. CsumMod - 1 /\ 0 \in Nat
      BY ConnectionAssumption
    <2>4. /\ mGetCharBuf' \in Chars \cup {NoChar} /\ pc' \in Places
          /\ checksum' \in 0 .. CsumMod - 1 /\ client' \in {"idle", "acking", "waiting"}
          /\ replies' \in Nat /\ breaksSent' \in Nat /\ breaksTaken' \in Nat
          /\ noise' \in Nat
      BY <2>3, Zenon DEF RspConnect, Places, BaseInv, TypeOK
    <2> QED
      BY <1>1, <2>1, <2>2, <2>4 DEF TypeOK
  <1>3. NothingSentYet' /\ MembersKept'
    BY DEF RspConnect, BaseInv, NothingSentYet, MembersKept
  <1> QED
    BY <1>2, <1>3 DEF BaseInv

LEMMA BaseClient ==
  ASSUME BaseInv, Client
  PROVE  BaseInv'
  <1> USE DEF BaseInv
  <1>1. CASE ClientSend
    <2>1. PICK b \in Bodies : sent' = Append(sent, b) /\ Transmit(b)
      BY <1>1 DEF ClientSend
    <2>2. in' \in Seq(Chars) /\ noise' \in Nat
      BY <2>1, TransmitType
    <2>3. sent \in Seq(Bodies)
      BY DEF TypeOK
    <2>4. sent' \in Seq(Bodies) /\ sent' # <<>>
      BY <2>1, <2>3
    <2>5. client' \in {"idle", "acking", "waiting"} /\ broke' \in BOOLEAN
      BY <1>1 DEF ClientSend
    <2>6. TypeOK'
      BY <1>1, <2>2, <2>4, <2>5 DEF ClientSend, TypeOK, serverVars, getVars
    <2>7. NothingSentYet' /\ MembersKept'
      BY <1>1, <2>4 DEF ClientSend, NothingSentYet, MembersKept, serverVars, getVars
    <2> QED
      BY <2>6, <2>7
  <1>2. CASE ClientAcked
    <2>1. out # <<>> /\ out' = Tail(out) /\ client' \in {client, "waiting"}
      BY <1>2 DEF ClientAcked
    <2>2. sent # <<>> /\ sent' = sent
      BY <1>2, <2>1 DEF ClientAcked, NothingSentYet
    <2>3. out' \in Seq({"+", "-", "OK", "reply"})
      BY <2>1 DEF TypeOK
    <2>4. in' \in Seq(Chars) /\ noise' \in Nat
      <3>1. CASE UNCHANGED <<in, noise>>
        BY <3>1 DEF TypeOK
      <3>2. CASE Transmit(sent[Len(sent)])
        <4>1. sent \in Seq(Bodies)
          BY DEF TypeOK
        <4>2. sent[Len(sent)] \in Bodies
          BY <2>2, <4>1
        <4> QED
          BY <3>2, <4>2, TransmitType
      <3> QED
        BY <1>2, <3>1, <3>2 DEF ClientAcked
    <2>5. TypeOK'
      BY <1>2, <2>1, <2>3, <2>4 DEF ClientAcked, TypeOK, serverVars, getVars
    <2>6. NothingSentYet' /\ MembersKept'
      BY <1>2, <2>2 DEF ClientAcked, NothingSentYet, MembersKept, serverVars, getVars
    <2> QED
      BY <2>5, <2>6
  <1>3. CASE ClientReply
    <2>1. /\ out # <<>> /\ out' = Tail(out) /\ client' \in {client, "idle"}
          /\ clientNoAck' \in BOOLEAN /\ replies' \in Nat /\ noise' \in Nat
      <3>1. clientNoAck' \in BOOLEAN
        BY <1>3, Zenon DEF ClientReply, TypeOK
      <3>2. /\ out # <<>> /\ out' = Tail(out) /\ client' \in {client, "idle"}
            /\ replies' \in Nat /\ noise' \in Nat
        BY <1>3 DEF ClientReply, TypeOK
      <3> QED
        BY <3>1, <3>2
    <2>2. sent # <<>> /\ sent' = sent
      BY <1>3, <2>1 DEF ClientReply, NothingSentYet
    <2>3. out' \in Seq({"+", "-", "OK", "reply"})
      BY <2>1 DEF TypeOK
    <2>4. in' \in Seq(Chars)
      <3>1. in \in Seq(Chars) /\ Plus \in Chars /\ Minus \in Chars
        BY CharsType DEF TypeOK
      <3>2. in' \in {in, Append(in, Plus), Append(in, Minus)}
        BY <1>3 DEF ClientReply
      <3> QED
        BY <3>1, <3>2
    <2>5. TypeOK'
      BY <1>3, <2>1, <2>3, <2>4 DEF ClientReply, TypeOK, serverVars, getVars
    <2>6. NothingSentYet' /\ MembersKept'
      BY <1>3, <2>2 DEF ClientReply, NothingSentYet, MembersKept, serverVars, getVars
    <2> QED
      BY <2>5, <2>6
  <1>4. CASE ClientBreak
    <2>1. in' \in Seq(Chars)
      <3>1. in \in Seq(Chars) /\ Break \in Chars
        BY CharsType DEF TypeOK
      <3> QED
        BY <1>4, <3>1 DEF ClientBreak
    <2>2. TypeOK'
      BY <1>4, <2>1 DEF ClientBreak, TypeOK, serverVars, getVars
    <2>3. NothingSentYet' /\ MembersKept'
      BY <1>4 DEF ClientBreak, NothingSentYet, MembersKept, serverVars, getVars
    <2> QED
      BY <2>2, <2>3
  <1>5. CASE ClientGone
    BY <1>5 DEF ClientGone, TypeOK, NothingSentYet, MembersKept, serverVars, getVars
  <1> QED
    BY <1>1, <1>2, <1>3, <1>4, <1>5 DEF Client

LEMMA BaseStep == BaseInv /\ [Next]_vars => BaseInv'
  <1> SUFFICES ASSUME BaseInv, [Next]_vars PROVE BaseInv'
    OBVIOUS
  <1>1. CASE UNCHANGED vars
    BY <1>1 DEF BaseInv, TypeOK, NothingSentYet, MembersKept, vars, getVars, lineVars
  <1> QED
    BY <1>1, BaseServer, BaseConnect, BaseClient DEF Next, Terminated

\* Every variable keeps its type, for all packets, buffer sizes and noise on
\* the line: in particular the buffer of getPkt never overflows, although a
\* packet that was refused is left in it (RspPacketBuilder, getPkt).
THEOREM TypeCorrect == Spec => []TypeOK
  <1>1. BaseInv => TypeOK
    BY DEF BaseInv
  <1> QED
    BY BaseInit, BaseStep, <1>1, PTL DEF Spec

-----------------------------------------------------------------------------
\* The protocol is kept while nothing is spoiled

\* A packet of the client fits into the buffer with a character to spare:
\* getPkt drops one that fills it.
PacketsFit == \A b \in Bodies : Len(b) < MaxPacketSize

LEMMA Numbers ==
  ASSUME TypeOK, CountInv
  PROVE  /\ N \in Nat /\ Len(sent) \in Nat /\ replies \in Nat
         /\ N \in 0 .. Len(sent) /\ Len(sent) <= N + 2
         /\ replies <= N /\ N <= Len(sent) /\ Len(sent) <= replies + 2
         /\ sent \in Seq(Bodies)
  <1>1. N \in Nat /\ Len(sent) \in Nat /\ replies \in Nat /\ sent \in Seq(Bodies)
    BY DEF TypeOK, N
  <1>2. replies <= N /\ N <= Len(sent) /\ Len(sent) <= replies + 2
    BY DEF CountInv
  <1> QED
    BY <1>1, <1>2

\* What is to be read after the packets that were delivered.
LEMMA StreamNow ==
  ASSUME TypeOK, CountInv, NEW b \in BOOLEAN, NEW c \in BOOLEAN, NEW d \in BOOLEAN
  PROVE  Stream(sent, N, b, c, d) \in Seq(Chars) /\ Breaks(sent, N, b, c, d) \in Nat
  BY Numbers, StreamType

\* What is to be read after the packet that is being read.
LEMMA StreamThen ==
  ASSUME TypeOK, CountInv, NEW b \in BOOLEAN, NEW c \in BOOLEAN, NEW d \in BOOLEAN,
         N < Len(sent)
  PROVE  /\ Stream(sent, N + 1, b, c, d) \in Seq(Chars)
         /\ Breaks(sent, N + 1, b, c, d) \in Nat
         /\ Current \in Bodies /\ Current \in Seq(Chars)
         /\ Sum(Current) \in 0 .. CsumMod - 1
         /\ <<Hash, Digit(Sum(Current))>> \in Seq(Chars)
         /\ Digit(Sum(Current)) \in Chars /\ Hash \in Chars
         /\ IsHex(Digit(Sum(Current)))
  <1>1. N + 1 \in 0 .. Len(sent) /\ Len(sent) <= (N + 1) + 2 /\ sent \in Seq(Bodies)
    BY Numbers
  <1>2. Stream(sent, N + 1, b, c, d) \in Seq(Chars) /\ Breaks(sent, N + 1, b, c, d) \in Nat
    BY <1>1, StreamType
  <1>3. Current \in Bodies
    BY <1>1, Numbers DEF Current
  <1> QED
    BY <1>2, <1>3, WireShape, CharsType

LEMMA FewerBreaks ==
  ASSUME TypeOK
  PROVE  \A n \in Nat : /\ BreaksLeft(1 + n) => BreaksLeft(n)
                        /\ BreaksLeft(Count(TRUE) + n) <=> BreaksLeft(1 + n)
                        /\ BreaksLeft(Count(FALSE) + n) <=> BreaksLeft(n)
  BY DEF TypeOK, BreaksLeft, Count

\* The stream without the break in front of it.
LEMMA TakeBreak ==
  ASSUME TypeOK, CountInv, NEW c \in BOOLEAN, NEW d \in BOOLEAN, StreamOK(N, TRUE, c, d)
  PROVE  /\ Stream(sent, N, TRUE, c, d) = <<Break>> \o Stream(sent, N, FALSE, c, d)
         /\ StreamOK(N, FALSE, c, d)
         /\ BreaksLeft(1 + Breaks(sent, N, FALSE, c, d))
  <1>1. /\ Stream(sent, N, TRUE, c, d) = <<Break>> \o Stream(sent, N, FALSE, c, d)
        /\ Breaks(sent, N, TRUE, c, d) = 1 + Breaks(sent, N, FALSE, c, d)
    BY Numbers, StreamBreak
  <1>2. BreaksLeft(1 + Breaks(sent, N, FALSE, c, d))
    BY <1>1 DEF StreamOK
  <1>3. LastBreak(sent, N, FALSE, c, d) => client = "idle" \/ broke
    <2>1. CASE N = Len(sent)
      BY <2>1 DEF LastBreak
    <2>2. CASE N # Len(sent)
      BY <2>2, Zenon DEF StreamOK, LastBreak
    <2> QED
      BY <2>1, <2>2
  <1>4. BreaksLeft(Breaks(sent, N, FALSE, c, d))
    <2>1. Breaks(sent, N, FALSE, c, d) \in Nat
      BY StreamNow
    <2> QED
      BY <1>2, <2>1, FewerBreaks, Zenon
  <1> QED
    BY <1>1, <1>2, <1>3, <1>4 DEF StreamOK

\* The stream without the packet in front of it.
LEMMA TakePacket ==
  ASSUME TypeOK, CountInv, NEW c \in BOOLEAN, NEW d \in BOOLEAN, StreamOK(N, FALSE, c, d),
         N < Len(sent)
  PROVE  /\ Stream(sent, N, FALSE, c, d) =
              <<Dollar>> \o (Current \o (<<Hash, Digit(Sum(Current))>>
                                         \o Stream(sent, N + 1, c, d, FALSE)))
         /\ Current \o (<<Hash, Digit(Sum(Current))>> \o Stream(sent, N + 1, c, d, FALSE))
              \in Seq(Chars)
         /\ StreamOK(N + 1, c, d, FALSE)
  <1>1. /\ Stream(sent, N, FALSE, c, d) =
              <<Dollar>> \o (Current \o (<<Hash, Digit(Sum(Current))>>
                                         \o Stream(sent, N + 1, c, d, FALSE)))
        /\ Breaks(sent, N, FALSE, c, d) = Breaks(sent, N + 1, c, d, FALSE)
        /\ LastBreak(sent, N, FALSE, c, d) <=> LastBreak(sent, N + 1, c, d, FALSE)
    <2>1. sent \in Seq(Bodies) /\ N \in 0 .. Len(sent) /\ Len(sent) <= N + 2
      BY Numbers
    <2>2. Stream(sent, N, FALSE, c, d) =
              <<Dollar>> \o (sent[N + 1] \o (<<Hash, Digit(Sum(sent[N + 1]))>>
                                         \o Stream(sent, N + 1, c, d, FALSE)))
      BY <2>1, StreamPacket, Zenon
    <2>3. Breaks(sent, N, FALSE, c, d) = Breaks(sent, N + 1, c, d, FALSE)
      BY <2>1, StreamPacket, Zenon
    <2>4. LastBreak(sent, N, FALSE, c, d) <=> LastBreak(sent, N + 1, c, d, FALSE)
      <3>1. N # Len(sent) /\ (N + 1 # Len(sent) => (N + 1) + 1 = Len(sent))
        BY Numbers
      <3> QED
        BY <3>1, Zenon DEF LastBreak
    <2> QED
      BY <2>2, <2>3, <2>4, Zenon DEF Current
  <1>2. Current \o (<<Hash, Digit(Sum(Current))>> \o Stream(sent, N + 1, c, d, FALSE))
              \in Seq(Chars)
    BY StreamThen, Joined
  <1>3. StreamOK(N + 1, c, d, FALSE)
    BY <1>1 DEF StreamOK
  <1> QED
    BY <1>1, <1>2, <1>3

LEMMA NoPacket ==
  ASSUME TypeOK, CountInv, NEW b \in BOOLEAN, NEW c \in BOOLEAN, NEW d \in BOOLEAN,
         N = Len(sent)
  PROVE  Stream(sent, N, b, c, d) = Br(b)
  BY Numbers, StreamEnd

LEMMA StartKeepsLine ==
  ASSUME BaseInv, Protocol, GetStart
  PROVE  /\ LineInv'
         /\ pc' = "body" => N < Len(sent) \/ N = 0
         /\ pc' \in {"start", "body"}
  <1> USE DEF BaseInv
  <1>1. PICK ch \in Chars :
          /\ getRspChar(ch)
          /\ IF ch = Dollar
             THEN checksum' = 0 /\ pc' = IF HasRoom(newPkt) THEN "body" ELSE "start"
             ELSE UNCHANGED <<checksum, pc>>
    BY DEF GetStart
  <1>2. /\ pc = "start" /\ N' = N /\ newPkt' = newPkt /\ sent' = sent /\ replies' = replies
        /\ breaksTaken' = breaksTaken /\ breaksSent' = breaksSent /\ leftOver' = leftOver
        /\ mHavePendingBreak' = mHavePendingBreak /\ mNoAckMode' = mNoAckMode
        /\ client' = client /\ clientNoAck' = clientNoAck /\ broke' = broke
        /\ peerGone' = peerGone /\ Current' = Current
    BY DEF GetStart, lineVars, N, Current
  <1>3. CountInv /\ TypeOK
    BY DEF Protocol
  <1>4. PICK b \in BOOLEAN, c \in BOOLEAN, d \in BOOLEAN :
          PlainAt(b, c, d) \/ StaleAt(c, d) \/ PlusAt(b, c, d)
    BY <1>2 DEF Protocol, LineInv, StalePacketAt, BodyAt, SumAt
  <1>5. /\ newPkt = <<>>
        /\ ch # Dollar => pc' = "start"
        /\ ch = Dollar => pc' = "body" /\ checksum' = 0
    <2>1. newPkt = <<>>
      BY <1>4 DEF PlainAt, StaleAt, PlusAt
    <2>2. HasRoom(newPkt)
      BY <2>1, Empty, ConnectionAssumption DEF HasRoom
    <2> QED
      BY <1>1, <1>2, <2>1, <2>2
  <1>6. Break # Dollar /\ Plus # Dollar /\ Break \in Chars /\ Plus \in Chars /\ Dollar \in Chars
    BY CharsType DEF Break, Plus, Dollar
  <1>7. ASSUME Incoming' = Stream(sent, N, FALSE, c, d), StreamOK(N, FALSE, c, d), ch # Dollar
        PROVE  PlainAt(FALSE, c, d)'
    BY <1>2, <1>5, <1>7 DEF PlainAt, StreamOK, BreaksLeft, Acking
  <1>8. CASE PlainAt(b, c, d)
    <2>1. CASE b = TRUE
      <3>1. Incoming = <<Break>> \o Stream(sent, N, FALSE, c, d) /\ StreamOK(N, FALSE, c, d)
        BY <1>3, <1>8, <2>1, TakeBreak DEF PlainAt
      <3>2. ch = Break /\ Incoming' = Stream(sent, N, FALSE, c, d)
        BY <1>1, <1>3, <1>6, <3>1, StreamNow, ReadingFirst
      <3>3. PlainAt(FALSE, c, d)'
        BY <1>6, <1>7, <3>1, <3>2
      <3> QED
        BY <1>5, <1>6, <3>2, <3>3 DEF LineInv
    <2>2. CASE b = FALSE /\ N < Len(sent)
      <3> DEFINE T == Stream(sent, N + 1, c, d, FALSE)
                 R == Current \o (<<Hash, Digit(Sum(Current))>> \o T)
      <3>1. Incoming = <<Dollar>> \o R /\ R \in Seq(Chars) /\ StreamOK(N + 1, c, d, FALSE)
        BY <1>3, <1>8, <2>2, TakePacket DEF PlainAt
      <3>2. ch = Dollar /\ Incoming' = R
        <4> HIDE DEF R
        <4> QED
          BY <1>1, <1>3, <1>6, <3>1, ReadingFirst
      <3>3. /\ 0 <= Len(Current) /\ <<>> = SubSeq(Current, 1, 0) /\ Len(<<>>) = 0
            /\ SubSeq(Current, 0 + 1, Len(Current)) = Current
        BY <1>3, <2>2, StreamThen
      <3>4. checksum' = Sum(<<>>)
        BY <1>5, <3>2, SumEmpty
      <3>5. BodyAt(c, d, FALSE)'
        BY <1>2, <1>5, <2>2, <3>1, <3>2, <3>3, <3>4 DEF BodyAt, StreamOK, BreaksLeft
      <3> QED
        BY <1>5, <2>2, <3>2, <3>5 DEF LineInv
    <2>3. CASE b = FALSE /\ N = Len(sent)
      <3>1. Incoming = <<>>
        BY <1>3, <1>8, <2>3, NoPacket DEF PlainAt, Br
      <3> QED
        BY <1>1, <3>1 DEF getRspChar
    <2>4. N < Len(sent) \/ N = Len(sent)
      BY <1>3, Numbers
    <2> QED
      BY <2>1, <2>2, <2>3, <2>4, Zenon
  <1>9. CASE StaleAt(c, d)
    <2>1. Incoming = <<mGetCharBuf>> \o in /\ mGetCharBuf \in Chars /\ in \in Seq(Chars)
      BY <1>9 DEF StaleAt, Incoming, TypeOK
    <2>2. ch = mGetCharBuf /\ Incoming' = in
      BY <1>1, <2>1, ReadingFirst
    <2>3. N = 0 /\ Incoming' = Stream(sent, N, FALSE, c, d) /\ StreamOK(N, FALSE, c, d)
      BY <1>9, <2>2 DEF StaleAt
    <2>4. CASE ch = Dollar
      <3>1. StalePacketAt(c, d)'
        BY <1>2, <1>5, <2>3, <2>4 DEF StalePacketAt, StreamOK, BreaksLeft
      <3> QED
        BY <1>5, <2>3, <2>4, <3>1 DEF LineInv
    <2>5. CASE ch # Dollar
      <3>1. PlainAt(FALSE, c, d)'
        BY <1>7, <2>3, <2>5
      <3> QED
        BY <1>5, <2>5, <3>1 DEF LineInv
    <2> QED
      BY <2>4, <2>5
  <1>10. CASE PlusAt(b, c, d)
    <2> DEFINE T == Stream(sent, N, FALSE, c, d)
    <2>0. T \in Seq(Chars) /\ <<Plus>> \o T \in Seq(Chars) /\ Breaks(sent, N, FALSE, c, d) \in Nat
      <3>1. T \in Seq(Chars) /\ Breaks(sent, N, FALSE, c, d) \in Nat
        BY <1>3, StreamNow
      <3> HIDE DEF T
      <3>2. <<Plus>> \o T \in Seq(Chars)
        BY <1>6, <3>1, ReadOne
      <3> QED
        BY <3>1, <3>2
    <2>1. CASE b = TRUE
      <3>1. Incoming = <<Break>> \o (<<Plus>> \o T)
        BY <1>10, <2>1 DEF PlusAt, Br
      <3>2. ch = Break /\ Incoming' = <<Plus>> \o T
        <4> HIDE DEF T
        <4> QED
          BY <1>1, <1>6, <2>0, <3>1, ReadingFirst
      <3>3. Incoming' = Br(FALSE) \o (<<Plus>> \o T)
        BY <2>0, <3>2, JoinedEmpty DEF Br
      <3>4. BreaksLeft(Count(FALSE) + Breaks(sent, N, FALSE, c, d))
        BY <1>3, <1>10, <2>0, <2>1, FewerBreaks, Zenon DEF PlusAt
      <3>5. PlusAt(FALSE, c, d)'
        BY <1>2, <1>5, <1>6, <1>10, <3>2, <3>3, <3>4 DEF PlusAt, BreaksLeft, Acking
      <3> QED
        BY <1>5, <1>6, <3>2, <3>5 DEF LineInv
    <2>2. CASE b = FALSE
      <3>1. Incoming = <<Plus>> \o T
        BY <1>10, <2>0, <2>2, JoinedEmpty DEF PlusAt, Br
      <3>2. ch = Plus /\ Incoming' = T
        BY <1>1, <1>6, <2>0, <3>1, ReadingFirst
      <3>3. StreamOK(N, FALSE, c, d)
        BY <1>3, <1>10, <2>0, <2>2, FewerBreaks, Zenon DEF PlusAt, StreamOK
      <3>4. PlainAt(FALSE, c, d)'
        BY <1>6, <1>7, <3>2, <3>3
      <3> QED
        BY <1>5, <1>6, <3>2, <3>4 DEF LineInv
    <2> QED
      BY <2>1, <2>2
  <1> QED
    BY <1>4, <1>8, <1>9, <1>10

\* The start of a packet, or a character in front of one, is read.
LEMMA StartKeeps ==
  ASSUME BaseInv, Protocol, GetStart
  PROVE  Protocol'
  <1>1. LineInv' /\ (pc' = "body" => N < Len(sent) \/ N = 0) /\ pc' \in {"start", "body"}
    BY StartKeepsLine
  <1>2. /\ pc = "start" /\ N' = N /\ sent' = sent /\ replies' = replies /\ out' = out
        /\ delivered' = delivered /\ mNoAckMode' = mNoAckMode /\ Request' = Request
        /\ client' = client /\ clientNoAck' = clientNoAck /\ broke' = broke
        /\ peerGone' = peerGone
    BY DEF GetStart, lineVars, N, Request
  <1>3. CountInv'
    BY <1>1, <1>2 DEF Protocol, CountInv, Handling, Getting
  <1>4. ModeInv'
    <2>1. N \in Nat /\ replies \in Nat
      BY Numbers DEF BaseInv, Protocol
    <2> QED
      BY <1>1, <1>2, <2>1 DEF Protocol, ModeInv, Acking
  <1>5. OutInv'
    BY <1>1, <1>2 DEF Protocol, OutInv, Underway, Handling, ReplyTo
  <1> QED
    BY <1>1, <1>3, <1>4, <1>5 DEF Protocol

\* A character of a packet, or its end, is read; a packet that seemed to
\* have started with the character of another session starts again.
LEMMA BodyKeepsLine ==
  ASSUME BaseInv, Protocol, PacketsFit, GetBody
  PROVE  LineInv' /\ pc' \in {"body", "sum"}
  <1> USE DEF BaseInv
  <1>1. PICK ch \in Chars :
          /\ getRspChar(ch)
          /\ \/ Restarts(ch) /\ newPkt' = <<>> /\ checksum' = 0 /\ pc' = "body"
             \/ ch = Hash /\ pc' = "sum" /\ UNCHANGED <<newPkt, checksum>>
             \/ /\ ~Restarts(ch) /\ ch # Hash
                /\ newPkt' = Append(newPkt, ch)
                /\ checksum' = (checksum + ch) % CsumMod
                /\ pc' = IF HasRoom(newPkt') THEN "body" ELSE "start"
    BY DEF GetBody
  <1>2. /\ pc = "body" /\ N' = N /\ sent' = sent /\ replies' = replies
        /\ breaksTaken' = breaksTaken /\ breaksSent' = breaksSent /\ leftOver' = leftOver
        /\ mHavePendingBreak' = mHavePendingBreak
        /\ client' = client /\ broke' = broke /\ Current' = Current
    BY DEF GetBody, lineVars, N, Current
  <1>3. CountInv /\ TypeOK
    BY DEF Protocol
  <1>4. PICK b \in BOOLEAN, c \in BOOLEAN, d \in BOOLEAN :
          StalePacketAt(c, d) \/ BodyAt(b, c, d)
    BY <1>2 DEF Protocol, LineInv, PlainAt, StaleAt, PlusAt, Acking, SumAt
  <1>5. Dollar # Hash /\ Dollar \in Chars /\ Hash \in Chars
    BY CharsType DEF Dollar, Hash
  <1>6. CASE StalePacketAt(c, d)
    <2>1. N = 0 /\ Incoming = Stream(sent, N, FALSE, c, d) /\ StreamOK(N, FALSE, c, d)
      BY <1>6 DEF StalePacketAt
    <2>2. N < Len(sent)
      <3>1. N # Len(sent)
        <4> SUFFICES ASSUME N = Len(sent) PROVE FALSE
          OBVIOUS
        <4>1. Incoming = <<>>
          BY <1>3, <2>1, NoPacket DEF Br
        <4> QED
          BY <1>1, <4>1 DEF getRspChar
      <3> QED
        BY <1>3, <3>1, Numbers
    <2> DEFINE T == Stream(sent, N + 1, c, d, FALSE)
               R == Current \o (<<Hash, Digit(Sum(Current))>> \o T)
    <2>3. Incoming = <<Dollar>> \o R /\ R \in Seq(Chars) /\ StreamOK(N + 1, c, d, FALSE)
      BY <1>3, <2>1, <2>2, TakePacket
    <2>4. ch = Dollar /\ Incoming' = R
      <3> HIDE DEF R
      <3> QED
        BY <1>1, <1>3, <1>5, <2>3, ReadingFirst
    <2>5. newPkt' = <<>> /\ checksum' = Sum(<<>>) /\ pc' = "body"
      BY <1>1, <1>5, <2>4, SumEmpty DEF Restarts
    <2>6. /\ 0 <= Len(Current) /\ <<>> = SubSeq(Current, 1, 0) /\ Len(<<>>) = 0
          /\ SubSeq(Current, 0 + 1, Len(Current)) = Current
      BY <1>3, <2>2, StreamThen
    <2>7. BodyAt(c, d, FALSE)'
      BY <1>2, <2>2, <2>3, <2>4, <2>5, <2>6 DEF BodyAt, StreamOK, BreaksLeft
    <2> QED
      BY <2>5, <2>7 DEF LineInv
  <1>7. CASE BodyAt(b, c, d)
    <2> DEFINE T == Stream(sent, N + 1, b, c, d)
               H == <<Hash, Digit(Sum(Current))>>
               n == Len(newPkt)
               K == Current
    <2>1. /\ N < Len(sent) /\ newPkt \in Seq(Chars) /\ n \in Nat
          /\ n <= Len(K) /\ newPkt = SubSeq(K, 1, n) /\ checksum = Sum(newPkt)
          /\ Incoming = SubSeq(K, n + 1, Len(K)) \o (H \o T) /\ StreamOK(N + 1, b, c, d)
      BY <1>3, <1>7 DEF BodyAt, TypeOK
    <2>2. /\ T \in Seq(Chars) /\ K \in Seq(Chars) /\ H \in Seq(Chars) /\ K \in Bodies
          /\ Len(K) \in Nat /\ Digit(Sum(K)) \in Chars
      BY <1>3, <2>1, StreamThen
    <2>3. H \o T \in Seq(Chars) /\ H \o T = <<Hash>> \o (<<Digit(Sum(K))>> \o T)
          /\ <<Digit(Sum(K))>> \o T \in Seq(Chars)
      <3> HIDE DEF T, K
      <3>1. <<Hash>> \in Seq(Chars) /\ <<Digit(Sum(K))>> \in Seq(Chars)
        BY <1>5, <2>2
      <3>2. H = <<Hash>> \o <<Digit(Sum(K))>>
        BY <1>5, <2>2 DEF K
      <3>3. (<<Hash>> \o <<Digit(Sum(K))>>) \o T = <<Hash>> \o (<<Digit(Sum(K))>> \o T)
        BY <2>2, <3>1, JoinedThrice, Zenon
      <3> HIDE DEF H
      <3> QED
        BY <2>2, <3>1, <3>2, <3>3, Joined
    <2>4. CASE n < Len(K)
      <3> DEFINE x == K[n + 1]
                 R == SubSeq(K, n + 2, Len(K))
      <3>1. K \in Seq(Chars \ {Dollar, Hash}) /\ Len(K) < MaxPacketSize
        BY <2>2, ConnectionAssumption DEF PacketsFit
      <3>2. x \in Chars /\ x # Dollar /\ x # Hash
        <4> HIDE DEF K, n
        <4> QED
          BY <2>1, <2>4, <3>1
      <3>3. SubSeq(K, n + 1, Len(K)) = <<x>> \o R /\ R \in Seq(Chars) /\ <<x>> \in Seq(Chars)
            /\ SubSeq(K, 1, n + 1) = Append(SubSeq(K, 1, n), x)
        <4> HIDE DEF K, n
        <4>1. K \in Seq(Chars) /\ n \in Nat /\ n < Len(K)
          BY <2>1, <2>2, <2>4
        <4>2. SubSeq(K, n + 1, Len(K)) = <<x>> \o R
          BY <4>1, ShorterRest
        <4>3. R \in Seq(Chars) /\ <<x>> \in Seq(Chars)
          BY <4>1, <3>2
        <4>4. SubSeq(K, 1, n + 1) = Append(SubSeq(K, 1, n), x)
          BY <4>1, LongerPrefix
        <4> QED
          BY <4>2, <4>3, <4>4
      <3> HIDE DEF x, R, K, n, T, H
      <3>4. Incoming = <<x>> \o (R \o (H \o T)) /\ R \o (H \o T) \in Seq(Chars)
        <4>1. (<<x>> \o R) \o (H \o T) = <<x>> \o (R \o (H \o T))
          BY <2>3, <3>3, JoinedThrice, Zenon
        <4>2. R \o (H \o T) \in Seq(Chars)
          BY <2>3, <3>3, Joined
        <4> QED
          BY <2>1, <3>3, <4>1, <4>2
      <3>5. ch = x /\ Incoming' = R \o (H \o T)
        BY <1>1, <1>3, <3>2, <3>4, ReadingFirst
      <3>6. /\ newPkt' = Append(newPkt, x) /\ checksum' = (checksum + x) % CsumMod
            /\ pc' = IF HasRoom(newPkt') THEN "body" ELSE "start"
        BY <1>1, <3>2, <3>5 DEF Restarts
      <3>7. newPkt' = SubSeq(K, 1, n + 1)
        BY <2>1, <3>3, <3>6, Zenon
      <3>8. Len(newPkt') = n + 1
        BY <2>1, <3>2, <3>6 DEF n
      <3>9. pc' = "body"
        BY <2>1, <2>2, <2>4, <3>1, <3>6, <3>8, ConnectionAssumption DEF HasRoom
      <3>10. checksum' = Sum(newPkt')
        BY <2>1, <3>2, <3>6, SumAppend
      <3>11. n + 1 <= Len(K) /\ (n + 1) + 1 = n + 2
        BY <2>1, <2>2, <2>4
      <3>12. BodyAt(b, c, d)'
        BY <1>2, <2>1, <3>5, <3>7, <3>8, <3>9, <3>10, <3>11
           DEF BodyAt, StreamOK, BreaksLeft, K, R, H, T
      <3> QED
        BY <3>9, <3>12 DEF LineInv
    <2>5. CASE n = Len(K)
      <3> HIDE DEF K, n, T, H
      <3>1. SubSeq(K, n + 1, Len(K)) = <<>> /\ SubSeq(K, 1, n) = K
        BY <2>2, <2>5
      <3>2. Incoming = <<Hash>> \o (<<Digit(Sum(K))>> \o T)
        BY <2>1, <2>3, <3>1, JoinedEmpty
      <3>3. ch = Hash /\ Incoming' = <<Digit(Sum(K))>> \o T
        BY <1>1, <1>3, <1>5, <2>3, <3>2, ReadingFirst
      <3>4. pc' = "sum" /\ newPkt' = K /\ checksum' = Sum(K)
        BY <1>1, <1>5, <2>1, <3>1, <3>3 DEF Restarts
      <3>5. SumAt(b, c, d)'
        BY <1>2, <2>1, <3>3, <3>4 DEF SumAt, StreamOK, BreaksLeft, K, T
      <3> QED
        BY <3>4, <3>5 DEF LineInv
    <2> QED
      BY <2>1, <2>2, <2>4, <2>5
  <1> QED
    BY <1>4, <1>6, <1>7

LEMMA BodyKeeps ==
  ASSUME BaseInv, Protocol, PacketsFit, GetBody
  PROVE  Protocol'
  <1>1. LineInv' /\ pc' \in {"body", "sum"}
    BY BodyKeepsLine
  <1>2. /\ pc = "body" /\ N' = N /\ sent' = sent /\ replies' = replies /\ out' = out
        /\ delivered' = delivered /\ mNoAckMode' = mNoAckMode /\ Request' = Request
        /\ client' = client /\ clientNoAck' = clientNoAck /\ broke' = broke
        /\ peerGone' = peerGone
    BY DEF GetBody, lineVars, N, Request
  <1>3. CountInv'
    BY <1>1, <1>2 DEF Protocol, CountInv, Handling, Getting
  <1>4. ModeInv'
    BY <1>1, <1>2 DEF Protocol, ModeInv, Acking
  <1>5. OutInv'
    BY <1>1, <1>2 DEF Protocol, OutInv, Underway, Handling, ReplyTo
  <1> QED
    BY <1>1, <1>3, <1>4, <1>5 DEF Protocol

\* The packet is delivered.
LEMMA SumKeeps ==
  ASSUME BaseInv, Protocol, GetSum
  PROVE  Protocol' /\ (delivered' # delivered => N < Len(sent) /\ delivered' = Append(delivered, Current))
  <1> USE DEF BaseInv
  <1>1. PICK ch \in Chars :
          /\ getRspChar(ch)
          /\ \/ ~IsHex(ch) /\ pc' = "assert" /\ UNCHANGED <<newPkt, delivered, out>>
             \/ IsHex(ch) /\ mNoAckMode /\ Return /\ UNCHANGED out
             \/ /\ IsHex(ch) /\ ~mNoAckMode /\ ch = Digit(checksum)
                /\ Return
                /\ out' = Append(out, "+")
             \/ /\ IsHex(ch) /\ ~mNoAckMode /\ ch # Digit(checksum)
                /\ out' = Append(out, "-")
                /\ pc' = "start"
                /\ UNCHANGED <<newPkt, delivered>>
             \/ /\ IsHex(ch) /\ ~mNoAckMode /\ peerGone
                /\ pc' = "closed"
                /\ UNCHANGED <<newPkt, delivered, out>>
    BY DEF GetSum
  <1>2. /\ pc = "sum" /\ sent' = sent /\ replies' = replies /\ mNoAckMode' = mNoAckMode
        /\ breaksTaken' = breaksTaken /\ breaksSent' = breaksSent /\ leftOver' = leftOver
        /\ mHavePendingBreak' = mHavePendingBreak /\ peerGone' = peerGone
        /\ client' = client /\ broke' = broke /\ clientNoAck' = clientNoAck
    BY DEF GetSum, lineVars
  <1>3. CountInv /\ TypeOK /\ ModeInv /\ OutInv
    BY DEF Protocol
  <1>4. PICK b \in BOOLEAN, c \in BOOLEAN, d \in BOOLEAN : SumAt(b, c, d)
    BY <1>2 DEF Protocol, LineInv, PlainAt, StaleAt, StalePacketAt, PlusAt, Acking, BodyAt
  <1> DEFINE T == Stream(sent, N + 1, b, c, d)
  <1>5. /\ N < Len(sent) /\ newPkt = Current /\ checksum = Sum(Current)
        /\ Incoming = <<Digit(Sum(Current))>> \o T /\ StreamOK(N + 1, b, c, d)
    BY <1>4 DEF SumAt
  <1>6. T \in Seq(Chars) /\ Digit(Sum(Current)) \in Chars /\ IsHex(Digit(Sum(Current)))
    BY <1>3, <1>5, StreamThen
  <1>7. ch = Digit(Sum(Current)) /\ Incoming' = T
    <2> HIDE DEF T
    <2> QED
      BY <1>1, <1>3, <1>5, <1>6, ReadingFirst
  <1>8. /\ N \in Nat /\ Len(sent) \in Nat /\ replies \in Nat /\ sent \in Seq(Bodies)
        /\ replies <= N /\ Len(sent) <= replies + 2
    BY <1>3, Numbers
  <1>9. ~(mNoAckMode /\ ~clientNoAck)
    BY <1>3, <1>5, <1>8 DEF ModeInv
  <1>10. CASE peerGone /\ pc' = "closed" /\ UNCHANGED <<newPkt, delivered, out>> /\ ~mNoAckMode
    <2>1. N' = N /\ Request' = Request
      BY <1>10 DEF N, Request
    <2>2. LineInv' /\ pc' # "assert"
      BY <1>10 DEF LineInv
    <2>3. CountInv'
      BY <1>2, <1>3, <1>10, <2>1 DEF CountInv, Handling, Getting
    <2>4. ModeInv'
      BY <1>2, <1>3, <1>10, <2>1 DEF ModeInv, Acking
    <2>5. OutInv'
      BY <1>2, <1>10 DEF OutInv
    <2> QED
      BY <1>10, <2>2, <2>3, <2>4, <2>5 DEF Protocol
  <1>11. CASE Return /\ (IF mNoAckMode THEN out' = out ELSE out' = Append(out, "+"))
    <2>1. delivered' = Append(delivered, Current) /\ newPkt' = <<>> /\ pc' = "serve"
      BY <1>5, <1>11 DEF Return
    <2>2. delivered \in Seq(Seq(Chars)) /\ Current \in Seq(Chars)
      BY <1>3, <1>5, StreamThen DEF TypeOK
    <2>3. /\ N' = N + 1 /\ \A k \in 1 .. N : delivered'[k] = delivered[k]
      BY <2>1, <2>2, AppendFacts DEF N
    <2>4. PlainAt(b, c, d)'
      <3>1. Incoming' = Stream(sent', N', b, c, d)
        BY <1>2, <1>7, <2>3
      <3>2. StreamOK(N, b, c, d)'
        BY <1>2, <1>5, <2>3 DEF StreamOK, BreaksLeft
      <3> QED
        BY <2>1, <3>1, <3>2 DEF PlainAt, Acking
    <2>5. LineInv' /\ pc' # "assert"
      BY <2>1, <2>4 DEF LineInv
    <2>6. delivered' = SubSeq(sent', 1, N')
      <3>1. delivered = SubSeq(sent, 1, N)
        BY <1>3 DEF CountInv
      <3>2. SubSeq(sent, 1, N + 1) = Append(SubSeq(sent, 1, N), sent[N + 1])
        BY <1>5, <1>8, LongerPrefix
      <3> QED
        BY <1>2, <2>1, <2>3, <3>1, <3>2, Zenon DEF Current
    <2>7. CountInv'
      <3>1. ~(client = "waiting" /\ ~clientNoAck)
        BY <1>3, <1>5, <1>8 DEF CountInv
      <3>2. /\ replies' <= N' /\ N' <= Len(sent') /\ Len(sent') <= replies' + 2
            /\ N' >= replies' + 1
        BY <1>2, <1>5, <1>8, <2>3
      <3>3. /\ client' = "idle" <=> Len(sent') = replies'
            /\ ~clientNoAck' => Len(sent') <= replies' + 1
            /\ client' = "acking" => ~clientNoAck' /\ ~broke'
        BY <1>2, <1>3 DEF CountInv
      <3> QED
        BY <1>2, <2>1, <2>6, <3>1, <3>2, <3>3 DEF CountInv, Handling, Getting
    <2>8. ModeInv'
      BY <1>2, <1>3, <1>9, <2>1 DEF ModeInv, Acking
    <2>9. OutInv'
      <3> SUFFICES ASSUME ~peerGone PROVE OutInv'
        BY <1>2 DEF OutInv
      <3>1. Underway = N - replies /\ Underway' = N - replies
        BY <1>2, <1>8, <2>1, <2>3 DEF Underway, Handling
      <3>2. CASE mNoAckMode
        <4>1. clientNoAck /\ client # "acking" /\ client' # "acking" /\ out' = out
          BY <1>2, <1>3, <1>9, <1>11, <3>2 DEF CountInv
        <4>2. Underway # 0 => ReplyTo(replies + 1)' = ReplyTo(replies + 1)
          BY <1>2, <1>8, <2>3, <3>1 DEF ReplyTo
        <4>3. Underway # 0 /\ Underway # 1 => ReplyTo(replies + 2)' = ReplyTo(replies + 2)
          BY <1>2, <1>8, <2>3, <3>1 DEF ReplyTo
        <4> QED
          BY <1>2, <1>3, <3>1, <4>1, <4>2, <4>3 DEF OutInv
      <3>3. CASE ~mNoAckMode
        <4>1. N = replies /\ ~clientNoAck
          BY <1>2, <1>3, <3>3 DEF CountInv, Getting, ModeInv
        <4>2. Len(sent) = N + 1 /\ client = "acking"
          BY <1>3, <1>5, <1>8, <4>1 DEF CountInv, TypeOK
        <4>3. out = <<>> \o <<>>
          BY <1>3, <1>8, <3>1, <4>1, <4>2 DEF OutInv
        <4>4. out' = Append(<<>>, "+")
          BY <1>11, <3>3, <4>3
        <4>5. client' = "acking" /\ N' = Len(sent') /\ Underway' = 0
          BY <1>2, <1>8, <2>3, <3>1, <4>1, <4>2
        <4>6. out' = <<"+">> \o <<>>
          BY <4>4
        <4> QED
          BY <4>5, <4>6 DEF OutInv
      <3> QED
        BY <3>2, <3>3
    <2> QED
      BY <1>5, <2>1, <2>5, <2>7, <2>8, <2>9 DEF Protocol
  <1> QED
    BY <1>1, <1>5, <1>6, <1>7, <1>10, <1>11

\* The connection is gone.
LEMMA FailsKeeps ==
  ASSUME BaseInv, Protocol, GetFails
  PROVE  Protocol'
  <1>1. /\ N' = N /\ sent' = sent /\ replies' = replies /\ delivered' = delivered
        /\ mNoAckMode' = mNoAckMode /\ Request' = Request /\ client' = client
        /\ clientNoAck' = clientNoAck /\ broke' = broke /\ peerGone' = peerGone
        /\ peerGone /\ pc' = "closed"
    BY DEF GetFails, EndOfFile, lineVars, getVars, N, Request
  <1>2. LineInv' /\ pc' # "assert"
    BY <1>1 DEF LineInv
  <1>3. CountInv'
    BY <1>1 DEF Protocol, CountInv, Handling, Getting
  <1>4. ModeInv'
    BY <1>1 DEF Protocol, ModeInv, Acking
  <1>5. OutInv'
    BY <1>1 DEF OutInv
  <1> QED
    BY <1>2, <1>3, <1>4, <1>5 DEF Protocol

\* A handler sees nothing of the line: it finds what getPkt left.
LEMMA HandlerLine ==
  ASSUME Protocol, Handling
  PROVE  \E b, c, d \in BOOLEAN : PlainAt(b, c, d)
  BY DEF Protocol, LineInv, StaleAt, StalePacketAt, PlusAt, Acking, BodyAt, SumAt, Handling

\* With a handler that does not change the line, what is to be read stays.
LEMMA HandlerKeepsLine ==
  ASSUME Protocol, Handling, pc' \in {"run", "put"},
         UNCHANGED <<in, mGetCharBuf, sent, delivered, replies, breaksTaken, breaksSent,
                     leftOver, mHavePendingBreak, client, broke, newPkt>>
  PROVE  LineInv'
  <1>1. PICK b \in BOOLEAN, c \in BOOLEAN, d \in BOOLEAN : PlainAt(b, c, d)
    BY HandlerLine
  <1>2. N' = N /\ Incoming' = Incoming
    BY DEF N, Incoming
  <1>3. PlainAt(b, c, d)'
    BY <1>1, <1>2 DEF PlainAt, StreamOK, BreaksLeft, Acking
  <1> QED
    BY <1>3 DEF LineInv

LEMMA HandleKeeps ==
  ASSUME BaseInv, Protocol, Handle
  PROVE  Protocol'
  <1>1. /\ N' = N /\ sent' = sent /\ replies' = replies /\ delivered' = delivered
        /\ Request' = Request /\ client' = client /\ out' = out
        /\ clientNoAck' = clientNoAck /\ broke' = broke /\ peerGone' = peerGone
        /\ pc = "serve" /\ pc' = "put"
    BY DEF Handle, lineVars, getVars, N, Request
  <1>2. LineInv' /\ pc' # "assert"
    BY <1>1, HandlerKeepsLine DEF Handle, lineVars, getVars, Handling
  <1>3. CountInv'
    BY <1>1 DEF Protocol, CountInv, Handling, Getting
  <1>4. ModeInv'
    <2>1. clientNoAck' => mNoAckMode' /\ replies' >= 1
      BY <1>1 DEF Protocol, ModeInv, Handle
    <2>2. (pc' \in {"run", "put"} /\ ~mNoAckMode') => Request' # NoAckBody
      BY <1>1 DEF Handle
    <2>3. ASSUME mNoAckMode', ~clientNoAck
          PROVE  N = Len(sent) /\ N = replies + 1 /\ Request = NoAckBody
      <3>1. ~mNoAckMode
        BY <1>1, <2>3 DEF Protocol, ModeInv
      <3>2. Request = NoAckBody
        BY <2>3, <3>1 DEF Handle
      <3>3. N >= replies + 1 /\ Len(sent) <= replies + 1
        BY <1>1, <2>3 DEF Protocol, CountInv, Handling
      <3>4. N = Len(sent) /\ N = replies + 1
        BY <3>3, Numbers DEF BaseInv, Protocol
      <3> QED
        BY <3>2, <3>4
    <2> QED
      BY <1>1, <2>1, <2>2, <2>3 DEF ModeInv, Acking
  <1>5. OutInv'
    BY <1>1 DEF Protocol, OutInv, Underway, Handling, ReplyTo
  <1> QED
    BY <1>2, <1>3, <1>4, <1>5 DEF Protocol

LEMMA StopsKeeps ==
  ASSUME BaseInv, Protocol, TargetStops
  PROVE  Protocol'
  <1>1. /\ N' = N /\ sent' = sent /\ replies' = replies /\ delivered' = delivered
        /\ Request' = Request /\ client' = client /\ out' = out /\ mNoAckMode' = mNoAckMode
        /\ clientNoAck' = clientNoAck /\ broke' = broke /\ peerGone' = peerGone
        /\ pc = "run" /\ pc' = "put"
    BY DEF TargetStops, lineVars, getVars, N, Request
  <1>2. LineInv' /\ pc' # "assert"
    BY <1>1, HandlerKeepsLine DEF TargetStops, lineVars, getVars, Handling
  <1>3. CountInv'
    BY <1>1 DEF Protocol, CountInv, Handling, Getting
  <1>4. ModeInv'
    BY <1>1 DEF Protocol, ModeInv, Acking
  <1>5. OutInv'
    BY <1>1 DEF Protocol, OutInv, Underway, Handling, ReplyTo
  <1> QED
    BY <1>2, <1>3, <1>4, <1>5 DEF Protocol

\* A break is taken from the line, or looked for in what is no break.
LEMMA PollKeepsLine ==
  ASSUME BaseInv, Protocol, PollBreak
  PROVE  LineInv'
  <1> USE DEF BaseInv
  <1>1. /\ N' = N /\ sent' = sent /\ breaksSent' = breaksSent /\ leftOver' = leftOver
        /\ client' = client /\ broke' = broke /\ newPkt' = newPkt
        /\ Handling /\ pc' \in {"run", "put"} /\ haveBreakEffect
        /\ breaksTaken' = IF haveBreak THEN breaksTaken + 1 ELSE breaksTaken
    BY DEF PollBreak, lineVars, getVars, N, Handling
  <1>2. CountInv /\ TypeOK
    BY DEF Protocol
  <1>3. PICK b \in BOOLEAN, c \in BOOLEAN, d \in BOOLEAN : PlainAt(b, c, d)
    BY <1>1, HandlerLine
  <1>4. /\ Incoming = Stream(sent, N, b, c, d) /\ StreamOK(N, b, c, d) /\ newPkt = <<>>
        /\ Breaks(sent, N, b, c, d) \in Nat
    BY <1>2, <1>3, StreamNow DEF PlainAt
  <1>5. /\ breaksTaken \in Nat /\ breaksSent \in Nat /\ mHavePendingBreak \in BOOLEAN
        /\ leftOver \in BOOLEAN /\ mGetCharBuf \in Chars \cup {NoChar} /\ in \in Seq(Chars)
    BY <1>2 DEF TypeOK
  <1>7. CASE ~Peeks
    <2>1. in' = in /\ mGetCharBuf' = mGetCharBuf /\ mHavePendingBreak' = FALSE
      BY <1>1, <1>7 DEF haveBreakEffect
    <2>2. Incoming' = Incoming
      BY <2>1 DEF Incoming
    <2>3. breaksTaken' + Count(mHavePendingBreak') = breaksTaken + Count(mHavePendingBreak)
      BY <1>1, <1>5, <1>7, <2>1 DEF haveBreak, Count
    <2>4. PlainAt(b, c, d)'
      <3>1. BreaksLeft(Breaks(sent, N, b, c, d))'
        BY <1>1, <1>4, <2>3 DEF StreamOK, BreaksLeft
      <3> QED
        BY <1>1, <1>4, <2>2, <3>1 DEF PlainAt, StreamOK, Acking, BreaksLeft
    <2> QED
      BY <2>4 DEF LineInv
  <1>8. CASE Peeks
    <2>1. /\ mGetCharBuf = NoChar /\ in # <<>> /\ Incoming = in /\ ~mHavePendingBreak
          /\ in' = Tail(in) /\ mHavePendingBreak' = FALSE
      BY <1>1, <1>8 DEF Peeks, haveBreakEffect, Incoming
    <2>2. CASE Head(in) = Break
      <3>1. mGetCharBuf' = NoChar /\ Incoming' = Tail(in) /\ breaksTaken' = breaksTaken + 1
        BY <1>1, <1>8, <2>1, <2>2 DEF haveBreakEffect, haveBreak, Incoming
      <3>2. b = TRUE
        <4> SUFFICES ASSUME b = FALSE PROVE FALSE
          BY Zenon
        <4>1. CASE N = Len(sent)
          <5>1. Incoming = <<>>
            BY <1>2, <1>4, <4>1, NoPacket DEF Br
          <5> QED
            BY <2>1, <5>1
        <4>2. CASE N < Len(sent)
          <5> DEFINE R == Current \o (<<Hash, Digit(Sum(Current))>>
                                      \o Stream(sent, N + 1, c, d, FALSE))
          <5>1. in = <<Dollar>> \o R /\ R \in Seq(Chars)
            BY <1>2, <1>4, <2>1, <4>2, TakePacket
          <5> HIDE DEF R
          <5>2. Head(in) = Dollar
            BY <5>1, CharsType, ReadOne
          <5> QED
            BY <2>2, <5>2 DEF Break, Dollar
        <4> QED
          BY <1>2, <4>1, <4>2, Numbers
      <3>3. /\ in = <<Break>> \o Stream(sent, N, FALSE, c, d)
            /\ StreamOK(N, FALSE, c, d) /\ BreaksLeft(1 + Breaks(sent, N, FALSE, c, d))
        BY <1>2, <1>4, <2>1, <3>2, TakeBreak
      <3>4. Incoming' = Stream(sent, N, FALSE, c, d)
        BY <1>2, <3>1, <3>3, StreamNow, CharsType, ReadOne
      <3>5. PlainAt(FALSE, c, d)'
        <4>1. BreaksLeft(Breaks(sent, N, FALSE, c, d))'
          <5> DEFINE m == Breaks(sent, N, FALSE, c, d)
          <5>1. m \in Nat /\ BreaksLeft(1 + m)
            BY <1>2, <3>3, StreamNow
          <5>2. Breaks(sent, N, FALSE, c, d)' = m
            BY <1>1
          <5> HIDE DEF m
          <5>3. breaksTaken' + Count(mHavePendingBreak') + m <= breaksSent' + Count(leftOver')
            BY <1>1, <1>5, <2>1, <3>1, <5>1 DEF BreaksLeft, Count
          <5> QED
            BY <5>2, <5>3 DEF BreaksLeft
        <4> QED
          BY <1>1, <1>4, <3>3, <3>4, <4>1 DEF PlainAt, StreamOK, Acking
      <3> QED
        BY <3>5 DEF LineInv
    <2>3. CASE Head(in) # Break
      <3>1. mGetCharBuf' = Head(in) /\ breaksTaken' = breaksTaken
        BY <1>1, <1>8, <2>1, <2>3 DEF haveBreakEffect, haveBreak
      <3>2. Head(in) \in Chars /\ in = <<Head(in)>> \o Tail(in)
        BY <1>5, <2>1
      <3>3. Incoming' = Incoming
        <4>1. Head(in) # NoChar
          BY <3>2, CharsType
        <4>2. Incoming' = <<Head(in)>> \o Tail(in)
          BY <2>1, <3>1, <4>1, Zenon DEF Incoming
        <4> QED
          BY <2>1, <3>2, <4>2, Zenon
      <3>4. PlainAt(b, c, d)'
        <4>1. Count(mHavePendingBreak') = Count(mHavePendingBreak)
          BY <1>5, <2>1 DEF Count
        <4>2. BreaksLeft(Breaks(sent, N, b, c, d))'
          BY <1>1, <1>4, <3>1, <4>1 DEF StreamOK, BreaksLeft
        <4> QED
          BY <1>1, <1>4, <3>3, <4>2 DEF PlainAt, StreamOK, Acking, BreaksLeft
      <3> QED
        BY <3>4 DEF LineInv
    <2> QED
      BY <2>2, <2>3
  <1> QED
    BY <1>7, <1>8

LEMMA PollKeeps ==
  ASSUME BaseInv, Protocol, PollBreak
  PROVE  Protocol'
  <1>1. /\ N' = N /\ sent' = sent /\ replies' = replies /\ delivered' = delivered
        /\ Request' = Request /\ client' = client /\ out' = out /\ mNoAckMode' = mNoAckMode
        /\ clientNoAck' = clientNoAck /\ broke' = broke /\ peerGone' = peerGone
        /\ pc \in {"serve", "run"} /\ pc' \in {"run", "put"}
        /\ pc = "serve" => Request # NoAckBody
    BY DEF PollBreak, lineVars, getVars, N, Request
  <1>2. LineInv' /\ pc' # "assert"
    BY <1>1, PollKeepsLine
  <1>3. CountInv'
    BY <1>1 DEF Protocol, CountInv, Handling, Getting
  <1>4. ModeInv'
    BY <1>1 DEF Protocol, ModeInv, Acking
  <1>5. OutInv'
    BY <1>1 DEF Protocol, OutInv, Underway, Handling, ReplyTo
  <1> QED
    BY <1>2, <1>3, <1>4, <1>5 DEF Protocol

\* putPkt has written the reply, or finds that the client is gone.
LEMMA PutKeeps ==
  ASSUME BaseInv, Protocol, PutPkt
  PROVE  Protocol'
  <1> USE DEF BaseInv
  <1>1. /\ N' = N /\ sent' = sent /\ replies' = replies /\ delivered' = delivered
        /\ Request' = Request /\ client' = client /\ mNoAckMode' = mNoAckMode
        /\ clientNoAck' = clientNoAck /\ broke' = broke /\ peerGone' = peerGone
        /\ breaksTaken' = breaksTaken /\ breaksSent' = breaksSent /\ leftOver' = leftOver
        /\ mHavePendingBreak' = mHavePendingBreak /\ newPkt' = newPkt
        /\ pc = "put" /\ Handling /\ Incoming' = Incoming
    BY DEF PutPkt, lineVars, getVars, N, Request, Handling, Incoming
  <1>2. CountInv /\ TypeOK /\ ModeInv /\ OutInv
    BY DEF Protocol
  <1>3. /\ N \in Nat /\ Len(sent) \in Nat /\ replies \in Nat /\ N >= replies + 1
        /\ N <= Len(sent) /\ Len(sent) <= replies + 2
    BY <1>1, <1>2, Numbers DEF CountInv
  <1>4. \/ pc' = "ack" /\ ~mNoAckMode
        \/ pc' \in {"start", "closed"} /\ (mNoAckMode \/ peerGone)
    BY DEF PutPkt, Done, AfterFailedWrite
  <1>5. ~mNoAckMode => ~clientNoAck /\ N = Len(sent) /\ N = replies + 1 /\ Request # NoAckBody
    BY <1>1, <1>2, <1>3 DEF ModeInv, CountInv
  <1>6. LineInv'
    <2>1. PICK b \in BOOLEAN, c \in BOOLEAN, d \in BOOLEAN : PlainAt(b, c, d)
      BY <1>1, HandlerLine
    <2>2. PlainAt(b, c, d)' \/ pc' = "closed"
      BY <1>1, <1>4, <1>5, <2>1 DEF PlainAt, StreamOK, BreaksLeft, Acking
    <2> QED
      BY <2>2 DEF LineInv
  <1>7. CountInv'
    BY <1>1, <1>2, <1>4 DEF CountInv, Handling, Getting
  <1>8. ModeInv'
    BY <1>1, <1>2, <1>4, <1>5 DEF ModeInv, Acking
  <1>9. OutInv'
    <2> SUFFICES ASSUME ~peerGone PROVE OutInv'
      BY <1>1 DEF OutInv
    <2> DEFINE P == IF client = "acking" /\ N = Len(sent) THEN <<"+">> ELSE <<>>
               r1 == ReplyTo(replies + 1)
               r2 == ReplyTo(replies + 2)
    <2>1. out' = Append(out, ReplyTo(N))
      BY DEF PutPkt, ReplyTo, Request, N
    <2>2. Underway = N - replies - 1 /\ Underway' = N - replies
      BY <1>1, <1>3, <1>4 DEF Underway, Handling
    <2>3. out = P \o (IF Underway = 0 THEN <<>>
                      ELSE <<r1>> \o (IF Underway = 1 THEN <<>> ELSE <<r2>>))
      BY <1>2 DEF OutInv
    <2>4. P \in Seq({"+", "OK", "reply"}) /\ r1 \in {"+", "OK", "reply"}
          /\ r2 \in {"+", "OK", "reply"} /\ P' = P /\ r1' = r1 /\ r2' = r2
      <3>1. r1 \in {"+", "OK", "reply"} /\ r2 \in {"+", "OK", "reply"} /\ r1' = r1 /\ r2' = r2
        BY <1>1 DEF ReplyTo
      <3>2. P' = P
        BY <1>1
      <3>3. P = <<"+">> \/ P = <<>>
        BY Zenon
      <3>4. P \in Seq({"+", "OK", "reply"})
        <4> DEFINE X == {"+", "OK", "reply"}
        <4>1. "+" \in X
          OBVIOUS
        <4> HIDE DEF P, X
        <4>2. <<"+">> \in Seq(X)
          BY <4>1
        <4>3. <<>> \in Seq(X)
          OBVIOUS
        <4>4. P \in Seq(X)
          BY <3>3, <4>2, <4>3, Zenon
        <4> QED
          BY <4>4 DEF X
      <3> QED
        BY <3>1, <3>2, <3>4
    <2> SUFFICES out' = P \o (IF Underway' = 0 THEN <<>>
                              ELSE <<r1>> \o (IF Underway' = 1 THEN <<>> ELSE <<r2>>))
      BY <1>1, <2>4 DEF OutInv
    <2>5. CASE N = replies + 1
      <3>1. out = P \o <<>> /\ out' = Append(out, r1) /\ Underway' = 1
        BY <1>3, <2>1, <2>2, <2>3, <2>5
      <3> HIDE DEF P, r1, r2
      <3>2. Append(P \o <<>>, r1) = P \o (<<r1>> \o <<>>)
        BY <2>4
      <3> QED
        BY <3>1, <3>2
    <2>6. CASE N = replies + 2
      <3>1. out = P \o (<<r1>> \o <<>>) /\ out' = Append(out, r2) /\ Underway' = 2
        BY <1>3, <2>1, <2>2, <2>3, <2>6
      <3> HIDE DEF P, r1, r2
      <3>2. Append(P \o (<<r1>> \o <<>>), r2) = P \o (<<r1>> \o <<r2>>)
        BY <2>4
      <3> QED
        BY <3>1, <3>2
    <2> QED
      BY <1>3, <2>5, <2>6
  <1> QED
    BY <1>4, <1>6, <1>7, <1>8, <1>9 DEF Protocol

\* An acknowledgement is read, or a break in front of it.
LEMMA AckKeepsLine ==
  ASSUME BaseInv, Protocol, GetAck
  PROVE  /\ LineInv'
         /\ pc' = "ack2" \/ (pc' \in {"start", "closed"} /\ N = replies)
  <1> USE DEF BaseInv
  <1>1. PICK ch \in Chars :
          /\ getRspChar(ch)
          /\ \/ pc = "ack" /\ pc' = AfterAck(ch)
             \/ pc = "ack2" /\ pc' = AfterBreak(ch)
          /\ mHavePendingBreak' = (mHavePendingBreak \/ pc' = "ack2")
    BY DEF GetAck
  <1>2. /\ N' = N /\ newPkt' = newPkt /\ sent' = sent /\ replies' = replies
        /\ breaksTaken' = breaksTaken /\ breaksSent' = breaksSent /\ leftOver' = leftOver
        /\ mNoAckMode' = mNoAckMode /\ client' = client /\ clientNoAck' = clientNoAck
        /\ broke' = broke /\ peerGone' = peerGone /\ pc \in {"ack", "ack2"} /\ Acking
    BY <1>1 DEF GetAck, getVars, lineVars, N, Acking
  <1>3. CountInv /\ TypeOK
    BY DEF Protocol
  <1>4. PICK b \in BOOLEAN, c \in BOOLEAN, d \in BOOLEAN :
          PlainAt(b, c, d) \/ PlusAt(b, c, d)
    BY <1>2 DEF Protocol, LineInv, StaleAt, StalePacketAt, BodyAt, SumAt
  <1>5. newPkt = <<>>
    BY <1>4 DEF PlainAt, PlusAt
  <1>6. Break # Plus /\ Break \in Chars /\ Plus \in Chars
    BY CharsType DEF Break, Plus
  <1>7. /\ breaksTaken \in Nat /\ breaksSent \in Nat /\ mHavePendingBreak \in BOOLEAN
        /\ leftOver \in BOOLEAN
    BY <1>3 DEF TypeOK
  <1>8. ASSUME NEW m \in Nat, BreaksLeft(1 + m), pc' = "ack2"
        PROVE  breaksTaken' + Count(mHavePendingBreak') + m <= breaksSent' + Count(leftOver')
    <2>1. mHavePendingBreak'
      BY <1>1, <1>8
    <2> QED
      BY <1>2, <1>7, <1>8, <2>1 DEF BreaksLeft, Count
  <1>9. CASE PlainAt(b, c, d)
    <2>1. N = Len(sent) /\ N = replies + 1 /\ Incoming = Br(b) /\ StreamOK(N, b, c, d)
      BY <1>2, <1>3, <1>9, NoPacket DEF PlainAt
    <2>2. b = TRUE
      <3> SUFFICES ASSUME b = FALSE PROVE FALSE
        BY Zenon
      <3>1. Incoming = <<>>
        BY <2>1 DEF Br
      <3> QED
        BY <1>1, <3>1 DEF getRspChar
    <2>3. pc = "ack"
      BY <1>2, <1>9, <2>2 DEF PlainAt
    <2>4. /\ Incoming = <<Break>> \o Stream(sent, N, FALSE, c, d)
          /\ StreamOK(N, FALSE, c, d) /\ BreaksLeft(1 + Breaks(sent, N, FALSE, c, d))
      BY <1>3, <1>9, <2>1, <2>2, TakeBreak DEF PlainAt
    <2>5. ch = Break /\ Incoming' = Stream(sent, N, FALSE, c, d)
      BY <1>1, <1>3, <1>6, <2>4, StreamNow, ReadingFirst
    <2>6. pc' = "ack2"
      BY <1>1, <1>6, <2>3, <2>5 DEF AfterAck
    <2>7. broke
      <3>1. LastBreak(sent, N, TRUE, c, d)
        BY <2>1 DEF LastBreak
      <3>2. client # "idle"
        BY <1>3, <2>1, Numbers DEF CountInv
      <3> QED
        BY <2>1, <2>2, <3>1, <3>2 DEF StreamOK
    <2>8. BreaksLeft(Breaks(sent, N, FALSE, c, d))'
      <3>1. Breaks(sent, N, FALSE, c, d) \in Nat
        BY <1>3, StreamNow
      <3> QED
        BY <1>2, <1>8, <2>4, <2>6, <3>1 DEF BreaksLeft
    <2>9. PlainAt(FALSE, c, d)'
      BY <1>2, <1>5, <2>1, <2>4, <2>5, <2>6, <2>7, <2>8 DEF PlainAt, StreamOK, Acking
    <2> QED
      BY <2>6, <2>9 DEF LineInv
  <1>10. CASE PlusAt(b, c, d)
    <2> DEFINE T == Stream(sent, N, FALSE, c, d)
    <2>0. T \in Seq(Chars) /\ <<Plus>> \o T \in Seq(Chars) /\ Breaks(sent, N, FALSE, c, d) \in Nat
      <3>1. T \in Seq(Chars) /\ Breaks(sent, N, FALSE, c, d) \in Nat
        BY <1>3, StreamNow
      <3> HIDE DEF T
      <3>2. <<Plus>> \o T \in Seq(Chars)
        BY <1>6, <3>1, ReadOne
      <3> QED
        BY <3>1, <3>2
    <2>1. CASE b = TRUE
      <3>1. Incoming = <<Break>> \o (<<Plus>> \o T)
        BY <1>10, <2>1 DEF PlusAt, Br
      <3>2. ch = Break /\ Incoming' = <<Plus>> \o T
        <4> HIDE DEF T
        <4> QED
          BY <1>1, <1>6, <2>0, <3>1, ReadingFirst
      <3>3. pc = "ack" /\ pc' = "ack2"
        BY <1>1, <1>2, <1>6, <1>10, <2>1, <3>2 DEF PlusAt, AfterAck
      <3>4. Incoming' = Br(FALSE) \o (<<Plus>> \o T)
        BY <2>0, <3>2, JoinedEmpty DEF Br
      <3>5. BreaksLeft(Count(FALSE) + Breaks(sent, N, FALSE, c, d))'
        <4>1. BreaksLeft(1 + Breaks(sent, N, FALSE, c, d))
          BY <1>3, <1>10, <2>0, <2>1, FewerBreaks, Zenon DEF PlusAt
        <4> DEFINE m == Breaks(sent, N, FALSE, c, d)
        <4>2. breaksTaken' + Count(mHavePendingBreak') + m <= breaksSent' + Count(leftOver')
          BY <1>8, <2>0, <3>3, <4>1
        <4>3. m' = m /\ m \in Nat
          BY <1>2, <2>0
        <4> HIDE DEF m
        <4>4. BreaksLeft(Count(FALSE) + m)'
          BY <4>2, <4>3 DEF BreaksLeft, Count
        <4> QED
          BY <4>4 DEF m
      <3>6. PlusAt(FALSE, c, d)'
        BY <1>2, <1>5, <1>10, <3>3, <3>4, <3>5 DEF PlusAt, Acking
      <3> QED
        BY <3>3, <3>6 DEF LineInv
    <2>2. CASE b = FALSE
      <3>1. Incoming = <<Plus>> \o T
        BY <1>10, <2>0, <2>2, JoinedEmpty DEF PlusAt, Br
      <3>2. ch = Plus /\ Incoming' = T
        BY <1>1, <1>6, <2>0, <3>1, ReadingFirst
      <3>3. pc' \in {"start", "closed"} /\ N = replies
        BY <1>1, <1>6, <1>10, <3>2 DEF PlusAt, AfterAck, AfterBreak, Done
      <3>4. mHavePendingBreak' = mHavePendingBreak
        BY <1>1, <1>7, <3>3
      <3>5. StreamOK(N, FALSE, c, d)
        BY <1>3, <1>10, <2>0, <2>2, FewerBreaks, Zenon DEF PlusAt, StreamOK
      <3>6. pc' = "closed" \/ PlainAt(FALSE, c, d)'
        BY <1>2, <1>5, <3>2, <3>3, <3>4, <3>5 DEF PlainAt, StreamOK, BreaksLeft, Acking
      <3> QED
        BY <3>3, <3>6 DEF LineInv
    <2> QED
      BY <2>1, <2>2, Zenon
  <1> QED
    BY <1>4, <1>9, <1>10

LEMMA AckKeeps ==
  ASSUME BaseInv, Protocol, GetAck
  PROVE  Protocol'
  <1>1. /\ N' = N /\ sent' = sent /\ replies' = replies /\ delivered' = delivered
        /\ Request' = Request /\ client' = client /\ out' = out /\ mNoAckMode' = mNoAckMode
        /\ clientNoAck' = clientNoAck /\ broke' = broke /\ peerGone' = peerGone
        /\ pc \in {"ack", "ack2"}
    BY DEF GetAck, lineVars, getVars, N, Request
  <1>2. LineInv' /\ (pc' = "ack2" \/ (pc' \in {"start", "closed"} /\ N = replies))
    BY AckKeepsLine
  <1>3. CountInv'
    BY <1>1, <1>2 DEF Protocol, CountInv, Handling, Getting
  <1>4. ModeInv'
    BY <1>1, <1>2 DEF Protocol, ModeInv, Acking
  <1>5. OutInv'
    BY <1>1, <1>2 DEF Protocol, OutInv, Underway, Handling, ReplyTo
  <1> QED
    BY <1>2, <1>3, <1>4, <1>5 DEF Protocol

LEMMA AckFailsKeeps ==
  ASSUME BaseInv, Protocol, AckFails
  PROVE  Protocol'
  <1> USE DEF BaseInv
  <1>1. /\ N' = N /\ sent' = sent /\ replies' = replies /\ delivered' = delivered
        /\ Request' = Request /\ client' = client /\ mNoAckMode' = mNoAckMode
        /\ clientNoAck' = clientNoAck /\ broke' = broke /\ peerGone' = peerGone
        /\ breaksTaken' = breaksTaken /\ breaksSent' = breaksSent /\ leftOver' = leftOver
        /\ mHavePendingBreak' = mHavePendingBreak /\ newPkt' = newPkt
        /\ pc \in {"ack", "ack2"} /\ Acking /\ Incoming' = Incoming
        /\ peerGone /\ Incoming = <<>> /\ pc' \in {"start", "closed", "put"}
    BY DEF AckFails, EndOfFile, lineVars, getVars, N, Request, Acking, Incoming, Done
  <1>2. CountInv /\ TypeOK
    BY DEF Protocol
  <1>3. PICK b \in BOOLEAN, c \in BOOLEAN, d \in BOOLEAN :
          PlainAt(b, c, d) \/ PlusAt(b, c, d)
    BY <1>1 DEF Protocol, LineInv, StaleAt, StalePacketAt, BodyAt, SumAt
  <1>4. ~PlusAt(b, c, d)
    <2> SUFFICES ASSUME PlusAt(b, c, d) PROVE FALSE
      OBVIOUS
    <2> DEFINE T == Stream(sent, N, FALSE, c, d)
    <2>1. T \in Seq(Chars) /\ Br(b) \in Seq(Chars) /\ Plus \in Chars
      BY <1>2, StreamNow, BrType, CharsType
    <2>2. Br(b) \o (<<Plus>> \o T) = <<>>
      BY <1>1 DEF PlusAt
    <2> HIDE DEF T
    <2>3. <<Plus>> \o T \in Seq(Chars) /\ Len(<<Plus>> \o T) = 1 + Len(T) /\ Len(T) \in Nat
      BY <2>1
    <2>4. Len(Br(b) \o (<<Plus>> \o T)) = Len(Br(b)) + Len(<<Plus>> \o T)
      BY <2>1, <2>3, Joined
    <2>5. Len(Br(b)) \in Nat
      BY <2>1
    <2> QED
      BY <2>2, <2>3, <2>4, <2>5
  <1>5. PlainAt(b, c, d) /\ N = replies + 1
    BY <1>1, <1>3, <1>4 DEF PlainAt
  <1>6. pc' = "closed" \/ PlainAt(b, c, d)'
    BY <1>1, <1>5 DEF PlainAt, StreamOK, BreaksLeft, Acking
  <1>7. LineInv'
    BY <1>6 DEF LineInv
  <1>8. CountInv'
    BY <1>1, <1>2, <1>5, Numbers DEF CountInv, Handling, Getting
  <1>9. ModeInv'
    BY <1>1 DEF Protocol, ModeInv, Acking
  <1>10. OutInv'
    BY <1>1 DEF OutInv
  <1> QED
    BY <1>1, <1>7, <1>8, <1>9, <1>10 DEF Protocol

\* A session starts from nothing, but for what the connection remembers.
Fresh ==
    /\ pc = "start" /\ newPkt = <<>> /\ in = <<>> /\ out = <<>> /\ client = "idle"
    /\ ~clientNoAck /\ ~mNoAckMode /\ sent = <<>> /\ delivered = <<>>
    /\ replies = 0 /\ breaksSent = 0 /\ breaksTaken = 0
    /\ leftOver = mHavePendingBreak /\ mHavePendingBreak \in BOOLEAN

LEMMA FreshProtocol == Fresh => Protocol
  <1> SUFFICES ASSUME Fresh PROVE Protocol
    OBVIOUS
  <1>1. /\ pc = "start" /\ newPkt = <<>> /\ in = <<>> /\ out = <<>> /\ client = "idle"
        /\ ~clientNoAck /\ ~mNoAckMode /\ sent = <<>> /\ delivered = <<>>
        /\ replies = 0 /\ breaksSent = 0 /\ breaksTaken = 0
        /\ leftOver = mHavePendingBreak /\ mHavePendingBreak \in BOOLEAN
    BY DEF Fresh
  <1>2. N = 0 /\ Len(sent) = 0 /\ sent \in Seq(Bodies)
    BY <1>1, Empty, Zenon DEF N
  <1>3. /\ Stream(sent, Len(sent), FALSE, FALSE, FALSE) = Br(FALSE)
        /\ Breaks(sent, Len(sent), FALSE, FALSE, FALSE) = Count(FALSE)
        /\ ~LastBreak(sent, Len(sent), FALSE, FALSE, FALSE)
    BY <1>2, StreamEnd, Zenon
  <1>4. /\ Stream(sent, 0, FALSE, FALSE, FALSE) = <<>>
        /\ Breaks(sent, 0, FALSE, FALSE, FALSE) = 0
        /\ ~LastBreak(sent, 0, FALSE, FALSE, FALSE)
    BY <1>2, <1>3 DEF Br, Count
  <1>5. BreaksLeft(0)
    BY <1>1 DEF BreaksLeft, Count
  <1>6. LineInv
    <2>1. CASE mGetCharBuf = NoChar
      <3>1. Incoming = <<>>
        BY <1>1, <2>1, Zenon DEF Incoming
      <3>2. StreamOK(N, FALSE, FALSE, FALSE)
        BY <1>2, <1>4, <1>5 DEF StreamOK, BreaksLeft
      <3>3. Incoming = Stream(sent, N, FALSE, FALSE, FALSE)
        BY <1>2, <1>4, <3>1, Zenon
      <3>4. PlainAt(FALSE, FALSE, FALSE)
        BY <1>1, <3>2, <3>3 DEF PlainAt, Acking
      <3> QED
        BY <3>4 DEF LineInv
    <2>2. CASE mGetCharBuf # NoChar
      <3>1. StreamOK(0, FALSE, FALSE, FALSE)
        BY <1>2, <1>4, <1>5 DEF StreamOK, BreaksLeft
      <3>2. in = Stream(sent, 0, FALSE, FALSE, FALSE)
        BY <1>1, <1>4, Zenon
      <3>3. StaleAt(FALSE, FALSE)
        BY <1>1, <1>2, <2>2, <3>1, <3>2 DEF StaleAt
      <3> QED
        BY <3>3 DEF LineInv
    <2> QED
      BY <2>1, <2>2
  <1>7. CountInv
    <2>1. delivered = SubSeq(sent, 1, N)
      <3>1. SubSeq(<<>>, 1, 0) = <<>>
        OBVIOUS
      <3> QED
        BY <1>1, <1>2, <3>1, Zenon
    <2>2. /\ replies <= N /\ N <= Len(sent) /\ Len(sent) <= replies + 2
          /\ Len(sent) = replies /\ Len(sent) <= replies + 1 /\ N = replies
      BY <1>1, <1>2
    <2>3. ~Handling /\ client = "idle"
      BY <1>1 DEF Handling
    <2> QED
      BY <2>1, <2>2, <2>3 DEF CountInv
  <1>8. ModeInv
    BY <1>1 DEF ModeInv, Acking
  <1>9. OutInv
    <2>1. Underway = 0 /\ client # "acking"
      <3>1. ~Handling /\ client # "acking"
        BY <1>1 DEF Handling
      <3>2. N = 0 /\ replies = 0
        BY <1>1, <1>2
      <3>3. Underway = 0 - 0 - 0
        BY <3>1, <3>2, Zenon DEF Underway
      <3>4. Underway = 0
        BY <3>3
      <3> QED
        BY <3>1, <3>4, Zenon
    <2>2. out = <<>> \o <<>>
      <3>1. <<>> \o <<>> = <<>>
        OBVIOUS
      <3> QED
        BY <1>1, <3>1, Zenon
    <2> QED
      BY <2>1, <2>2, Zenon DEF OutInv
  <1> QED
    BY <1>1, <1>6, <1>7, <1>8, <1>9 DEF Protocol

LEMMA ConnectKeeps ==
  ASSUME BaseInv, RspConnect
  PROVE  Protocol'
  <1>1. Fresh'
    BY DEF Fresh, RspConnect, AckModeOnConnect, BaseInv, TypeOK
  <1>2. Fresh' => Protocol'
    BY FreshProtocol, PTL
  <1> QED
    BY <1>1, <1>2

\* What the client writes comes behind what it has written.
LEMMA WritingBehind ==
  ASSUME TypeOK, NEW x \in Seq(Chars), in' = in \o x, UNCHANGED mGetCharBuf,
         NEW p \in Seq(Chars), NEW q \in Seq(Chars), NEW t \in Seq(Chars)
  PROVE  /\ Incoming = t => Incoming' = t \o x
         /\ Incoming = p \o t => Incoming' = p \o (t \o x)
         /\ Incoming = p \o (q \o t) => Incoming' = p \o (q \o (t \o x))
  <1>1. Incoming' = Incoming \o x
    BY Writing
  <1>2. (p \o t) \o x = p \o (t \o x)
    BY JoinedThrice, Zenon
  <1>3. (p \o (q \o t)) \o x = p \o (q \o (t \o x))
    <2>1. q \o t \in Seq(Chars)
      BY Joined
    <2>2. (p \o (q \o t)) \o x = p \o ((q \o t) \o x)
      BY <2>1, JoinedThrice, Zenon
    <2>3. (q \o t) \o x = q \o (t \o x)
      BY JoinedThrice, Zenon
    <2> QED
      BY <2>2, <2>3, Zenon
  <1> QED
    BY <1>1, <1>2, <1>3, Zenon

\* A packet of the client makes the stream longer.
SendsTo(k, b, c, d, x, c2) ==
    /\ Stream(sent, k, b, c, d) \in Seq(Chars)
    /\ Stream(sent, k, b, c, d) \o Wire(x) = Stream(sent', k, b, c2, FALSE)
    /\ ~LastBreak(sent', k, b, c2, FALSE)
    /\ Breaks(sent', k, b, c2, FALSE) = Breaks(sent, k, b, c, d)

LEMMA SendStream ==
  ASSUME TypeOK, CountInv, Len(sent) <= N + 1, NEW x \in Bodies, sent' = Append(sent, x),
         NEW k \in Nat, k = N \/ (k = N + 1 /\ N < Len(sent))
  PROVE  \A b, c, d \in BOOLEAN : \E c2 \in BOOLEAN : SendsTo(k, b, c, d, x, c2)
  <1> SUFFICES ASSUME NEW b \in BOOLEAN, NEW c \in BOOLEAN, NEW d \in BOOLEAN
               PROVE  \E c2 \in BOOLEAN : SendsTo(k, b, c, d, x, c2)
    BY Zenon
  <1>1. /\ k \in 0 .. Len(sent) /\ Len(sent) <= k + 1 /\ Len(sent) <= k + 2
        /\ sent \in Seq(Bodies)
    BY Numbers
  <1>2. Stream(sent, k, b, c, d) \in Seq(Chars)
    BY <1>1, StreamType
  <1>3. Longer(sent, x, k, b, c, d, AddPacket(sent, k, c))
    BY <1>1, StreamAddPacket, Zenon
  <1>4. AddPacket(sent, k, c) \in BOOLEAN /\ SendsTo(k, b, c, d, x, AddPacket(sent, k, c))
    BY <1>2, <1>3, Zenon DEF Longer, SendsTo
  <1> QED
    BY <1>4, Zenon

\* What the server is in the middle of is not affected.
LEMMA SendKeepsLine ==
  ASSUME BaseInv, Protocol, ClientSend, noise' = 0
  PROVE  LineInv'
  <1> USE DEF BaseInv
  <1>1. PICK x \in Bodies : sent' = Append(sent, x) /\ in' = in \o Wire(x)
    <2>1. noise \in Nat
      BY DEF TypeOK
    <2> QED
      BY <2>1 DEF ClientSend, Transmit
  <1>2. /\ N' = N /\ newPkt' = newPkt /\ replies' = replies /\ checksum' = checksum
        /\ breaksTaken' = breaksTaken /\ breaksSent' = breaksSent /\ leftOver' = leftOver
        /\ mHavePendingBreak' = mHavePendingBreak /\ mNoAckMode' = mNoAckMode
        /\ mGetCharBuf' = mGetCharBuf /\ pc' = pc
        /\ clientNoAck' = clientNoAck /\ peerGone' = peerGone
        /\ client = "idle" \/ (clientNoAck /\ Len(sent) < replies + 2)
    BY DEF ClientSend, serverVars, getVars, N
  <1>3. CountInv /\ TypeOK /\ ModeInv
    BY DEF Protocol
  <1>4. /\ N \in Nat /\ Len(sent) \in Nat /\ replies \in Nat /\ sent \in Seq(Bodies)
        /\ replies <= N /\ N <= Len(sent) /\ Len(sent) <= replies + 2
    BY <1>3, Numbers
  <1>5. Len(sent) <= N + 1 /\ (client = "idle" => Len(sent) = replies)
    BY <1>2, <1>3, <1>4 DEF CountInv
  <1>6. Wire(x) \in Seq(Chars)
    BY WireShape
  <1>7. /\ \A b, c, d \in BOOLEAN : \E c2 \in BOOLEAN : SendsTo(N, b, c, d, x, c2)
        /\ N < Len(sent) =>
             \A b, c, d \in BOOLEAN : \E c2 \in BOOLEAN : SendsTo(N + 1, b, c, d, x, c2)
    <2> HIDE DEF BaseInv
    <2>1. TypeOK /\ CountInv /\ Len(sent) <= N + 1 /\ sent' = Append(sent, x)
          /\ N \in Nat /\ N + 1 \in Nat
      BY <1>1, <1>3, <1>4, <1>5
    <2>2. \A b, c, d \in BOOLEAN : \E c2 \in BOOLEAN : SendsTo(N, b, c, d, x, c2)
      BY <2>1, SendStream, Zenon
    <2>3. N < Len(sent) =>
             \A b, c, d \in BOOLEAN : \E c2 \in BOOLEAN : SendsTo(N + 1, b, c, d, x, c2)
      BY <2>1, SendStream, Zenon
    <2> QED
      BY <2>2, <2>3, Zenon
  <1>8. PICK b \in BOOLEAN, c \in BOOLEAN, d \in BOOLEAN :
          pc = "closed" \/ PlainAt(b, c, d) \/ StaleAt(c, d) \/ StalePacketAt(c, d)
          \/ PlusAt(b, c, d) \/ BodyAt(b, c, d) \/ SumAt(b, c, d)
    BY DEF Protocol, LineInv
  <1>9. N < Len(sent) => Current' = Current
    <2>1. N < Len(sent) => Append(sent, x)[N + 1] = sent[N + 1]
      BY <1>4, AppendFacts
    <2> QED
      BY <1>1, <1>2, <2>1 DEF Current
  <1>10. CASE PlainAt(b, c, d)
    <2>1. Incoming = Stream(sent, N, b, c, d) /\ StreamOK(N, b, c, d)
      BY <1>10 DEF PlainAt
    <2>2. PICK c2 \in BOOLEAN : SendsTo(N, b, c, d, x, c2)
      BY <1>7, Zenon
    <2>3. Incoming' = Stream(sent', N', b, c2, FALSE)
      BY <1>1, <1>2, <1>3, <1>6, <2>1, <2>2, WritingBehind, Zenon DEF SendsTo
    <2>4. ~Acking
      BY <1>2, <1>3, <1>4, <1>5, <1>10 DEF PlainAt, ModeInv, Acking
    <2>5. PlainAt(b, c2, FALSE)'
      BY <1>2, <1>10, <2>2, <2>3, <2>4 DEF PlainAt, StreamOK, BreaksLeft, Acking, SendsTo
    <2> QED
      BY <2>5 DEF LineInv
  <1>11. CASE StaleAt(c, d)
    <2>1. N = 0 /\ in = Stream(sent, N, FALSE, c, d) /\ StreamOK(N, FALSE, c, d)
      BY <1>11 DEF StaleAt
    <2>2. PICK c2 \in BOOLEAN : SendsTo(N, FALSE, c, d, x, c2)
      BY <1>7, Zenon
    <2>3. in' = Stream(sent', 0, FALSE, c2, FALSE)
      BY <1>1, <2>1, <2>2, Zenon DEF SendsTo
    <2>4. StaleAt(c2, FALSE)'
      BY <1>2, <1>11, <2>1, <2>2, <2>3 DEF StaleAt, StreamOK, BreaksLeft, SendsTo
    <2> QED
      BY <2>4 DEF LineInv
  <1>12. CASE StalePacketAt(c, d)
    <2>1. N = 0 /\ Incoming = Stream(sent, N, FALSE, c, d) /\ StreamOK(N, FALSE, c, d)
      BY <1>12 DEF StalePacketAt
    <2>2. PICK c2 \in BOOLEAN : SendsTo(N, FALSE, c, d, x, c2)
      BY <1>7, Zenon
    <2>3. Incoming' = Stream(sent', 0, FALSE, c2, FALSE)
      BY <1>1, <1>2, <1>3, <1>6, <2>1, <2>2, WritingBehind, Zenon DEF SendsTo
    <2>4. StalePacketAt(c2, FALSE)'
      BY <1>2, <1>12, <2>1, <2>2, <2>3 DEF StalePacketAt, StreamOK, BreaksLeft, SendsTo
    <2> QED
      BY <2>4 DEF LineInv
  <1>13. CASE PlusAt(b, c, d)
    <2>0. Br(b) \in Seq(Chars) /\ <<Plus>> \in Seq(Chars)
      BY BrType, CharsType
    <2>1. Incoming = Br(b) \o (<<Plus>> \o Stream(sent, N, FALSE, c, d))
      BY <1>13 DEF PlusAt
    <2>3. PICK c2 \in BOOLEAN : SendsTo(N, FALSE, c, d, x, c2)
      BY <1>7, Zenon
    <2>4. Incoming' = Br(b) \o (<<Plus>> \o Stream(sent', N', FALSE, c2, FALSE))
      <3> DEFINE T == Stream(sent, N, FALSE, c, d)
                 P == Br(b)
                 H == <<Plus>>
      <3>1. T \in Seq(Chars) /\ P \in Seq(Chars) /\ H \in Seq(Chars)
            /\ Incoming = P \o (H \o T)
        BY <2>0, <2>1, <2>3, Zenon DEF SendsTo
      <3>2. T \o Wire(x) = Stream(sent', N', FALSE, c2, FALSE)
        BY <1>2, <2>3, Zenon DEF SendsTo
      <3> HIDE DEF T, P, H
      <3>3. Incoming' = P \o (H \o (T \o Wire(x)))
        BY <1>1, <1>2, <1>3, <1>6, <3>1, WritingBehind, Zenon
      <3> QED
        BY <3>2, <3>3, Zenon DEF P, H
    <2>5. PlusAt(b, c2, FALSE)'
      BY <1>2, <1>13, <2>3, <2>4 DEF PlusAt, BreaksLeft, Acking, SendsTo
    <2> QED
      BY <2>5 DEF LineInv
  <1>14. CASE BodyAt(b, c, d)
    <2> DEFINE P == SubSeq(Current, Len(newPkt) + 1, Len(Current))
               H == <<Hash, Digit(Sum(Current))>>
    <2>1. /\ N < Len(sent) /\ Incoming = P \o (H \o Stream(sent, N + 1, b, c, d))
          /\ StreamOK(N + 1, b, c, d)
      BY <1>14 DEF BodyAt
    <2>2. PICK c2 \in BOOLEAN : SendsTo(N + 1, b, c, d, x, c2)
      BY <1>7, <2>1, Zenon
    <2>3. P \in Seq(Chars) /\ H \in Seq(Chars)
      <3>1. Current \in Seq(Chars) /\ H \in Seq(Chars)
        BY <1>3, <2>1, StreamThen
      <3>2. Len(newPkt) \in Nat
        BY DEF TypeOK
      <3> QED
        BY <3>1, <3>2
    <2>4. Incoming' = P \o (H \o Stream(sent', N + 1, b, c2, FALSE))
      <3> DEFINE T == Stream(sent, N + 1, b, c, d)
      <3>1. T \in Seq(Chars) /\ Incoming = P \o (H \o T)
            /\ T \o Wire(x) = Stream(sent', N + 1, b, c2, FALSE)
        BY <2>1, <2>2, Zenon DEF SendsTo
      <3> HIDE DEF T, P, H
      <3>3. Incoming' = P \o (H \o (T \o Wire(x)))
        BY <1>1, <1>2, <1>3, <1>6, <2>3, <3>1, WritingBehind, Zenon
      <3> QED
        BY <3>1, <3>3, Zenon
    <2>5. N < Len(sent')
      BY <1>1, <1>4, <2>1, AppendFacts
    <2>6. BodyAt(b, c2, FALSE)'
      BY <1>2, <1>9, <1>14, <2>1, <2>2, <2>4, <2>5 DEF BodyAt, StreamOK, BreaksLeft, SendsTo
    <2> QED
      BY <2>6 DEF LineInv
  <1>15. CASE SumAt(b, c, d)
    <2> DEFINE H == <<Digit(Sum(Current))>>
    <2>1. /\ N < Len(sent) /\ Incoming = H \o Stream(sent, N + 1, b, c, d)
          /\ StreamOK(N + 1, b, c, d)
      BY <1>15 DEF SumAt
    <2>2. PICK c2 \in BOOLEAN : SendsTo(N + 1, b, c, d, x, c2)
      BY <1>7, <2>1, Zenon
    <2>3. H \in Seq(Chars)
      BY <1>3, <2>1, StreamThen
    <2>4. Incoming' = H \o Stream(sent', N + 1, b, c2, FALSE)
      <3> DEFINE T == Stream(sent, N + 1, b, c, d)
      <3>1. T \in Seq(Chars) /\ Incoming = H \o T
            /\ T \o Wire(x) = Stream(sent', N + 1, b, c2, FALSE)
        BY <2>1, <2>2, Zenon DEF SendsTo
      <3> HIDE DEF T, H
      <3>3. Incoming' = H \o (T \o Wire(x))
        BY <1>1, <1>2, <1>3, <1>6, <2>3, <3>1, WritingBehind, Zenon
      <3> QED
        BY <3>1, <3>3, Zenon
    <2>5. N < Len(sent')
      BY <1>1, <1>4, <2>1, AppendFacts
    <2>6. SumAt(b, c2, FALSE)'
      BY <1>2, <1>9, <1>15, <2>1, <2>2, <2>4, <2>5 DEF SumAt, StreamOK, BreaksLeft, SendsTo
    <2> QED
      BY <2>6 DEF LineInv
  <1>16. CASE pc = "closed"
    BY <1>2, <1>16 DEF LineInv
  <1> QED
    BY <1>8, <1>10, <1>11, <1>12, <1>13, <1>14, <1>15, <1>16

LEMMA SendKeeps ==
  ASSUME BaseInv, Protocol, ClientSend, noise' = 0
  PROVE  Protocol'
  <1> USE DEF BaseInv
  <1>1. PICK x \in Bodies : sent' = Append(sent, x)
    BY DEF ClientSend
  <1>2. /\ N' = N /\ delivered' = delivered /\ replies' = replies /\ pc' = pc
        /\ Request' = Request /\ mNoAckMode' = mNoAckMode /\ out' = out
        /\ clientNoAck' = clientNoAck /\ peerGone' = peerGone /\ broke' = FALSE
        /\ client' = (IF clientNoAck THEN "waiting" ELSE "acking")
        /\ client = "idle" \/ (clientNoAck /\ Len(sent) < replies + 2)
    BY DEF ClientSend, serverVars, getVars, N, Request
  <1>3. CountInv /\ TypeOK /\ ModeInv /\ OutInv /\ pc # "assert"
    BY DEF Protocol
  <1>4. /\ N \in Nat /\ Len(sent) \in Nat /\ replies \in Nat /\ sent \in Seq(Bodies)
        /\ replies <= N /\ N <= Len(sent) /\ Len(sent) <= replies + 2
    BY <1>3, Numbers
  <1>5. Len(sent') = Len(sent) + 1
    BY <1>1, <1>4, AppendFacts
  <1>6. /\ client = "idle" => Len(sent) = replies
        /\ Len(sent) <= replies + 1
        /\ client # "acking" /\ ~(client' = "acking" /\ N = Len(sent'))
    BY <1>2, <1>3, <1>4, <1>5 DEF CountInv
  <1>7. CountInv'
    <2>1. delivered' = SubSeq(sent', 1, N')
      <3>1. SubSeq(Append(sent, x), 1, N) = SubSeq(sent, 1, N)
        BY <1>4, PrefixOfAppend
      <3>2. delivered = SubSeq(sent, 1, N)
        BY <1>3 DEF CountInv
      <3> QED
        BY <1>1, <1>2, <3>1, <3>2, Zenon
    <2>2. /\ replies' <= N' /\ N' <= Len(sent') /\ Len(sent') <= replies' + 2
          /\ Len(sent') # replies' /\ client' # "idle"
          /\ ~clientNoAck' => Len(sent') <= replies' + 1
      BY <1>2, <1>4, <1>5, <1>6
    <2>3. /\ client' = "acking" => ~clientNoAck' /\ ~broke'
          /\ ~(client' = "waiting" /\ ~clientNoAck')
          /\ Handling' => N' >= replies' + 1
          /\ ((Getting' \/ pc' = "closed") /\ ~mNoAckMode' /\ ~peerGone') => N' = replies'
      BY <1>2, <1>3 DEF CountInv, Handling, Getting
    <2> QED
      BY <2>1, <2>2, <2>3 DEF CountInv
  <1>8. ModeInv'
    <2>1. ~(mNoAckMode /\ ~clientNoAck)
      BY <1>2, <1>3, <1>4, <1>6 DEF ModeInv
    <2> QED
      BY <1>2, <1>3, <2>1 DEF ModeInv, Acking
  <1>9. OutInv'
    <2>1. /\ Underway' = Underway /\ ReplyTo(replies + 1)' = ReplyTo(replies + 1)
          /\ ReplyTo(replies + 2)' = ReplyTo(replies + 2)
      BY <1>2 DEF Underway, Handling, ReplyTo
    <2>2. ~(client' = "acking" /\ N' = Len(sent')) /\ ~(client = "acking" /\ N = Len(sent))
      BY <1>2, <1>6
    <2> HIDE DEF BaseInv
    <2> QED
      BY <1>2, <1>3, <2>1, <2>2, Zenon DEF OutInv
  <1>10. LineInv'
    BY SendKeepsLine
  <1> QED
    BY <1>2, <1>3, <1>7, <1>8, <1>9, <1>10 DEF Protocol

\* The line is one of six kinds.
LEMMA LineThen ==
  ASSUME NEW b \in BOOLEAN, NEW c \in BOOLEAN, NEW d \in BOOLEAN,
         \/ PlainAt(b, c, d)' \/ StaleAt(c, d)' \/ StalePacketAt(c, d)'
         \/ PlusAt(b, c, d)' \/ BodyAt(b, c, d)' \/ SumAt(b, c, d)'
  PROVE  LineInv'
  <1>1. PlainAt(b, c, d)' => LineInv'
    BY DEF LineInv
  <1>2. StaleAt(c, d)' => LineInv'
    BY DEF LineInv
  <1>3. StalePacketAt(c, d)' => LineInv'
    BY DEF LineInv
  <1>4. PlusAt(b, c, d)' => LineInv'
    BY DEF LineInv
  <1>5. BodyAt(b, c, d)' => LineInv'
    BY DEF LineInv
  <1>6. SumAt(b, c, d)' => LineInv'
    BY DEF LineInv
  <1> QED
    BY <1>1, <1>2, <1>3, <1>4, <1>5, <1>6, Zenon

\* The client closes the connection.
LEMMA GoneKeeps ==
  ASSUME BaseInv, Protocol, ClientGone
  PROVE  Protocol'
  <1>1. /\ N' = N /\ sent' = sent /\ replies' = replies /\ delivered' = delivered
        /\ Request' = Request /\ client' = client /\ mNoAckMode' = mNoAckMode
        /\ clientNoAck' = clientNoAck /\ broke' = broke /\ peerGone' = TRUE
        /\ breaksTaken' = breaksTaken /\ breaksSent' = breaksSent /\ leftOver' = leftOver
        /\ mHavePendingBreak' = mHavePendingBreak /\ newPkt' = newPkt /\ checksum' = checksum
        /\ pc' = pc /\ Incoming' = Incoming /\ in' = in /\ mGetCharBuf' = mGetCharBuf
        /\ Current' = Current
    BY DEF ClientGone, serverVars, getVars, N, Request, Incoming, Current
  <1>2. CountInv'
    BY <1>1 DEF Protocol, CountInv, Handling, Getting
  <1>3. ModeInv'
    BY <1>1 DEF Protocol, ModeInv, Acking
  <1>4. OutInv'
    BY <1>1 DEF OutInv
  <1>5. LineInv'
    <2>1. CASE pc = "closed"
      BY <1>1, <2>1 DEF LineInv
    <2>2. CASE pc # "closed"
      <3>1. PICK b \in BOOLEAN, c \in BOOLEAN, d \in BOOLEAN :
              PlainAt(b, c, d) \/ StaleAt(c, d) \/ StalePacketAt(c, d)
              \/ PlusAt(b, c, d) \/ BodyAt(b, c, d) \/ SumAt(b, c, d)
        BY <2>2 DEF Protocol, LineInv
      <3>2. StreamOK(N, b, c, d)' = StreamOK(N, b, c, d)
            /\ StreamOK(0, FALSE, c, d)' = StreamOK(0, FALSE, c, d)
            /\ StreamOK(N + 1, b, c, d)' = StreamOK(N + 1, b, c, d)
        BY <1>1, Zenon DEF StreamOK, BreaksLeft
      <3>3. PlainAt(b, c, d) => PlainAt(b, c, d)'
        BY <1>1, <3>2, Zenon DEF PlainAt, Acking
      <3>4. /\ StaleAt(c, d) => StaleAt(c, d)'
            /\ StalePacketAt(c, d) => StalePacketAt(c, d)'
            /\ BodyAt(b, c, d) => BodyAt(b, c, d)'
            /\ SumAt(b, c, d) => SumAt(b, c, d)'
        BY <1>1, <3>2, Zenon DEF StaleAt, StalePacketAt, BodyAt, SumAt
      <3>5. PlusAt(b, c, d) => PlusAt(b, c, d)'
        BY <1>1, Zenon DEF PlusAt, Acking, BreaksLeft
      <3> QED
        BY <3>1, <3>3, <3>4, <3>5, LineThen, Zenon
    <2> QED
      BY <2>1, <2>2
  <1> QED
    BY <1>1, <1>2, <1>3, <1>4, <1>5 DEF Protocol

\* What the client reads first: an acknowledgement of the last packet, or the
\* reply to the packet after those that were answered.
LEMMA ClientReads ==
  ASSUME TypeOK, CountInv, OutInv, ~peerGone, out # <<>>
  PROVE  \/ /\ client = "acking" /\ N = Len(sent) /\ Head(out) = "+"
            /\ Tail(out) = (IF Underway = 0 THEN <<>>
                            ELSE <<ReplyTo(replies + 1)>> \o
                                 (IF Underway = 1 THEN <<>> ELSE <<ReplyTo(replies + 2)>>))
         \/ /\ ~(client = "acking" /\ N = Len(sent)) /\ Underway >= 1
            /\ Head(out) = ReplyTo(replies + 1)
            /\ Tail(out) = (IF Underway = 1 THEN <<>> ELSE <<ReplyTo(replies + 2)>>)
  <1> DEFINE X == {"+", "OK", "reply"}
             r1 == ReplyTo(replies + 1)
             r2 == ReplyTo(replies + 2)
             R == IF Underway = 1 THEN <<>> ELSE <<r2>>
             Q == IF Underway = 0 THEN <<>> ELSE <<r1>> \o R
  <1>1. Underway \in Nat
    <2>1. N \in Nat /\ replies \in Nat /\ replies <= N
      BY Numbers
    <2>2. Handling => N >= replies + 1
      BY DEF CountInv
    <2> QED
      BY <2>1, <2>2 DEF Underway
  <1>2. r1 \in X /\ r2 \in X /\ "+" \in X
    BY DEF ReplyTo
  <1>3. out = (IF client = "acking" /\ N = Len(sent) THEN <<"+">> ELSE <<>>) \o Q
    BY DEF OutInv
  <1> HIDE DEF r1, r2, X
  <1>4. R \in Seq(X)
    <2>1. <<r2>> \in Seq(X) /\ <<>> \in Seq(X)
      BY <1>2
    <2> QED
      BY <2>1, Zenon
  <1> HIDE DEF R
  <1>5. <<r1>> \o R \in Seq(X) /\ Head(<<r1>> \o R) = r1 /\ Tail(<<r1>> \o R) = R
    BY <1>2, <1>4, ReadOne
  <1>6. Q \in Seq(X)
    BY <1>5, Empty, Zenon
  <1>7. CASE client = "acking" /\ N = Len(sent)
    <2>1. out = <<"+">> \o Q
      BY <1>3, <1>7, Zenon
    <2> HIDE DEF Q
    <2>2. Head(out) = "+" /\ Tail(out) = Q
      BY <1>2, <1>6, <2>1, ReadOne
    <2> QED
      BY <1>7, <2>2, Zenon DEF Q, R, r1, r2
  <1>8. CASE ~(client = "acking" /\ N = Len(sent))
    <2>1. out = <<>> \o Q
      BY <1>3, <1>8, Zenon
    <2>2. out = Q
      <3> HIDE DEF Q
      <3> QED
        BY <1>6, <2>1, JoinedEmpty
    <2>3. Underway # 0
      BY <2>2, Zenon
    <2>4. out = <<r1>> \o R
      BY <2>2, <2>3, Zenon
    <2>5. Head(out) = r1 /\ Tail(out) = R /\ Underway >= 1
      BY <1>1, <1>5, <2>3, <2>4
    <2> QED
      BY <1>8, <2>5, Zenon DEF R, r1, r2
  <1> QED
    BY <1>7, <1>8, Zenon

\* The client sees the acknowledgement of its packet.  None is refused.
LEMMA AckedKeeps ==
  ASSUME BaseInv, Protocol, ClientAcked
  PROVE  Protocol'
  <1> USE DEF BaseInv
  <1>1. CountInv /\ TypeOK /\ ModeInv /\ OutInv /\ pc # "assert"
    BY DEF Protocol
  <1>2. ~peerGone /\ out # <<>> /\ Head(out) \in {"+", "-"} /\ out' = Tail(out)
    BY DEF ClientAcked
  <1>3. /\ client = "acking" /\ N = Len(sent) /\ Head(out) = "+"
        /\ Tail(out) = (IF Underway = 0 THEN <<>>
                        ELSE <<ReplyTo(replies + 1)>> \o
                             (IF Underway = 1 THEN <<>> ELSE <<ReplyTo(replies + 2)>>))
    <2>1. ReplyTo(replies + 1) \notin {"+", "-"}
      BY DEF ReplyTo
    <2> HIDE DEF BaseInv
    <2> QED
      BY <1>1, <1>2, <2>1, ClientReads, Zenon
  <1>4. /\ N' = N /\ sent' = sent /\ replies' = replies /\ delivered' = delivered
        /\ Request' = Request /\ client' = "waiting" /\ mNoAckMode' = mNoAckMode
        /\ clientNoAck' = clientNoAck /\ broke' = broke /\ peerGone' = peerGone
        /\ breaksTaken' = breaksTaken /\ breaksSent' = breaksSent /\ leftOver' = leftOver
        /\ mHavePendingBreak' = mHavePendingBreak /\ newPkt' = newPkt /\ checksum' = checksum
        /\ pc' = pc /\ Incoming' = Incoming /\ in' = in /\ mGetCharBuf' = mGetCharBuf
        /\ Current' = Current
    BY <1>3 DEF ClientAcked, serverVars, getVars, N, Request, Incoming, Current
  <1>5. CountInv'
    BY <1>1, <1>3, <1>4 DEF CountInv, Handling, Getting
  <1>6. ModeInv'
    BY <1>1, <1>4 DEF ModeInv, Acking
  <1>7. OutInv'
    <2> DEFINE Q == IF Underway = 0 THEN <<>>
                    ELSE <<ReplyTo(replies + 1)>> \o
                         (IF Underway = 1 THEN <<>> ELSE <<ReplyTo(replies + 2)>>)
    <2>1. /\ Underway' = Underway /\ ReplyTo(replies + 1)' = ReplyTo(replies + 1)
          /\ ReplyTo(replies + 2)' = ReplyTo(replies + 2)
      BY <1>4 DEF Underway, Handling, ReplyTo
    <2>2. out' = Q
      BY <1>2, <1>3, Zenon
    <2>3. Q' = Q
      BY <2>1, Zenon
    <2>4. out' \in Seq({"+", "-", "OK", "reply"})
      BY <1>2 DEF TypeOK
    <2>5. out' = <<>> \o out'
      BY <2>4, JoinedEmpty
    <2>6. ~(client' = "acking" /\ N' = Len(sent'))
      BY <1>4
    <2>7. out' = <<>> \o Q'
      BY <2>2, <2>3, <2>5, Zenon
    <2> QED
      BY <2>6, <2>7, Zenon DEF OutInv
  <1>8. LineInv'
    <2>1. CASE pc = "closed"
      BY <1>4, <2>1 DEF LineInv
    <2>2. CASE pc # "closed"
      <3>1. PICK b \in BOOLEAN, c \in BOOLEAN, d \in BOOLEAN :
              PlainAt(b, c, d) \/ StaleAt(c, d) \/ StalePacketAt(c, d)
              \/ PlusAt(b, c, d) \/ BodyAt(b, c, d) \/ SumAt(b, c, d)
        BY <2>2 DEF Protocol, LineInv
      <3>2. client # "idle"
        BY <1>3
      <3>3. /\ StreamOK(N, b, c, d) => StreamOK(N, b, c, d)'
            /\ StreamOK(0, FALSE, c, d) => StreamOK(0, FALSE, c, d)'
            /\ StreamOK(N + 1, b, c, d) => StreamOK(N + 1, b, c, d)'
        BY <1>4, <3>2, Zenon DEF StreamOK, BreaksLeft
      <3>4. PlainAt(b, c, d) => PlainAt(b, c, d)'
        BY <1>4, <3>3, Zenon DEF PlainAt, Acking
      <3>5. /\ StaleAt(c, d) => StaleAt(c, d)'
            /\ StalePacketAt(c, d) => StalePacketAt(c, d)'
            /\ BodyAt(b, c, d) => BodyAt(b, c, d)'
            /\ SumAt(b, c, d) => SumAt(b, c, d)'
        BY <1>4, <3>3, Zenon DEF StaleAt, StalePacketAt, BodyAt, SumAt
      <3>6. PlusAt(b, c, d) => PlusAt(b, c, d)'
        BY <1>4, <3>2, Zenon DEF PlusAt, Acking, BreaksLeft
      <3> QED
        BY <3>1, <3>4, <3>5, <3>6, LineThen, Zenon
    <2> QED
      BY <2>1, <2>2
  <1> QED
    BY <1>1, <1>4, <1>5, <1>6, <1>7, <1>8 DEF Protocol

\* The client accepts a reply, and acknowledges it if it still does so.
LEMMA ReplyKeeps ==
  ASSUME BaseInv, Protocol, ClientReply, noise' = 0
  PROVE  Protocol'
  <1> USE DEF BaseInv
  <1>1. CountInv /\ TypeOK /\ ModeInv /\ OutInv /\ pc # "assert"
    BY DEF Protocol
  <1>2. /\ ~peerGone /\ out # <<>> /\ Head(out) \in {"OK", "reply"} /\ out' = Tail(out)
        /\ replies' = replies + 1
        /\ client' = (IF client = "waiting" /\ replies' >= Len(sent) THEN "idle" ELSE client)
        /\ in' = (IF clientNoAck THEN in ELSE Append(in, Plus))
        /\ clientNoAck' = (clientNoAck \/ Head(out) = "OK")
    <2>1. noise \in Nat
      BY DEF TypeOK
    <2> QED
      BY <2>1 DEF ClientReply
  <1>3. /\ N' = N /\ sent' = sent /\ delivered' = delivered
        /\ Request' = Request /\ mNoAckMode' = mNoAckMode
        /\ broke' = broke /\ peerGone' = peerGone
        /\ breaksTaken' = breaksTaken /\ breaksSent' = breaksSent /\ leftOver' = leftOver
        /\ mHavePendingBreak' = mHavePendingBreak /\ newPkt' = newPkt /\ checksum' = checksum
        /\ pc' = pc /\ mGetCharBuf' = mGetCharBuf /\ Current' = Current
    BY DEF ClientReply, serverVars, getVars, N, Request, Current
  <1>4. /\ ~(client = "acking" /\ N = Len(sent)) /\ Underway >= 1
        /\ Head(out) = ReplyTo(replies + 1)
        /\ Tail(out) = (IF Underway = 1 THEN <<>> ELSE <<ReplyTo(replies + 2)>>)
    <2>1. Head(out) # "+"
      BY <1>2
    <2> HIDE DEF BaseInv
    <2> QED
      BY <1>1, <1>2, <2>1, ClientReads, Zenon
  <1>5. /\ N \in Nat /\ Len(sent) \in Nat /\ replies \in Nat /\ sent \in Seq(Bodies)
        /\ replies <= N /\ N <= Len(sent) /\ Len(sent) <= replies + 2
    BY <1>1, Numbers
  <1>6. N >= replies + 1 /\ (Handling => N >= replies + 2)
    BY <1>4, <1>5 DEF Underway
  <1>7. client = "waiting" /\ (~clientNoAck => N = Len(sent) /\ N = replies + 1)
    <2>1. client \in {"idle", "acking", "waiting"}
      BY DEF TypeOK
    <2>2. client # "idle"
      BY <1>1, <1>5, <1>6 DEF CountInv
    <2>3. ~clientNoAck => N = Len(sent) /\ N = replies + 1
      BY <1>1, <1>5, <1>6 DEF CountInv
    <2>4. client # "acking"
      BY <1>1, <1>4, <2>3 DEF CountInv
    <2> QED
      BY <2>1, <2>2, <2>3, <2>4
  <1>8. client' = (IF replies + 1 = Len(sent) THEN "idle" ELSE "waiting")
    BY <1>2, <1>5, <1>6, <1>7
  <1>9. CountInv'
    <2>1. /\ replies' <= N' /\ N' <= Len(sent') /\ Len(sent') <= replies' + 2
          /\ client' = "idle" <=> Len(sent') = replies'
          /\ client' # "acking"
      BY <1>2, <1>3, <1>5, <1>6, <1>8
    <2>2. delivered' = SubSeq(sent', 1, N')
      BY <1>1, <1>3, Zenon DEF CountInv
    <2>3. ~clientNoAck' => Len(sent') <= replies' + 1 /\ N' = Len(sent')
      <3>1. ~clientNoAck' => ~clientNoAck
        BY <1>2, Zenon
      <3>2. ~clientNoAck => Len(sent') <= replies' + 1 /\ N' = Len(sent')
        BY <1>2, <1>3, <1>5, <1>7
      <3> QED
        BY <3>1, <3>2, Zenon
    <2>4. Handling' => N' >= replies' + 1
      <3>1. Handling' = Handling
        BY <1>3, Zenon DEF Handling
      <3> QED
        BY <1>2, <1>3, <1>5, <1>6, <3>1
    <2>5. ~((Getting' \/ pc' = "closed") /\ ~mNoAckMode' /\ ~peerGone')
      <3>1. N # replies
        BY <1>5, <1>6
      <3> QED
        BY <1>1, <1>3, <3>1, Zenon DEF CountInv, Getting
    <2> HIDE DEF BaseInv
    <2> QED
      BY <2>1, <2>2, <2>3, <2>4, <2>5, Zenon DEF CountInv
  <1>10. ~clientNoAck => (Head(out) = "OK" <=> Request = NoAckBody)
    BY <1>4, <1>7 DEF ReplyTo, Request, N
  <1>11. ~clientNoAck /\ Getting => mNoAckMode
    BY <1>1, <1>2, <1>5, <1>7 DEF CountInv
  <1>12. ModeInv'
    <2>1. Head(out) = "OK" /\ ~clientNoAck => mNoAckMode
      <3> SUFFICES ASSUME Head(out) = "OK", ~clientNoAck PROVE mNoAckMode
        OBVIOUS
      <3>1. Request = NoAckBody /\ ~Acking
        BY <1>1, <1>10 DEF ModeInv
      <3>2. ~Handling
        BY <1>5, <1>6, <1>7
      <3>3. Getting \/ pc = "closed"
        BY <1>1, <3>1, <3>2 DEF Getting, Handling, Acking, TypeOK, Places
      <3> QED
        BY <1>1, <1>2, <1>5, <1>7, <3>3 DEF CountInv
    <2>2. clientNoAck' => mNoAckMode' /\ replies' >= 1
      <3>1. replies' >= 1
        BY <1>2, <1>5
      <3>2. clientNoAck' => mNoAckMode'
        BY <1>1, <1>2, <1>3, <2>1, Zenon DEF ModeInv
      <3> QED
        BY <3>1, <3>2, Zenon
    <2>3. ~(mNoAckMode' /\ ~clientNoAck')
      BY <1>1, <1>2, <1>3, <1>10 DEF ModeInv
    <2>4. /\ (pc' \in {"run", "put"} /\ ~mNoAckMode') => Request' # NoAckBody
          /\ Acking' => ~mNoAckMode' /\ Request' # NoAckBody
      BY <1>1, <1>3 DEF ModeInv, Acking
    <2> QED
      BY <2>2, <2>3, <2>4 DEF ModeInv
  <1>13. OutInv'
    <2> DEFINE r2 == ReplyTo(replies + 2)
    <2>1. Underway' = Underway - 1 /\ Underway \in {1, 2}
      <3>1. Handling' = Handling
        BY <1>3 DEF Handling
      <3> QED
        BY <1>2, <1>3, <1>4, <1>5, <3>1 DEF Underway
    <2>2. ReplyTo(replies + 1)' = r2
      <3>1. (replies + 1) + 1 = replies + 2
        BY <1>5
      <3> QED
        BY <1>2, <1>3, <3>1, Zenon DEF ReplyTo
    <2>3. r2 \in {"OK", "reply"}
      BY DEF ReplyTo
    <2>4. ~(client' = "acking" /\ N' = Len(sent'))
      BY <1>8
    <2> SUFFICES out' = <<>> \o (IF Underway' = 0 THEN <<>>
                           ELSE <<ReplyTo(replies + 1)'>> \o
                                (IF Underway' = 1 THEN <<>> ELSE <<ReplyTo(replies + 2)'>>))
      BY <2>4, Zenon DEF OutInv
    <2>5. CASE Underway = 1
      <3>1. out' = <<>> /\ Underway' = 0
        BY <1>2, <1>4, <2>1, <2>5
      <3>2. <<>> \o <<>> = <<>>
        OBVIOUS
      <3> QED
        BY <3>1, <3>2, Zenon
    <2>6. CASE Underway = 2
      <3>1. out' = <<r2>> /\ Underway' = 1 /\ Underway' # 0
        BY <1>2, <1>4, <2>1, <2>6
      <3> HIDE DEF r2
      <3>2. <<>> \o (<<r2>> \o <<>>) = <<r2>>
        BY <2>3
      <3> QED
        BY <2>2, <3>1, <3>2, Zenon
    <2> QED
      BY <2>1, <2>5, <2>6
  <1>14. LineInv'
    <2>1. PICK b \in BOOLEAN, c \in BOOLEAN, d \in BOOLEAN :
            pc = "closed" \/ PlainAt(b, c, d) \/ StaleAt(c, d) \/ StalePacketAt(c, d)
            \/ PlusAt(b, c, d) \/ BodyAt(b, c, d) \/ SumAt(b, c, d)
      BY DEF Protocol, LineInv
    <2>2. ~PlusAt(b, c, d)
      <3>1. N # replies
        BY <1>5, <1>6
      <3> QED
        BY <3>1, Zenon DEF PlusAt
    <2>3. CASE pc = "closed"
      BY <1>3, <2>3 DEF LineInv
    <2>4. CASE clientNoAck /\ pc # "closed"
      <3>1. Incoming' = Incoming /\ in' = in /\ ~Acking /\ client # "idle"
        BY <1>1, <1>2, <1>3, <1>7, <2>4 DEF Incoming, ModeInv
      <3>2. /\ StreamOK(N, b, c, d) => StreamOK(N, b, c, d)'
            /\ StreamOK(0, FALSE, c, d) => StreamOK(0, FALSE, c, d)'
            /\ StreamOK(N + 1, b, c, d) => StreamOK(N + 1, b, c, d)'
        BY <1>3, <3>1, Zenon DEF StreamOK, BreaksLeft
      <3>3. PlainAt(b, c, d) => PlainAt(b, c, d)'
        BY <1>3, <3>1, <3>2 DEF PlainAt, Acking
      <3>4. /\ StaleAt(c, d) => StaleAt(c, d)'
            /\ StalePacketAt(c, d) => StalePacketAt(c, d)'
            /\ BodyAt(b, c, d) => BodyAt(b, c, d)'
            /\ SumAt(b, c, d) => SumAt(b, c, d)'
        BY <1>3, <3>1, <3>2, Zenon DEF StaleAt, StalePacketAt, BodyAt, SumAt
      <3> QED
        BY <2>1, <2>2, <2>4, <3>3, <3>4, LineThen, Zenon
    <2>5. CASE ~clientNoAck /\ pc # "closed"
      <3>1. PlainAt(b, c, d)
        <4>1. ~StaleAt(c, d) /\ ~StalePacketAt(c, d) /\ ~BodyAt(b, c, d) /\ ~SumAt(b, c, d)
          <5>1. N # 0 /\ ~(N < Len(sent))
            BY <1>5, <1>7, <2>5
          <5> QED
            BY <5>1, Zenon DEF StaleAt, StalePacketAt, BodyAt, SumAt
        <4> QED
          BY <2>1, <2>2, <2>5, <4>1, Zenon
      <3>2. /\ Incoming = Br(b) /\ BreaksLeft(Count(b))
        <4>1. /\ Stream(sent, N, b, c, d) = Br(b) /\ Breaks(sent, N, b, c, d) = Count(b)
          BY <1>5, <1>7, <2>5, StreamEnd, Zenon
        <4> QED
          BY <3>1, <4>1 DEF PlainAt, StreamOK
      <3>3. /\ Stream(sent, N, FALSE, FALSE, FALSE) = <<>>
            /\ Breaks(sent, N, FALSE, FALSE, FALSE) = 0
            /\ ~LastBreak(sent, N, FALSE, FALSE, FALSE)
        <4>1. /\ Stream(sent, N, FALSE, FALSE, FALSE) = Br(FALSE)
              /\ Breaks(sent, N, FALSE, FALSE, FALSE) = Count(FALSE)
              /\ ~LastBreak(sent, N, FALSE, FALSE, FALSE)
          BY <1>5, <1>7, <2>5, StreamEnd, Zenon
        <4> QED
          BY <4>1 DEF Br, Count
      <3>4. Incoming' = Br(b) \o (<<Plus>> \o <<>>)
        <4>1. in \in Seq(Chars) /\ Plus \in Chars /\ <<Plus>> \in Seq(Chars)
          BY CharsType DEF TypeOK
        <4>2. in' = in \o <<Plus>>
          BY <1>2, <2>5, <4>1, AppendIsJoin
        <4>3. Incoming' = Incoming \o <<Plus>>
          BY <1>1, <1>3, <4>1, <4>2, Writing, Zenon
        <4>4. <<Plus>> \o <<>> = <<Plus>>
          BY <4>1
        <4> QED
          BY <3>2, <4>3, <4>4, Zenon
      <3>5. Acking \/ (pc = "start" /\ clientNoAck')
        <4>1. ~Handling
          BY <1>5, <1>6, <1>7, <2>5
        <4>2. pc = "start" \/ Acking
          BY <3>1, <4>1 DEF PlainAt, Handling, Acking
        <4>3. pc = "start" => clientNoAck'
          BY <1>1, <1>2, <1>10, <1>11, <2>5 DEF Getting, ModeInv
        <4> QED
          BY <4>2, <4>3
      <3>6. Count(b) \in Nat
        BY BrType
      <3>7. BreaksLeft(Count(b) + Breaks(sent, N, FALSE, FALSE, FALSE))'
        <4>1. Count(b) + 0 = Count(b)
          BY <3>6
        <4> QED
          BY <1>3, <3>2, <3>3, <4>1, Zenon DEF BreaksLeft
      <3>8. PlusAt(b, FALSE, FALSE)'
        BY <1>2, <1>3, <1>7, <2>5, <3>1, <3>3, <3>4, <3>5, <3>7 DEF PlusAt, PlainAt, Acking
      <3> QED
        BY <3>8, LineThen, Zenon
    <2> QED
      BY <2>3, <2>4, <2>5
  <1> QED
    BY <1>1, <1>3, <1>9, <1>12, <1>13, <1>14 DEF Protocol

\* A break of the client is the last thing to be read.
BreaksTo(k, b, c, d, b2, c2, d2) ==
    /\ Stream(sent, k, b, c, d) \in Seq(Chars)
    /\ Stream(sent, k, b, c, d) \o <<Break>> = Stream(sent, k, b2, c2, d2)
    /\ b2 => b \/ k = Len(sent)
    /\ Breaks(sent, k, b, c, d) \in Nat
    /\ Breaks(sent, k, b2, c2, d2) = Breaks(sent, k, b, c, d) + 1

CanBreak(k, b, c, d) == \E b2, c2, d2 \in BOOLEAN : BreaksTo(k, b, c, d, b2, c2, d2)

LEMMA BreakStream ==
  ASSUME TypeOK, CountInv,
         NEW k \in Nat, k = N \/ (k = N + 1 /\ N < Len(sent)),
         NEW b \in BOOLEAN, NEW c \in BOOLEAN, NEW d \in BOOLEAN,
         ~LastBreak(sent, k, b, c, d)
  PROVE  CanBreak(k, b, c, d)
  <1> DEFINE b2 == AddBreak(sent, k, b)
             c2 == AddBreak(sent, k + 1, c)
             d2 == AddBreak(sent, k + 2, d)
  <1>1. k \in 0 .. Len(sent) /\ Len(sent) <= k + 2 /\ sent \in Seq(Bodies)
    BY Numbers
  <1>2. Stream(sent, k, b, c, d) \in Seq(Chars) /\ Breaks(sent, k, b, c, d) \in Nat
    BY <1>1, StreamType
  <1>5. Broken(sent, k, b, c, d, b2, c2, d2)
    BY <1>1, StreamAddBreak, Zenon
  <1>6. b2 => b \/ k = Len(sent)
    BY Zenon DEF AddBreak
  <1> HIDE DEF b2, c2, d2
  <1>7. /\ b2 \in BOOLEAN /\ c2 \in BOOLEAN /\ d2 \in BOOLEAN
        /\ BreaksTo(k, b, c, d, b2, c2, d2)
    BY <1>2, <1>5, <1>6, Zenon DEF Broken, BreaksTo
  <1> QED
    BY <1>7, Zenon DEF CanBreak

LEMMA BreakKeepsLine ==
  ASSUME BaseInv, Protocol, ClientBreak
  PROVE  LineInv'
  <1> USE DEF BaseInv
  <1>1. CountInv /\ TypeOK /\ ModeInv
    BY DEF Protocol
  <1>2. /\ N' = N /\ newPkt' = newPkt /\ replies' = replies /\ checksum' = checksum
        /\ breaksTaken' = breaksTaken /\ breaksSent' = breaksSent + 1 /\ leftOver' = leftOver
        /\ mHavePendingBreak' = mHavePendingBreak /\ mNoAckMode' = mNoAckMode
        /\ mGetCharBuf' = mGetCharBuf /\ pc' = pc /\ sent' = sent /\ Current' = Current
        /\ clientNoAck' = clientNoAck /\ peerGone' = peerGone /\ broke' = TRUE
        /\ client = "waiting" /\ ~broke /\ ~peerGone /\ client # "idle"
    BY DEF ClientBreak, serverVars, getVars, N, Current
  <1>3. /\ N \in Nat /\ Len(sent) \in Nat /\ replies \in Nat
        /\ replies <= N /\ N <= Len(sent) /\ Len(sent) # replies
    BY <1>1, <1>2, Numbers DEF CountInv
  <1>4. <<Break>> \in Seq(Chars) /\ in' = in \o <<Break>>
    <2>1. in \in Seq(Chars) /\ Break \in Chars
      BY CharsType DEF TypeOK
    <2> QED
      BY <2>1, AppendIsJoin DEF ClientBreak
  <1>5. /\ \A b, c, d \in BOOLEAN : ~LastBreak(sent, N, b, c, d) =>
             CanBreak(N, b, c, d)
        /\ N < Len(sent) =>
             \A b, c, d \in BOOLEAN :
               ~LastBreak(sent, N + 1, b, c, d) =>
                  CanBreak(N + 1, b, c, d)
    <2> HIDE DEF BaseInv
    <2>1. N \in Nat /\ N + 1 \in Nat
      BY <1>3
    <2>2. \A b, c, d \in BOOLEAN : ~LastBreak(sent, N, b, c, d) =>
             CanBreak(N, b, c, d)
      BY <1>1, <1>2, <2>1, BreakStream, Zenon
    <2>3. N < Len(sent) =>
             \A b, c, d \in BOOLEAN :
               ~LastBreak(sent, N + 1, b, c, d) =>
                  CanBreak(N + 1, b, c, d)
      BY <1>1, <1>2, <2>1, BreakStream, Zenon
    <2> QED
      BY <2>2, <2>3, Zenon
  <1>6. \A n \in Nat : BreaksLeft(n) => BreaksLeft(n + 1)'
    <2>1. /\ breaksTaken \in Nat /\ breaksSent \in Nat /\ Count(mHavePendingBreak) \in Nat
          /\ Count(leftOver) \in Nat
      BY DEF TypeOK, Count
    <2> QED
      BY <1>2, <2>1 DEF BreaksLeft
  <1>7. PICK b \in BOOLEAN, c \in BOOLEAN, d \in BOOLEAN :
          pc = "closed" \/ PlainAt(b, c, d) \/ StaleAt(c, d) \/ StalePacketAt(c, d)
          \/ PlusAt(b, c, d) \/ BodyAt(b, c, d) \/ SumAt(b, c, d)
    BY DEF Protocol, LineInv
  <1>8. CASE PlainAt(b, c, d)
    <2>1. Incoming = Stream(sent, N, b, c, d) /\ StreamOK(N, b, c, d)
          /\ ~LastBreak(sent, N, b, c, d)
      BY <1>2, <1>8, Zenon DEF PlainAt, StreamOK
    <2>2. PICK b2 \in BOOLEAN, c2 \in BOOLEAN, d2 \in BOOLEAN :
            BreaksTo(N, b, c, d, b2, c2, d2)
      <3>1. CanBreak(N, b, c, d)
        BY <1>5, <2>1, Zenon
      <3> QED
        BY <3>1, Zenon DEF CanBreak
    <2>3. Incoming' = Stream(sent', N', b2, c2, d2)
      BY <1>1, <1>2, <1>4, <2>1, <2>2, WritingBehind, Zenon DEF BreaksTo
    <2>4. StreamOK(N, b2, c2, d2)'
      BY <1>2, <1>6, <2>1, <2>2, Zenon DEF StreamOK, BreaksTo
    <2>5. (pc = "start" /\ ~mNoAckMode) => ~b2
      <3>1. pc = "start" /\ ~mNoAckMode => ~b /\ N # Len(sent)
        BY <1>1, <1>2, <1>3, <1>8 DEF PlainAt, CountInv, Getting
      <3> QED
        BY <2>2, <3>1, Zenon DEF BreaksTo
    <2>6. pc # "ack2"
      BY <1>2, <1>8, Zenon DEF PlainAt
    <2>7. PlainAt(b2, c2, d2)'
      BY <1>2, <1>8, <2>3, <2>4, <2>5, <2>6, Zenon DEF PlainAt, Acking
    <2> QED
      BY <2>7, LineThen, Zenon
  <1>9. CASE StaleAt(c, d)
    <2>1. N = 0 /\ in = Stream(sent, N, FALSE, c, d) /\ StreamOK(N, FALSE, c, d)
          /\ ~LastBreak(sent, N, FALSE, c, d)
      BY <1>2, <1>9, Zenon DEF StaleAt, StreamOK
    <2>2. PICK b2 \in BOOLEAN, c2 \in BOOLEAN, d2 \in BOOLEAN :
            BreaksTo(N, FALSE, c, d, b2, c2, d2)
      <3>1. CanBreak(N, FALSE, c, d)
        BY <1>5, <2>1, Zenon
      <3> QED
        BY <3>1, Zenon DEF CanBreak
    <2>3. b2 = FALSE
      <3>1. N # Len(sent)
        BY <1>3, <2>1
      <3> QED
        BY <2>2, <3>1, Zenon DEF BreaksTo
    <2>4. in' = Stream(sent', 0, FALSE, c2, d2)
      BY <1>2, <1>4, <2>1, <2>2, <2>3, Zenon DEF BreaksTo
    <2>5. StreamOK(0, FALSE, c2, d2)'
      BY <1>2, <1>6, <2>1, <2>2, <2>3, Zenon DEF StreamOK, BreaksTo
    <2>6. StaleAt(c2, d2)'
      BY <1>2, <1>9, <2>4, <2>5, Zenon DEF StaleAt
    <2> QED
      BY <2>6, LineThen, Zenon
  <1>10. CASE StalePacketAt(c, d)
    <2>1. N = 0 /\ Incoming = Stream(sent, N, FALSE, c, d) /\ StreamOK(N, FALSE, c, d)
          /\ ~LastBreak(sent, N, FALSE, c, d)
      BY <1>2, <1>10, Zenon DEF StalePacketAt, StreamOK
    <2>2. PICK b2 \in BOOLEAN, c2 \in BOOLEAN, d2 \in BOOLEAN :
            BreaksTo(N, FALSE, c, d, b2, c2, d2)
      <3>1. CanBreak(N, FALSE, c, d)
        BY <1>5, <2>1, Zenon
      <3> QED
        BY <3>1, Zenon DEF CanBreak
    <2>3. b2 = FALSE
      <3>1. N # Len(sent)
        BY <1>3, <2>1
      <3> QED
        BY <2>2, <3>1, Zenon DEF BreaksTo
    <2>4. Incoming' = Stream(sent', 0, FALSE, c2, d2)
      <3>1. Incoming' = Stream(sent, N, FALSE, c, d) \o <<Break>>
        BY <1>1, <1>2, <1>4, <2>1, <2>2, WritingBehind, Zenon DEF BreaksTo
      <3> QED
        BY <1>2, <2>1, <2>2, <2>3, <3>1, Zenon DEF BreaksTo
    <2>5. StreamOK(0, FALSE, c2, d2)'
      BY <1>2, <1>6, <2>1, <2>2, <2>3, Zenon DEF StreamOK, BreaksTo
    <2>6. StalePacketAt(c2, d2)'
      BY <1>2, <1>10, <2>4, <2>5, Zenon DEF StalePacketAt
    <2> QED
      BY <2>6, LineThen, Zenon
  <1>11. CASE PlusAt(b, c, d)
    <2> DEFINE T == Stream(sent, N, FALSE, c, d)
               P == Br(b)
               H == <<Plus>>
    <2>0. Incoming = P \o (H \o T)
      BY <1>11, Zenon DEF PlusAt
    <2>1. /\ N = replies /\ ~LastBreak(sent, N, FALSE, c, d)
          /\ BreaksLeft(Count(b) + Breaks(sent, N, FALSE, c, d))
      BY <1>2, <1>11, Zenon DEF PlusAt
    <2>2. PICK b2 \in BOOLEAN, c2 \in BOOLEAN, d2 \in BOOLEAN :
            BreaksTo(N, FALSE, c, d, b2, c2, d2)
      <3>1. CanBreak(N, FALSE, c, d)
        BY <1>5, <2>1, Zenon
      <3> QED
        BY <3>1, Zenon DEF CanBreak
    <2>3. b2 = FALSE
      <3>1. N # Len(sent)
        BY <1>3, <2>1
      <3> QED
        BY <2>2, <3>1, Zenon DEF BreaksTo
    <2>4. T \in Seq(Chars) /\ P \in Seq(Chars) /\ H \in Seq(Chars)
      <3>1. P \in Seq(Chars) /\ H \in Seq(Chars)
        BY BrType, CharsType
      <3> QED
        BY <2>2, <3>1, Zenon DEF BreaksTo
    <2>5. Incoming' = P \o (H \o Stream(sent', N', FALSE, c2, d2))
      <3>1. T \o <<Break>> = Stream(sent', N', FALSE, c2, d2)
        BY <1>2, <2>2, <2>3, Zenon DEF BreaksTo
      <3> HIDE DEF T, P, H
      <3>2. Incoming' = P \o (H \o (T \o <<Break>>))
        BY <1>1, <1>2, <1>4, <2>0, <2>4, WritingBehind, Zenon
      <3> QED
        BY <3>1, <3>2, Zenon
    <2>6. BreaksLeft(Count(b) + Breaks(sent, N, FALSE, c2, d2))'
      <3>1. PICK m \in Nat : /\ Breaks(sent, N, FALSE, c, d) = m
                             /\ Breaks(sent, N, FALSE, c2, d2) = m + 1
        BY <2>2, <2>3, Zenon DEF BreaksTo
      <3>2. Count(b) \in Nat
        BY BrType
      <3>3. Count(b) + m \in Nat /\ Count(b) + (m + 1) = (Count(b) + m) + 1
        BY <3>1, <3>2
      <3>4. BreaksLeft(Count(b) + m)
        BY <2>1, <3>1, Zenon
      <3>5. BreaksLeft((Count(b) + m) + 1)'
        BY <1>6, <3>3, <3>4, Zenon
      <3> QED
        BY <1>2, <3>1, <3>3, <3>5, Zenon DEF BreaksLeft
    <2>7. PlusAt(b, c2, d2)'
      BY <1>2, <1>11, <2>5, <2>6, Zenon DEF PlusAt, Acking
    <2> QED
      BY <2>7, LineThen, Zenon
  <1>12. CASE BodyAt(b, c, d)
    <2> DEFINE T == Stream(sent, N + 1, b, c, d)
               P == SubSeq(Current, Len(newPkt) + 1, Len(Current))
               H == <<Hash, Digit(Sum(Current))>>
    <2>1. N < Len(sent) /\ Incoming = P \o (H \o T) /\ StreamOK(N + 1, b, c, d)
          /\ ~LastBreak(sent, N + 1, b, c, d)
      BY <1>2, <1>12, Zenon DEF BodyAt, StreamOK
    <2>2. PICK b2 \in BOOLEAN, c2 \in BOOLEAN, d2 \in BOOLEAN :
            BreaksTo(N + 1, b, c, d, b2, c2, d2)
      <3>1. CanBreak(N + 1, b, c, d)
        BY <1>5, <2>1, Zenon
      <3> QED
        BY <3>1, Zenon DEF CanBreak
    <2>3. P \in Seq(Chars) /\ H \in Seq(Chars)
      <3>1. Current \in Seq(Chars) /\ H \in Seq(Chars)
        BY <1>1, <2>1, StreamThen
      <3>2. Len(newPkt) \in Nat
        BY DEF TypeOK
      <3> QED
        BY <3>1, <3>2
    <2>4. Incoming' = P \o (H \o Stream(sent', N + 1, b2, c2, d2))
      <3>1. T \in Seq(Chars) /\ T \o <<Break>> = Stream(sent', N + 1, b2, c2, d2)
        BY <1>2, <2>2, Zenon DEF BreaksTo
      <3> HIDE DEF T, P, H
      <3>2. Incoming' = P \o (H \o (T \o <<Break>>))
        BY <1>1, <1>2, <1>4, <2>1, <2>3, <3>1, WritingBehind, Zenon
      <3> QED
        BY <3>1, <3>2, Zenon
    <2>5. StreamOK(N + 1, b2, c2, d2)'
      BY <1>2, <1>6, <2>1, <2>2, Zenon DEF StreamOK, BreaksTo
    <2>6. BodyAt(b2, c2, d2)'
      BY <1>2, <1>12, <2>1, <2>4, <2>5, Zenon DEF BodyAt
    <2> QED
      BY <2>6, LineThen, Zenon
  <1>13. CASE SumAt(b, c, d)
    <2> DEFINE T == Stream(sent, N + 1, b, c, d)
               H == <<Digit(Sum(Current))>>
    <2>1. N < Len(sent) /\ Incoming = H \o T /\ StreamOK(N + 1, b, c, d)
          /\ ~LastBreak(sent, N + 1, b, c, d)
      BY <1>2, <1>13, Zenon DEF SumAt, StreamOK
    <2>2. PICK b2 \in BOOLEAN, c2 \in BOOLEAN, d2 \in BOOLEAN :
            BreaksTo(N + 1, b, c, d, b2, c2, d2)
      <3>1. CanBreak(N + 1, b, c, d)
        BY <1>5, <2>1, Zenon
      <3> QED
        BY <3>1, Zenon DEF CanBreak
    <2>3. H \in Seq(Chars)
      BY <1>1, <2>1, StreamThen
    <2>4. Incoming' = H \o Stream(sent', N + 1, b2, c2, d2)
      <3>1. T \in Seq(Chars) /\ T \o <<Break>> = Stream(sent', N + 1, b2, c2, d2)
        BY <1>2, <2>2, Zenon DEF BreaksTo
      <3> HIDE DEF T, H
      <3>2. Incoming' = H \o (T \o <<Break>>)
        BY <1>1, <1>2, <1>4, <2>1, <2>3, <3>1, WritingBehind, Zenon
      <3> QED
        BY <3>1, <3>2, Zenon
    <2>5. StreamOK(N + 1, b2, c2, d2)'
      BY <1>2, <1>6, <2>1, <2>2, Zenon DEF StreamOK, BreaksTo
    <2>6. SumAt(b2, c2, d2)'
      BY <1>2, <1>13, <2>1, <2>4, <2>5, Zenon DEF SumAt
    <2> QED
      BY <2>6, LineThen, Zenon
  <1>14. CASE pc = "closed"
    BY <1>2, <1>14 DEF LineInv
  <1> QED
    BY <1>7, <1>8, <1>9, <1>10, <1>11, <1>12, <1>13, <1>14, Zenon

LEMMA BreakKeeps ==
  ASSUME BaseInv, Protocol, ClientBreak
  PROVE  Protocol'
  <1>1. CountInv /\ ModeInv /\ OutInv /\ pc # "assert"
    BY DEF Protocol
  <1>2. /\ N' = N /\ sent' = sent /\ replies' = replies /\ delivered' = delivered
        /\ Request' = Request /\ client' = client /\ mNoAckMode' = mNoAckMode
        /\ clientNoAck' = clientNoAck /\ peerGone' = peerGone /\ out' = out
        /\ pc' = pc /\ client = "waiting"
    BY DEF ClientBreak, serverVars, getVars, N, Request
  <1>3. CountInv'
    BY <1>1, <1>2 DEF CountInv, Handling, Getting
  <1>4. ModeInv'
    BY <1>1, <1>2, Zenon DEF ModeInv, Acking
  <1>5. OutInv'
    BY <1>1, <1>2, Zenon DEF OutInv, Underway, Handling, ReplyTo
  <1>6. LineInv'
    BY BreakKeepsLine
  <1> QED
    BY <1>1, <1>2, <1>3, <1>4, <1>5, <1>6 DEF Protocol

-----------------------------------------------------------------------------
\* The invariant, and what follows from it

\* Only a new session makes a line that was spoiled good again.
LEMMA NoiseStays ==
  ASSUME BaseInv, [Next]_vars, noise' = 0
  PROVE  RspConnect \/ noise = 0
  <1>1. noise \in Nat
    BY DEF BaseInv, TypeOK
  <1>2. CASE UNCHANGED vars
    BY <1>2 DEF vars, lineVars
  <1>3. CASE Server
    BY <1>3 DEF Server, ServerThread, GetStart, GetBody, GetSum, GetFails, Handle, PollBreak, TargetStops,
                PutPkt, GetAck, AckFails, lineVars
  <1>4. CASE ClientSend
    BY <1>1, <1>4 DEF ClientSend, Transmit
  <1>5. CASE ClientAcked
    BY <1>1, <1>5 DEF ClientAcked, Transmit
  <1>6. CASE ClientReply \/ ClientBreak \/ ClientGone
    BY <1>1, <1>6 DEF ClientReply, ClientBreak, ClientGone
  <1> QED
    BY <1>2, <1>3, <1>4, <1>5, <1>6 DEF Next, Client, Terminated

LEMMA ServerKeeps ==
  ASSUME PacketsFit, BaseInv, Protocol, Server
  PROVE  Protocol'
  BY StartKeeps, BodyKeeps, SumKeeps, FailsKeeps, HandleKeeps, PollKeeps, StopsKeeps,
     PutKeeps, AckKeeps, AckFailsKeeps DEF Server, ServerThread

LEMMA ClientKeeps ==
  ASSUME BaseInv, Protocol, Client, noise' = 0
  PROVE  Protocol'
  BY SendKeeps, AckedKeeps, ReplyKeeps, BreakKeeps, GoneKeeps DEF Client

LEMMA StutterKeeps ==
  ASSUME Protocol, UNCHANGED vars
  PROVE  Protocol'
  <1> USE DEF vars, getVars, lineVars
  <1>1. /\ N' = N /\ Incoming' = Incoming /\ Current' = Current /\ Request' = Request
        /\ Handling' = Handling /\ Acking' = Acking /\ Getting' = Getting
        /\ Underway' = Underway
    BY Zenon DEF N, Incoming, Current, Request, Handling, Acking, Getting, Underway
  <1>2. CountInv' /\ ModeInv' /\ pc' # "assert"
    BY <1>1, Zenon DEF Protocol, CountInv, ModeInv
  <1>3. OutInv'
    BY <1>1, Zenon DEF Protocol, OutInv, ReplyTo
  <1>4. LineInv'
    <2>1. CASE pc = "closed"
      BY <2>1 DEF LineInv
    <2>2. CASE pc # "closed"
      <3>1. PICK b \in BOOLEAN, c \in BOOLEAN, d \in BOOLEAN :
              PlainAt(b, c, d) \/ StaleAt(c, d) \/ StalePacketAt(c, d)
              \/ PlusAt(b, c, d) \/ BodyAt(b, c, d) \/ SumAt(b, c, d)
        BY <2>2 DEF Protocol, LineInv
      <3>2. /\ PlainAt(b, c, d) => PlainAt(b, c, d)'
            /\ StaleAt(c, d) => StaleAt(c, d)'
            /\ StalePacketAt(c, d) => StalePacketAt(c, d)'
            /\ PlusAt(b, c, d) => PlusAt(b, c, d)'
            /\ BodyAt(b, c, d) => BodyAt(b, c, d)'
            /\ SumAt(b, c, d) => SumAt(b, c, d)'
        BY <1>1, Zenon DEF PlainAt, StaleAt, StalePacketAt, PlusAt, BodyAt, SumAt, StreamOK,
                           BreaksLeft
      <3> QED
        BY <3>1, <3>2, LineThen, Zenon
    <2> QED
      BY <2>1, <2>2
  <1> QED
    BY <1>2, <1>3, <1>4 DEF Protocol

LEMMA InvInit == Init => IInv
  <1> SUFFICES ASSUME Init PROVE IInv
    OBVIOUS
  <1>1. Fresh
    BY DEF Init, Fresh
  <1> QED
    BY <1>1, BaseInit, FreshProtocol DEF IInv

LEMMA InvStep ==
  ASSUME PacketsFit, IInv, [Next]_vars
  PROVE  IInv'
  <1>1. BaseInv /\ BaseInv'
    BY BaseStep DEF IInv
  <1> SUFFICES ASSUME noise' = 0 PROVE Protocol'
    BY <1>1 DEF IInv
  <1>2. CASE RspConnect
    BY <1>1, <1>2, ConnectKeeps
  <1>3. CASE noise = 0
    <2>1. Protocol
      BY <1>3 DEF IInv
    <2> QED
      BY <1>1, <1>2, <2>1, ServerKeeps, ClientKeeps, StutterKeeps DEF Next, Terminated
  <1> QED
    BY <1>1, <1>2, <1>3, NoiseStays

LEMMA Invariant == PacketsFit => (Spec => []IInv)
  <1> SUFFICES ASSUME PacketsFit PROVE Spec => []IInv
    OBVIOUS
  <1>1. IInv /\ [Next]_vars => IInv'
    BY InvStep
  <1> QED
    BY InvInit, <1>1, PTL DEF Spec

\* The asserts of getPkt and putPkt, on the digits of a checksum and on a
\* second break in place of an acknowledgement, hold until the line spoils
\* something, for any packets that fit into the buffer.
THEOREM AssertsKept == PacketsFit => (Spec => []AssertsHold)
  <1>1. IInv => AssertsHold
    BY DEF IInv, BaseInv, TypeOK, Protocol, AssertsHold
  <1> QED
    BY <1>1, Invariant, PTL

\* While the line spoils nothing, a client that waits for nothing has had a
\* reply to each packet that getPkt has returned, and to no other.
THEOREM EachAnswered == PacketsFit => (Spec => [](noise = 0 => AnsweredOnce))
  <1>1. IInv => (noise = 0 => AnsweredOnce)
    <2> SUFFICES ASSUME IInv, noise = 0, client = "idle" PROVE replies = Len(delivered)
      BY DEF AnsweredOnce
    <2>1. TypeOK /\ CountInv
      BY DEF IInv, BaseInv, Protocol
    <2>2. Len(sent) = replies
      BY <2>1 DEF CountInv
    <2> QED
      BY <2>1, <2>2, Numbers DEF N
  <1> QED
    BY <1>1, Invariant, PTL

\* The breaks that were taken or are remembered have been sent.
BreaksInv == noise = 0 => BreaksLeft(0)

LEMMA BreaksSent == BaseInv /\ Protocol /\ pc # "closed" => BreaksLeft(0)
  <1> SUFFICES ASSUME BaseInv, Protocol, pc # "closed" PROVE BreaksLeft(0)
    OBVIOUS
  <1>1. PICK b \in BOOLEAN, c \in BOOLEAN, d \in BOOLEAN :
          PlainAt(b, c, d) \/ StaleAt(c, d) \/ StalePacketAt(c, d)
          \/ PlusAt(b, c, d) \/ BodyAt(b, c, d) \/ SumAt(b, c, d)
    BY DEF Protocol, LineInv
  <1>2. TypeOK /\ CountInv
    BY DEF BaseInv, Protocol
  <1>3. \A n \in Nat : BreaksLeft(n) => BreaksLeft(0)
    <2>1. /\ breaksTaken \in Nat /\ breaksSent \in Nat /\ Count(mHavePendingBreak) \in Nat
          /\ Count(leftOver) \in Nat
      BY <1>2 DEF TypeOK, Count
    <2> QED
      BY <2>1 DEF BreaksLeft
  <1>4. /\ Breaks(sent, N, b, c, d) \in Nat /\ Breaks(sent, N, FALSE, c, d) \in Nat
        /\ Count(b) \in Nat
    BY <1>2, StreamNow, BrType
  <1>5. N < Len(sent) => Breaks(sent, N + 1, b, c, d) \in Nat
    BY <1>2, StreamThen
  <1>6. PlainAt(b, c, d) => BreaksLeft(0)
    BY <1>3, <1>4, Zenon DEF PlainAt, StreamOK
  <1>7. StaleAt(c, d) \/ StalePacketAt(c, d) => BreaksLeft(0)
    BY <1>3, <1>4, Zenon DEF StaleAt, StalePacketAt, StreamOK
  <1>8. PlusAt(b, c, d) => BreaksLeft(0)
    <2>1. \A m, n \in Nat : m + n \in Nat
      OBVIOUS
    <2>2. Count(b) + Breaks(sent, N, FALSE, c, d) \in Nat
      BY <1>4, <2>1, Zenon
    <2> QED
      BY <1>3, <2>2, Zenon DEF PlusAt
  <1>9. BodyAt(b, c, d) \/ SumAt(b, c, d) => BreaksLeft(0)
    BY <1>3, <1>5, Zenon DEF BodyAt, SumAt, StreamOK
  <1> QED
    BY <1>1, <1>6, <1>7, <1>8, <1>9, Zenon

\* At the end of a session no break is taken.
LEMMA ClosingBreaks ==
  ASSUME BaseInv, [Next]_vars, ~RspConnect, pc' = "closed", BreaksLeft(0)
  PROVE  BreaksLeft(0)'
  <1>1. /\ breaksTaken' = breaksTaken /\ leftOver' = leftOver
        /\ mHavePendingBreak' = mHavePendingBreak
        /\ breaksSent' = breaksSent \/ breaksSent' = breaksSent + 1
    <2>1. CASE UNCHANGED vars
      BY <2>1 DEF vars, lineVars
    <2>2. CASE GetStart \/ GetBody \/ GetSum \/ GetFails \/ TargetStops \/ PutPkt \/ Handle
               \/ AckFails
      BY <2>2 DEF GetStart, GetBody, GetSum, GetFails, Handle, TargetStops, PutPkt, AckFails,
                  lineVars
    <2>3. CASE PollBreak
      BY <2>3 DEF PollBreak
    <2>4. CASE GetAck
      <3>1. mHavePendingBreak \in BOOLEAN
        BY DEF BaseInv, TypeOK
      <3>2. mHavePendingBreak' = (mHavePendingBreak \/ pc' = "ack2")
        BY <2>4 DEF GetAck
      <3>3. pc' # "ack2"
        OBVIOUS
      <3>4. mHavePendingBreak' = mHavePendingBreak
        BY <3>1, <3>2, <3>3, Zenon
      <3> QED
        BY <2>4, <3>4 DEF GetAck, lineVars
    <2>5. CASE Client
      BY <2>5 DEF Client, ClientSend, ClientAcked, ClientReply, ClientBreak, ClientGone,
                  serverVars
    <2> QED
      BY <2>1, <2>2, <2>3, <2>4, <2>5 DEF Next, Server, ServerThread, Terminated
  <1>2. /\ breaksTaken \in Nat /\ breaksSent \in Nat /\ Count(mHavePendingBreak) \in Nat
        /\ Count(leftOver) \in Nat
    BY DEF BaseInv, TypeOK, Count
  <1>3. /\ Count(mHavePendingBreak') = Count(mHavePendingBreak)
        /\ Count(leftOver') = Count(leftOver)
    BY <1>1
  <1> QED
    BY <1>1, <1>2, <1>3 DEF BreaksLeft

\* While the line spoils nothing, every break that haveBreak has reported or
\* putPkt has put aside was sent by the client of this session, or is the one
\* that the session before has left behind; a packet may hold the break
\* character anywhere and haveBreak may look into it.
THEOREM NoBreakMadeUp == PacketsFit => (Spec => [](noise = 0 => BreaksAreReal))
  <1> SUFFICES ASSUME PacketsFit PROVE Spec => [](noise = 0 => BreaksAreReal)
    OBVIOUS
  <1>1. Init => BreaksInv
    BY DEF Init, BreaksInv, BreaksLeft, Count
  <1>2. ASSUME IInv, IInv', BreaksInv, [Next]_vars PROVE BreaksInv'
    <2> SUFFICES ASSUME noise' = 0 PROVE BreaksLeft(0)'
      BY DEF BreaksInv
    <2>1. CASE pc' # "closed"
      <3>1. BaseInv' /\ Protocol'
        BY <1>2 DEF IInv
      <3>2. (BaseInv /\ Protocol /\ pc # "closed" => BreaksLeft(0))'
        BY BreaksSent, PTL
      <3> QED
        BY <2>1, <3>1, <3>2
    <2>2. CASE pc' = "closed"
      <3>1. ~RspConnect
        BY <2>2 DEF RspConnect
      <3>2. BaseInv
        BY <1>2 DEF IInv
      <3>3. BreaksLeft(0)
        BY <1>2, <3>1, <3>2, NoiseStays DEF BreaksInv
      <3> QED
        BY <1>2, <2>2, <3>1, <3>2, <3>3, ClosingBreaks
    <2> QED
      BY <2>1, <2>2
  <1>3. IInv /\ BreaksInv => (noise = 0 => BreaksAreReal)
    <2> SUFFICES ASSUME IInv, BreaksLeft(0) PROVE BreaksAreReal
      BY DEF BreaksInv
    <2>1. /\ breaksTaken \in Nat /\ breaksSent \in Nat
          /\ Count(mHavePendingBreak) \in Nat /\ Count(leftOver) \in Nat
      BY DEF IInv, BaseInv, TypeOK, Count
    <2>2. breaksTaken + Count(mHavePendingBreak) <= breaksSent + Count(leftOver)
      BY <2>1 DEF BreaksLeft
    <2> QED
      BY <2>2, Zenon DEF BreaksAreReal, Count
  <1> QED
    BY <1>1, <1>2, <1>3, Invariant, PTL DEF Spec

\* What the client does never takes a character off the line.
LEMMA ClientWrites ==
  ASSUME BaseInv, Client
  PROVE  Len(in') >= Len(in) /\ mHavePendingBreak' = mHavePendingBreak
  <1>1. mHavePendingBreak' = mHavePendingBreak
    BY DEF Client, ClientSend, ClientAcked, ClientReply, ClientBreak, ClientGone, serverVars
  <1>2. in \in Seq(Chars) /\ Plus \in Chars /\ Minus \in Chars /\ Break \in Chars
    BY CharsType DEF BaseInv, TypeOK
  <1>3. ASSUME NEW b \in Bodies, Transmit(b) PROVE Len(in') >= Len(in)
    <2>1. Wire(b) \in Seq(Chars)
      BY WireShape
    <2>2. PICK x \in Seq(Chars) : in' = in \o x
      <3>1. CASE in' = in \o Wire(b)
        BY <2>1, <3>1
      <3>2. CASE in' # in \o Wire(b)
        <4>1. PICK k \in 1 .. Len(Wire(b)), ch \in Spoiled :
                in' = in \o [Wire(b) EXCEPT ![k] = ch]
          BY <1>3, <3>2 DEF Transmit
        <4>2. ch \in Chars
          BY ConnectionAssumption
        <4>3. [Wire(b) EXCEPT ![k] = ch] \in Seq(Chars)
          BY <2>1, <4>2
        <4> QED
          BY <4>1, <4>3
      <3> QED
        BY <3>1, <3>2
    <2>3. Len(in \o x) = Len(in) + Len(x) /\ Len(x) \in Nat /\ Len(in) \in Nat
      BY <1>2, Joined
    <2> QED
      BY <2>2, <2>3
  <1>4. /\ Len(in) \in Nat /\ Len(Append(in, Plus)) = Len(in) + 1
        /\ Len(Append(in, Minus)) = Len(in) + 1 /\ Len(Append(in, Break)) = Len(in) + 1
    BY <1>2
  <1>5. CASE in' \in {in, Append(in, Plus), Append(in, Minus), Append(in, Break)}
    BY <1>1, <1>4, <1>5
  <1>6. CASE ClientSend
    BY <1>1, <1>3, <1>6 DEF ClientSend
  <1>7. CASE ClientAcked
    <2>1. CASE in' = in
      BY <1>1, <1>5, <2>1
    <2>2. CASE in' # in
      <3>1. out # <<>> /\ Transmit(sent[Len(sent)])
        BY <1>7, <2>2 DEF ClientAcked
      <3>2. sent[Len(sent)] \in Bodies
        <4>1. sent # <<>> /\ sent \in Seq(Bodies)
          BY <3>1 DEF BaseInv, TypeOK, NothingSentYet
        <4> QED
          BY <4>1
      <3> QED
        BY <1>1, <1>3, <3>1, <3>2
    <2> QED
      BY <2>1, <2>2
  <1>8. CASE ClientReply \/ ClientBreak \/ ClientGone
    <2>1. in' \in {in, Append(in, Plus), Append(in, Minus), Append(in, Break)}
      BY <1>8 DEF ClientReply, ClientBreak, ClientGone
    <2> QED
      BY <1>1, <1>5, <2>1
  <1> QED
    BY <1>6, <1>7, <1>8 DEF Client

\* With acknowledgements there is no break in front of the next packet.
LEMMA NoBreakAtStart ==
  ASSUME BaseInv, Protocol, pc = "start", ~mNoAckMode, ~peerGone, Incoming # <<>>
  PROVE  Head(Incoming) # Break
  <1>1. TypeOK /\ CountInv /\ ModeInv /\ MembersKept
    BY DEF BaseInv, Protocol
  <1>2. PICK b \in BOOLEAN, c \in BOOLEAN, d \in BOOLEAN : PlainAt(b, c, d) \/ StaleAt(c, d)
    BY <1>1 DEF Protocol, LineInv, StalePacketAt, PlusAt, Acking, BodyAt, SumAt, ModeInv
  <1>3. CASE PlainAt(b, c, d)
    <2>1. Incoming = Stream(sent, N, FALSE, c, d)
      <3>1. b = FALSE
        BY <1>3, Zenon DEF PlainAt
      <3> QED
        BY <1>3, <3>1, Zenon DEF PlainAt
    <2>2. N # Len(sent)
      <3>1. Br(FALSE) = <<>>
        BY DEF Br
      <3>2. N = Len(sent) => Stream(sent, N, FALSE, c, d) = Br(FALSE)
        BY <1>1, NoPacket, Zenon
      <3> QED
        BY <2>1, <3>1, <3>2, Zenon
    <2>3. /\ N < Len(sent) /\ N \in 0 .. Len(sent) /\ Len(sent) <= N + 2
          /\ sent \in Seq(Bodies)
      BY <1>1, <2>2, Numbers
    <2> DEFINE T == Stream(sent, N + 1, c, d, FALSE)
               H == <<Hash, Digit(Sum(Current))>>
    <2>4. Incoming = <<Dollar>> \o (Current \o (H \o T))
      BY <2>1, <2>3, StreamPacket, Zenon DEF Current
    <2>5. T \in Seq(Chars) /\ H \in Seq(Chars) /\ Current \in Seq(Chars)
      BY <1>1, <2>3, StreamThen
    <2> HIDE DEF T, H
    <2>6. Current \o (H \o T) \in Seq(Chars)
      BY <2>5, Joined
    <2>7. Head(Incoming) = Dollar
      BY <2>4, <2>6, ReadOne, CharsType
    <2> QED
      BY <2>7 DEF Dollar, Break
  <1>4. CASE StaleAt(c, d)
    <2>1. mGetCharBuf \in Chars /\ in \in Seq(Chars) /\ mGetCharBuf # Break
          /\ Incoming = <<mGetCharBuf>> \o in
      BY <1>1, <1>4 DEF StaleAt, TypeOK, MembersKept, Incoming
    <2> QED
      BY <2>1, ReadOne
  <1> QED
    BY <1>2, <1>3, <1>4

\* Wherever a break is read in place of an acknowledgement or in front of a
\* packet, while the client that acknowledges is there and the line has
\* spoiled nothing, putPkt remembers it.
LEMMA BreakKept ==
  ASSUME IInv, noise = 0, [Next]_vars
  PROVE  BreakRemembered
  <1>1. BaseInv /\ Protocol /\ TypeOK
    BY DEF IInv, BaseInv
  <1> SUFFICES ASSUME ~mNoAckMode, ~peerGone, pc \in {"start", "ack", "ack2"},
                      Incoming # <<>>, Head(Incoming) = Break, in' = Tail(Incoming)
               PROVE  mHavePendingBreak'
    BY DEF BreakRemembered
  <1>2. pc \in {"ack", "ack2"}
    BY <1>1, NoBreakAtStart
  <1>3. in \in Seq(Chars) /\ in # <<>> /\ Head(in) = Break /\ in' = Tail(in)
    <2>1. in \in Seq(Chars) /\ mGetCharBuf # Break /\ mGetCharBuf \in Chars \cup {NoChar}
      BY <1>1 DEF BaseInv, TypeOK, MembersKept
    <2>2. mGetCharBuf = NoChar
      <3> SUFFICES ASSUME mGetCharBuf # NoChar PROVE FALSE
        OBVIOUS
      <3>1. Incoming = <<mGetCharBuf>> \o in /\ mGetCharBuf \in Chars
        BY <2>1 DEF Incoming
      <3> QED
        BY <2>1, <3>1, ReadOne
    <2> QED
      BY <2>1, <2>2 DEF Incoming
  <1>4. Len(in') < Len(in) /\ in' # in
    BY <1>3
  <1>5. GetAck
    <2>1. ~Client
      BY <1>1, <1>3, <1>4, ClientWrites
    <2>2. ~UNCHANGED vars /\ ~RspConnect /\ ~Terminated
      BY <1>2, <1>4 DEF vars, RspConnect, Terminated
    <2>3. ~(GetStart \/ GetBody \/ GetSum \/ GetFails \/ TargetStops \/ PutPkt \/ Handle
            \/ PollBreak)
      BY <1>2 DEF GetStart, GetBody, GetSum, GetFails, Handle, TargetStops, PutPkt, PollBreak
    <2>4. ~AckFails
      BY DEF AckFails, EndOfFile
    <2> QED
      BY <2>1, <2>2, <2>3, <2>4 DEF Next, Server, ServerThread
  <1>6. CASE pc = "ack2"
    <2>1. mHavePendingBreak = TRUE
      BY <1>1, <1>6, Zenon DEF BaseInv, MembersKept, TypeOK
    <2> QED
      BY <1>5, <2>1 DEF GetAck
  <1>7. CASE pc = "ack"
    <2>1. pc' = "ack2"
      BY <1>5, <1>7 DEF GetAck, getRspChar, AfterAck, Break, Plus
    <2> QED
      BY <1>5, <2>1 DEF GetAck
  <1> QED
    BY <1>2, <1>6, <1>7

NoiseInv == noise \in Nat /\ noise <= MaxNoise

LEMMA NoiseBound == Spec => []NoiseInv
  <1>1. Init => NoiseInv
    BY ConnectionAssumption DEF Init, NoiseInv
  <1>2. NoiseInv /\ [Next]_vars => NoiseInv'
    <2> SUFFICES ASSUME NoiseInv, [Next]_vars PROVE NoiseInv'
      OBVIOUS
    <2>1. noise \in Nat /\ noise <= MaxNoise /\ MaxNoise \in Nat
      BY ConnectionAssumption DEF NoiseInv
    <2>2. noise' = noise \/ noise' = 0 \/ (noise < MaxNoise /\ noise' = noise + 1)
      <3>1. CASE UNCHANGED vars
        BY <3>1 DEF vars, lineVars
      <3>2. CASE Server
        BY <3>2 DEF Server, ServerThread, GetStart, GetBody, GetSum, GetFails, Handle, PollBreak,
                    TargetStops, PutPkt, GetAck, AckFails, lineVars
      <3>3. CASE Client
        BY <3>3 DEF Client, ClientSend, ClientAcked, ClientReply, ClientBreak, ClientGone,
                    Transmit
      <3>4. CASE RspConnect
        BY <3>4 DEF RspConnect
      <3> QED
        BY <3>1, <3>2, <3>3, <3>4 DEF Next, Terminated
    <2> QED
      BY <2>1, <2>2 DEF NoiseInv
  <1> QED
    BY <1>1, <1>2, PTL DEF Spec

\* On a line that spoils nothing, and as long as both sides acknowledge, no
\* break of a client that is there is dropped: getPkt never meets one outside
\* a packet and putPkt remembers the one it meets.
THEOREM BreaksRemembered == PacketsFit /\ MaxNoise = 0 => (Spec => BreakNotDropped)
  <1> SUFFICES ASSUME PacketsFit, MaxNoise = 0 PROVE Spec => BreakNotDropped
    OBVIOUS
  <1>1. NoiseInv => noise = 0
    BY DEF NoiseInv
  <1>2. IInv /\ noise = 0 /\ [Next]_vars => BreakRemembered
    BY BreakKept
  <1> QED
    BY <1>1, <1>2, Invariant, NoiseBound, PTL DEF Spec, BreakNotDropped

\* Each step is one of Link, or changes nothing that Link knows of.
LEMMA LinkServer ==
  ASSUME BaseInv, Protocol, noise = 0, Server
  PROVE  L!Next \/ UNCHANGED L!vars
  <1>1. sent' = sent /\ replies' = replies /\ noise' = noise
    BY DEF Server, ServerThread, GetStart, GetBody, GetSum, GetFails, Handle, PollBreak, TargetStops,
           PutPkt, GetAck, AckFails, lineVars
  <1>2. CASE delivered' = delivered
    BY <1>1, <1>2 DEF L!vars
  <1>3. CASE delivered' # delivered
    <2>1. GetSum
      BY <1>3 DEF Server, ServerThread, GetStart, GetBody, GetFails, Handle, PollBreak, TargetStops,
                  PutPkt, GetAck, AckFails, getVars
    <2>2. N < Len(sent) /\ delivered' = Append(delivered, Current)
      BY <1>3, <2>1, SumKeeps
    <2>3. L!Take
      BY <1>1, <2>2 DEF L!Take, N, Current
    <2> QED
      BY <2>3 DEF L!Next
  <1> QED
    BY <1>2, <1>3

LEMMA LinkClient ==
  ASSUME BaseInv, Protocol, noise = 0, noise' = 0, Client
  PROVE  L!Next \/ UNCHANGED L!vars
  <1>1. delivered' = delivered
    BY DEF Client, ClientSend, ClientAcked, ClientReply, ClientBreak, ClientGone, serverVars,
           getVars
  <1>2. TypeOK /\ CountInv /\ OutInv
    BY DEF BaseInv, Protocol
  <1>3. CASE ClientSend
    <2>1. PICK x \in Bodies : sent' = Append(sent, x)
      BY <1>3 DEF ClientSend
    <2>2. sent \in Seq(Bodies) /\ Len(sent) \in Nat
      BY <1>2 DEF TypeOK
    <2>3. Len(sent') = Len(sent) + 1
      BY <2>1, <2>2, AppendFacts
    <2>4. sent = SubSeq(sent', 1, Len(sent))
      <3>1. SubSeq(Append(sent, x), 1, Len(sent)) = SubSeq(sent, 1, Len(sent))
        BY <2>2, PrefixOfAppend
      <3>2. SubSeq(sent, 1, Len(sent)) = sent
        BY <2>2
      <3> QED
        BY <2>1, <3>1, <3>2
    <2>5. replies' = replies
      BY <1>3 DEF ClientSend
    <2>6. L!Send
      BY <1>1, <2>3, <2>4, <2>5 DEF L!Send
    <2> QED
      BY <2>6 DEF L!Next
  <1>4. CASE ClientAcked \/ ClientBreak \/ ClientGone
    <2>1. sent' = sent /\ replies' = replies
      BY <1>4 DEF ClientAcked, ClientBreak, ClientGone
    <2> QED
      BY <1>1, <2>1 DEF L!vars
  <1>5. CASE ClientReply
    <2>1. /\ ~peerGone /\ out # <<>> /\ Head(out) # "+" /\ sent' = sent
          /\ replies' = replies + 1
      BY <1>5 DEF ClientReply
    <2>2. Underway >= 1
      BY <1>2, <2>1, ClientReads, Zenon
    <2>3. replies < Len(delivered)
      BY <1>2, <2>2, Numbers DEF Underway, N
    <2>4. L!Answer
      BY <1>1, <2>1, <2>3 DEF L!Answer
    <2> QED
      BY <2>4 DEF L!Next
  <1> QED
    BY <1>3, <1>4, <1>5 DEF Client

\* getPkt, putPkt and haveBreak keep the promise of Link in every session:
\* the packets of the client are returned in order and once each, and each is
\* answered once, whatever breaks, acknowledgements and packets sent ahead are
\* on the line, for any packets that fit into the buffer.
THEOREM LinkImplemented == PacketsFit => (Spec => ImplementsLink)
  <1> SUFFICES ASSUME PacketsFit PROVE Spec => ImplementsLink
    OBVIOUS
  <1>1. Init => L!Init
    BY DEF Init, L!Init
  <1>2. IInv /\ [Next]_vars => [L!Next]_L!vars
    <2> SUFFICES ASSUME IInv, [Next]_vars PROVE L!Next \/ UNCHANGED L!vars
      BY Zenon
    <2>1. BaseInv /\ BaseInv' /\ noise' \in Nat
      BY BaseStep DEF IInv, BaseInv, TypeOK
    <2>2. CASE noise' # 0
      <3>1. L!Spoil
        BY <2>1, <2>2 DEF L!Spoil
      <3> QED
        BY <3>1 DEF L!Next
    <2>3. CASE RspConnect
      <3>1. L!NewSession
        BY <2>3 DEF RspConnect, L!NewSession
      <3> QED
        BY <3>1 DEF L!Next
    <2>4. CASE noise' = 0 /\ ~RspConnect
      <3>1. noise = 0 /\ Protocol
        BY <2>1, <2>4, NoiseStays DEF IInv
      <3>2. CASE UNCHANGED vars
        BY <3>2 DEF vars, getVars, lineVars, L!vars
      <3> QED
        BY <2>1, <2>4, <3>1, <3>2, LinkServer, LinkClient DEF Next, Terminated
    <2> QED
      BY <2>2, <2>3, <2>4
  <1> QED
    BY <1>1, <1>2, Invariant, PTL DEF Spec, ImplementsLink, L!Spec
=============================================================================
