------------------------------ MODULE Connection ------------------------------
(***************************************************************************)
(* The packet layer (lib/server/AbstractConnection.cpp), character by      *)
(* character: getPkt, putPkt and haveBreak on the server's side, and GDB   *)
(* on the other.  GDB sends a packet, waits for its acknowledgement and    *)
(* then for the reply, which it acknowledges in turn; a break is sent only *)
(* while it waits for a reply, once.  After QStartNoAckMode it may send a  *)
(* packet without waiting for the reply to the one before.  The line       *)
(* delivers in order, but may turn a digit into another character.         *)
(*                                                                         *)
(* When the client detaches or is gone the server accepts another one, on  *)
(* a new line; the variables of the client, the line and the history are   *)
(* those of one session, the server's members go on.                       *)
(*                                                                         *)
(* One digit stands for the two of a checksum.  What a handler does        *)
(* between getPkt and putPkt is abstracted to whether it runs the target,  *)
(* in which case it polls haveBreak, but for the packets that end the use  *)
(* of acknowledgements or the session.                                     *)
(***************************************************************************)
EXTENDS Integers, Sequences

CONSTANTS
    MaxPacketSize,   \* RspPacket::bufSize
    CsumMod,         \* number of checksums (256 in the build)
    Bodies,          \* contents of the packets the client sends
    NoAckBody,       \* the one of QStartNoAckMode
    DetachBody,      \* the one of D
    MaxPackets,      \* bound on the packets sent
    Spoiled,         \* characters a digit can be turned into on the line
    MaxNoise         \* bound on the digits and replies the line spoils

\* Characters.  The first ones are special somewhere, Break and Plus are
\* also plain data inside a packet, the others are hex digits.
Plus == 1
Minus == 2
Break == 3
Dollar == 4
Hash == 5
FirstDigit == 8
Digit(n) == FirstDigit + n
Chars == 0 .. FirstDigit + CsumMod - 1

\* Seeded fault: zero is no digit.
IsHex_NotZero(ch) == ch > FirstDigit

\* Utils::isHexStr
IsHex(ch) == ch >= FirstDigit

NoChar == -1

ASSUME ConnectionAssumption ==
    /\ MaxPacketSize \in Nat \ {0}
    /\ CsumMod \in Nat \ {0}
    /\ Bodies \subseteq Seq(Chars \ {Dollar, Hash})
    /\ MaxPackets \in Nat
    /\ Spoiled \subseteq Chars
    /\ MaxNoise \in Nat

VARIABLES
    \* AbstractConnection
    mHavePendingBreak, mNoAckMode, mGetCharBuf,
    \* where the server is, and the local variables of getPkt
    pc, newPkt, checksum,
    \* characters on the way to the server, replies on the way to the client
    in, out,
    \* the client: what it waits for, whether it sent a break meanwhile,
    \* whether it stopped to acknowledge, whether it is gone
    client, broke, clientNoAck, peerGone,
    \* history: packets sent and delivered, replies accepted, breaks sent
    \* and noticed, whether one was left over by the session before, things
    \* spoiled
    sent, delivered, replies, breaksSent, breaksTaken, leftOver, noise

getVars == <<newPkt, checksum, delivered>>
lineVars == <<client, broke, clientNoAck, peerGone, sent, replies, breaksSent,
              leftOver, noise>>
serverVars == <<mHavePendingBreak, mGetCharBuf, pc, getVars, breaksTaken>>
vars == <<mHavePendingBreak, mNoAckMode, mGetCharBuf, pc, getVars, in, out,
          lineVars, breaksTaken>>

Places == {"start", "body", "sum", "serve", "run", "put", "ack", "ack2",
           "closed", "assert"}

\* The values each variable can have; the buffer of getPkt never overflows.
TypeOK ==
    /\ mHavePendingBreak \in BOOLEAN
    /\ mNoAckMode \in BOOLEAN
    /\ mGetCharBuf \in Chars \cup {NoChar}
    /\ pc \in Places
    /\ newPkt \in Seq(Chars) /\ Len(newPkt) <= MaxPacketSize
    /\ checksum \in 0 .. CsumMod - 1
    /\ in \in Seq(Chars)
    /\ out \in Seq({"+", "-", "OK", "reply"})
    /\ client \in {"idle", "acking", "waiting"}
    /\ broke \in BOOLEAN /\ clientNoAck \in BOOLEAN /\ peerGone \in BOOLEAN
    /\ sent \in Seq(Bodies) /\ delivered \in Seq(Seq(Chars))
    /\ replies \in Nat /\ breaksSent \in Nat /\ breaksTaken \in Nat
    /\ leftOver \in BOOLEAN /\ noise \in Nat

Init ==
    /\ mHavePendingBreak = FALSE
    /\ mNoAckMode = FALSE
    /\ mGetCharBuf = NoChar
    /\ pc = "start"
    /\ newPkt = <<>> /\ checksum = 0
    /\ in = <<>> /\ out = <<>>
    /\ client = "idle" /\ broke = FALSE /\ clientNoAck = FALSE
    /\ peerGone = FALSE
    /\ sent = <<>> /\ delivered = <<>>
    /\ replies = 0 /\ breaksSent = 0 /\ breaksTaken = 0
    /\ leftOver = FALSE /\ noise = 0

-----------------------------------------------------------------------------
\* Reading characters

\* What a read gets next: first the character haveBreak has put aside.
Incoming == IF mGetCharBuf = NoChar THEN in ELSE <<mGetCharBuf>> \o in

getRspChar(ch) ==
    /\ Incoming # <<>>
    /\ ch = Head(Incoming)
    /\ in' = Tail(Incoming)
    /\ mGetCharBuf' = NoChar

\* A read of a closed connection gives -1.
EndOfFile == Incoming = <<>> /\ peerGone

\* Seeded fault: haveBreak reads on behind a character it has put aside.
Peeks_Always == ~mHavePendingBreak /\ in # <<>>

\* haveBreak looks at the line only when it remembers nothing.
Peeks == ~mHavePendingBreak /\ mGetCharBuf = NoChar /\ in # <<>>

haveBreak == mHavePendingBreak \/ (Peeks /\ Head(in) = Break)

haveBreakEffect ==
    /\ mHavePendingBreak' = FALSE
    /\ in' = IF Peeks THEN Tail(in) ELSE in
    /\ mGetCharBuf' = IF Peeks /\ Head(in) # Break THEN Head(in) ELSE mGetCharBuf

-----------------------------------------------------------------------------
\* getPkt

\* Seeded fault: one character too many is taken.
HasRoom_TooMuch(p) == Len(p) <= MaxPacketSize

\* RspPacketBuilder::getRemaining
HasRoom(p) == Len(p) < MaxPacketSize

\* Skip to the start of a packet.  The packet being built is not erased.
GetStart ==
    /\ pc = "start"
    /\ \E ch \in Chars :
        /\ getRspChar(ch)
        /\ IF ch = Dollar
           THEN /\ checksum' = 0
                /\ pc' = IF HasRoom(newPkt) THEN "body" ELSE "start"
           ELSE UNCHANGED <<checksum, pc>>
    /\ UNCHANGED <<mHavePendingBreak, mNoAckMode, newPkt, delivered, out,
                   lineVars, breaksTaken>>

\* Seeded fault: the start character is data inside a packet.
Restarts_Never(ch) == FALSE

\* A second start character begins the packet all over again.
Restarts(ch) == ch = Dollar

\* One character of the body; a full buffer ends it without a packet.
GetBody ==
    /\ pc = "body"
    /\ \E ch \in Chars :
        /\ getRspChar(ch)
        /\ \/ Restarts(ch) /\ newPkt' = <<>> /\ checksum' = 0 /\ pc' = "body"
           \/ ch = Hash /\ pc' = "sum" /\ UNCHANGED <<newPkt, checksum>>
           \/ /\ ~Restarts(ch) /\ ch # Hash
              /\ newPkt' = Append(newPkt, ch)
              /\ checksum' = (checksum + ch) % CsumMod
              /\ pc' = IF HasRoom(newPkt') THEN "body" ELSE "start"
    /\ UNCHANGED <<mHavePendingBreak, mNoAckMode, delivered, out, lineVars,
                   breaksTaken>>

\* The packet is handed to the server, whose next getPkt builds a new one.
Return ==
    /\ delivered' = Append(delivered, newPkt)
    /\ newPkt' = <<>>
    /\ pc' = "serve"

\* The checksum: asserted to be hex digits, and ignored if packets are not
\* acknowledged.  A packet that is refused is left in newPkt.  The write of
\* the acknowledgement can fail once the client is gone.
GetSum ==
    /\ pc = "sum"
    /\ \E ch \in Chars :
        /\ getRspChar(ch)
        /\ \/ ~IsHex(ch) /\ pc' = "assert" /\ UNCHANGED <<newPkt, delivered, out>>
           \/ IsHex(ch) /\ mNoAckMode /\ Return /\ UNCHANGED out
           \/ /\ IsHex(ch) /\ ~mNoAckMode /\ ch = Digit(checksum)
              /\ Return
              /\ out' = Append(out, "+")
           \/ /\ IsHex(ch) /\ ~mNoAckMode /\ ch # Digit(checksum)
              /\ out' = Append(out, "-")
              /\ pc' = "start"
              /\ UNCHANGED <<newPkt, delivered>>
           \/ /\ IsHex(ch) /\ ~mNoAckMode /\ peerGone
              /\ pc' = "closed"
              /\ UNCHANGED <<newPkt, delivered, out>>
    /\ UNCHANGED <<mHavePendingBreak, mNoAckMode, checksum, lineVars, breaksTaken>>

\* getPkt fails, and rspClientRequest closes the connection.
GetFails ==
    /\ pc \in {"start", "body", "sum"}
    /\ EndOfFile
    /\ pc' = "closed"
    /\ UNCHANGED <<mHavePendingBreak, mNoAckMode, mGetCharBuf, getVars, in, out,
                   lineVars, breaksTaken>>

-----------------------------------------------------------------------------
\* The handler, and putPkt

\* The packet being handled.
Request == delivered[Len(delivered)]

\* A handler that does not run the target.  The one of QStartNoAckMode
\* gives up acknowledgements before it answers.
Handle ==
    /\ pc = "serve"
    /\ mNoAckMode' = (mNoAckMode \/ Request = NoAckBody)
    /\ pc' = "put"
    /\ UNCHANGED <<mHavePendingBreak, mGetCharBuf, getVars, in, out, lineVars,
                   breaksTaken>>

\* doCoreActions asks for a break before it resumes the target and again
\* and again while it runs.
PollBreak ==
    /\ pc = "run" \/ (pc = "serve" /\ Request \notin {NoAckBody, DetachBody})
    /\ haveBreakEffect
    /\ pc' = IF haveBreak THEN "put" ELSE "run"
    /\ breaksTaken' = IF haveBreak THEN breaksTaken + 1 ELSE breaksTaken
    /\ UNCHANGED <<mNoAckMode, getVars, out, lineVars>>

\* The target stops by itself, or times out.
TargetStops ==
    /\ pc = "run"
    /\ pc' = "put"
    /\ UNCHANGED <<mHavePendingBreak, mNoAckMode, mGetCharBuf, getVars, in, out,
                   lineVars, breaksTaken>>

\* After putPkt: the next getPkt, or rspClose by the handler of D.
Done == IF Request = DetachBody THEN "closed" ELSE "start"

\* After a write that failed: on Windows it has closed the connection,
\* elsewhere the next getPkt finds out.
AfterFailedWrite == {Done, "closed"}

\* putPkt up to the acknowledgement.  If a write fails it gives up; nobody
\* looks at what it returns.
PutPkt ==
    /\ pc = "put"
    /\ \/ /\ out' = Append(out, IF Request = NoAckBody THEN "OK" ELSE "reply")
          /\ pc' = IF mNoAckMode THEN Done ELSE "ack"
       \/ peerGone /\ pc' \in AfterFailedWrite /\ UNCHANGED out
    /\ UNCHANGED <<mHavePendingBreak, mNoAckMode, mGetCharBuf, getVars, in,
                   lineVars, breaksTaken>>

\* Seeded fault: a break is one more character that is no acknowledgement.
AfterAck_NoBreak(ch) == IF ch = Plus THEN Done ELSE "put"

\* Where putPkt goes after a character: anything but '+' sends the packet
\* again, and a break has one more character read.
AfterAck(ch) ==
    IF ch = Plus THEN Done ELSE IF ch = Break THEN "ack2" ELSE "put"

\* Seeded fault: after a break the packet is sent again, acknowledged or not.
AfterBreak_Resends(ch) == IF ch = Break THEN "assert" ELSE "put"

AfterBreak(ch) ==
    IF ch = Break THEN "assert" ELSE IF ch = Plus THEN Done ELSE "put"

GetAck ==
    /\ \E ch \in Chars :
        /\ getRspChar(ch)
        /\ \/ pc = "ack" /\ pc' = AfterAck(ch)
           \/ pc = "ack2" /\ pc' = AfterBreak(ch)
        /\ mHavePendingBreak' = (mHavePendingBreak \/ pc' = "ack2")
    /\ UNCHANGED <<mNoAckMode, getVars, out, lineVars, breaksTaken>>

\* -1 instead of an acknowledgement: putPkt fails, or after a break sends
\* the packet again; the next read finds out.
AckFails ==
    /\ pc \in {"ack", "ack2"}
    /\ EndOfFile
    /\ pc' = IF pc = "ack" THEN Done ELSE "put"
    /\ UNCHANGED <<mHavePendingBreak, mNoAckMode, mGetCharBuf, getVars, in, out,
                   lineVars, breaksTaken>>

-----------------------------------------------------------------------------
\* Another client

\* Seeded fault: the mode of the session before is kept.
AckModeOnConnect_Kept == mNoAckMode

AckModeOnConnect == FALSE

\* rspConnect has accepted a client.  Of what the connection remembers only
\* the use of acknowledgements is reset.
RspConnect ==
    /\ pc = "closed"
    /\ mNoAckMode' = AckModeOnConnect
    /\ pc' = "start"
    /\ newPkt' = <<>> /\ checksum' = 0
    /\ in' = <<>> /\ out' = <<>>
    /\ client' = "idle" /\ broke' = FALSE /\ clientNoAck' = FALSE
    /\ peerGone' = FALSE
    /\ sent' = <<>> /\ delivered' = <<>>
    /\ replies' = 0 /\ breaksSent' = 0 /\ breaksTaken' = 0
    /\ leftOver' = mHavePendingBreak /\ noise' = 0
    /\ UNCHANGED <<mHavePendingBreak, mGetCharBuf>>

-----------------------------------------------------------------------------
\* GDB and the line

Sum(b) ==
    LET s[k \in 0 .. Len(b)] == IF k = 0 THEN 0 ELSE (s[k - 1] + b[k]) % CsumMod
    IN  s[Len(b)]

Wire(b) == <<Dollar>> \o b \o <<Hash, Digit(Sum(b))>>

\* The packet goes out, with at most one digit spoiled, and spoiled so that
\* the checksum tells.
Transmit(b) ==
    \/ in' = in \o Wire(b) /\ UNCHANGED noise
    \/ /\ noise < MaxNoise
       /\ noise' = noise + 1
       /\ \E k \in 1 .. Len(Wire(b)), ch \in Spoiled :
            /\ IsHex(Wire(b)[k])
            /\ ch % CsumMod # Wire(b)[k] % CsumMod
            /\ in' = in \o [Wire(b) EXCEPT ![k] = ch]

ClientSend ==
    /\ ~peerGone
    /\ Len(sent) < MaxPackets
    /\ client = "idle" \/ (clientNoAck /\ Len(sent) < replies + 2)
    /\ client' = IF clientNoAck THEN "waiting" ELSE "acking"
    /\ broke' = FALSE
    /\ \E b \in Bodies :
        /\ b = NoAckBody => ~clientNoAck
        /\ \A k \in DOMAIN sent : sent[k] # DetachBody
        /\ sent' = Append(sent, b)
        /\ Transmit(b)
    /\ UNCHANGED <<serverVars, mNoAckMode, out, clientNoAck, peerGone, replies,
                   breaksSent, leftOver>>

\* '+', or '-' and the packet is sent again.
ClientAcked ==
    /\ ~peerGone
    /\ out # <<>> /\ Head(out) \in {"+", "-"}
    /\ out' = Tail(out)
    /\ \/ /\ Head(out) = "+"
          /\ client' = "waiting"
          /\ UNCHANGED <<in, noise>>
       \/ /\ Head(out) = "-"
          /\ Transmit(sent[Len(sent)])
          /\ UNCHANGED client
    /\ UNCHANGED <<serverVars, mNoAckMode, broke, clientNoAck, peerGone, sent,
                   replies, breaksSent, leftOver>>

\* A reply, which is acknowledged, or refused if it was spoiled.  With the
\* one to QStartNoAckMode acknowledgements end.
ClientReply ==
    /\ ~peerGone
    /\ out # <<>> /\ Head(out) \in {"OK", "reply"}
    /\ out' = Tail(out)
    /\ \/ /\ replies' = replies + 1
          /\ client' = IF client = "waiting" /\ replies' >= Len(sent) THEN "idle" ELSE client
          /\ in' = IF clientNoAck THEN in ELSE Append(in, Plus)
          /\ clientNoAck' = (clientNoAck \/ Head(out) = "OK")
          /\ UNCHANGED noise
       \/ /\ noise < MaxNoise /\ ~clientNoAck
          /\ noise' = noise + 1
          /\ in' = Append(in, Minus)
          /\ UNCHANGED <<client, clientNoAck, replies>>
    /\ UNCHANGED <<serverVars, mNoAckMode, broke, peerGone, sent, breaksSent,
                   leftOver>>

ClientBreak ==
    /\ ~peerGone
    /\ client = "waiting" /\ ~broke
    /\ broke' = TRUE
    /\ in' = Append(in, Break)
    /\ breaksSent' = breaksSent + 1
    /\ UNCHANGED <<serverVars, mNoAckMode, out, client, clientNoAck, peerGone,
                   sent, replies, leftOver, noise>>

ClientGone ==
    /\ ~peerGone
    /\ peerGone' = TRUE
    /\ UNCHANGED <<serverVars, mNoAckMode, in, out, client, broke, clientNoAck,
                   sent, replies, breaksSent, leftOver, noise>>

\* An assert has ended the process.
Terminated == pc = "assert" /\ UNCHANGED vars

-----------------------------------------------------------------------------
ServerThread ==
    \/ GetStart \/ GetBody \/ GetSum \/ GetFails
    \/ Handle \/ PollBreak \/ PutPkt \/ GetAck \/ AckFails

Server == ServerThread \/ TargetStops

Client == ClientSend \/ ClientAcked \/ ClientReply \/ ClientBreak \/ ClientGone

Next == Server \/ RspConnect \/ Client \/ Terminated

\* The server's thread goes on and GDB reads what is sent to it.  Nothing
\* forces the target to stop, or another client to come.
Spec ==
    /\ Init /\ [][Next]_vars
    /\ WF_vars(ServerThread) /\ WF_vars(ClientAcked) /\ WF_vars(ClientReply)

-----------------------------------------------------------------------------
\* Properties

IsPrefixOf(s, t) == Len(s) <= Len(t) /\ s = SubSeq(t, 1, Len(s))

\* The packet layer is an implementation of Link: packets are delivered in
\* order and answered, nothing lost or taken twice, also when the client
\* sends ahead and haveBreak has eaten into the next packet, when a break
\* gets between a reply and its acknowledgement, when acknowledgements end,
\* and when a session ends in the middle of it all.
L == INSTANCE Link WITH taken <- delivered, answers <- replies,
                        spoiled <- noise > 0
ImplementsLink == L!Spec

\* A break that is read outside a packet is remembered.
BreakRemembered ==
    (/\ ~mNoAckMode /\ ~peerGone
     /\ pc \in {"start", "ack", "ack2"}
     /\ Incoming # <<>> /\ Head(Incoming) = Break /\ in' = Tail(Incoming))
        => mHavePendingBreak'

\* With acknowledgements no break of a client that is still there is
\* dropped: wherever one is read outside a packet, be it in the middle of
\* an acknowledgement, it is remembered.
BreakNotDropped == [][BreakRemembered]_vars

\* The server never takes a character for a break that is none, although a
\* packet may contain the break character and haveBreak may look into it:
\* every break was sent in this session, or left over by the one before.
BreaksAreReal ==
    breaksTaken + (IF mHavePendingBreak THEN 1 ELSE 0)
        <= breaksSent + (IF leftOver THEN 1 ELSE 0)

\* A client that waits for nothing has been answered: no packet that was
\* delivered goes without a reply.
AnsweredOnce == client = "idle" => replies = Len(delivered)

\* The asserts in getPkt and putPkt hold as long as the line spoils nothing:
\* a client that sends one break per wait never has two of them read in
\* place of one acknowledgement.
AssertsHold == pc = "assert" => noise > 0

\* A client that acknowledges does not wait for an acknowledgement for
\* ever, as long as the line spoils nothing: no exchange of acknowledge-
\* ments, breaks and repeated replies leaves the server and GDB waiting for
\* each other, also after a session without acknowledgements.
PacketTaken ==
    (client = "acking") ~> (client # "acking" \/ noise > 0 \/ peerGone)

\* "Keep getting packets, until one is found with a valid checksum"
\* (getPkt): a packet that was refused leaves no trace in the next one.
DeliveredAsSent == IsPrefixOf(delivered, sent)

\* "Reset the initial connection state" (rspConnect): a new client's run is
\* interrupted only by a break it sent itself.
OwnBreaksOnly == breaksTaken <= breaksSent
=============================================================================
