---------------------------- MODULE MemoryAccess ----------------------------
(***************************************************************************)
(* The packets that move data: m, M, X, g, G, p and P (GdbServer.cpp), the *)
(* conversions and buffers they use (Utils.cpp, RspPacket.cpp), and the    *)
(* arguments of a system call that names a file.  One step is an exchange: *)
(* the client encodes and sends a packet, the server decodes it, asks the  *)
(* target, encodes the reply, and the client decodes that.                 *)
(*                                                                         *)
(* GDB keeps what it read or wrote until the target runs again.  It reads  *)
(* a region with as many packets as the replies make necessary, and sends  *)
(* no packet that the server's buffer cannot take.  A target may refuse a  *)
(* write, which the server answers OK all the same: lostMem and lostRegs   *)
(* say what the client is wrong about since then.  A hex digit has         *)
(* HexBase values, a byte two digits; the escape flips the upper half of   *)
(* the bytes, which includes all that must be escaped, into the lower.     *)
(***************************************************************************)
EXTENDS Integers, Sequences

CONSTANTS
    HexBase,      \* number of hex digits (16 in the build), even
    RegBytes,     \* ITarget::getRegisterSize ()
    NumRegs,      \* ITarget::getRegisterCount ()
    RegSizes,     \* the sizes readRegister may return for the registers
    FixedRegs,    \* registers that writeRegister does not change
    MemSize,      \* addresses 0 .. MemSize - 1 can be read
    ReadOnly,     \* and, but for these, written
    XAddrMod,     \* number of values of the address of X (uint32_t)
    BufSizes,     \* values of RspPacket::bufSize
    HeaderLen,    \* characters of a packet besides its data
    ByteVals,     \* bytes that are written
    RegVals,      \* register values that are written
    MaxLen,       \* bound on the bytes of a request
    ArgLocs       \* where the target has the arguments of system calls

ByteMod == HexBase * HexBase
Bytes == 0 .. ByteMod - 1

\* What byte n of a word counts for.
Place[n \in 0 .. RegBytes] == IF n = 0 THEN 1 ELSE ByteMod * Place[n - 1]

Words == 0 .. Place[RegBytes] - 1
Addrs == 0 .. MemSize - 1
Regs == 0 .. NumRegs - 1
Writable == Addrs \ ReadOnly
Cells(a, n) == a .. a + n - 1
Unknown == -1
NoRegion == [addr |-> 0, len |-> 0]

\* ITarget::SyscallArgLoc: a register, or the memory it points to.
ArgLocTypes == [type : {"REGISTER", "REGISTER_INDIRECT"}, reg : Regs, offset : Nat]

ASSUME MemoryAssumption ==
    /\ HexBase \in Nat /\ HexBase >= 2 /\ HexBase % 2 = 0
    /\ RegBytes \in Nat \ {0} /\ NumRegs \in Nat \ {0} /\ MemSize \in Nat \ {0}
    /\ RegSizes \subseteq [Regs -> 0 .. RegBytes] /\ FixedRegs \subseteq Regs
    /\ ReadOnly \subseteq Addrs /\ XAddrMod \in Nat \ {0}
    /\ HeaderLen \in Nat /\ HeaderLen >= 2
    /\ BufSizes \subseteq {b \in Nat : b > HeaderLen}
    /\ ByteVals \subseteq Bytes /\ RegVals \subseteq Words
    /\ MaxLen \in Nat
    /\ ArgLocs \subseteq ArgLocTypes

VARIABLES
    bufSize,     \* RspPacket::bufSize
    regSize,     \* what readRegister returns for each register
    ended,       \* an assert has ended the process
    mem, regs,   \* the target
    cmem, cregs, \* what the client knows of them
    lostMem, lostRegs, \* what a write answered OK did not do as asked
    region,      \* what the client wanted to read: first address and length
    left,        \* how much of it it still has to ask for
    gaveUp,      \* whether it got an empty reply
    path,        \* the argument it is the file name of, if the server told it
    reply        \* the digits of the last reply

conf == <<bufSize, regSize, ended>>
targetVars == <<mem, regs>>
memVars == <<mem, cmem, lostMem>>
regVars == <<regs, cregs, lostRegs>>
readVars == <<region, left, gaveUp, path>>
vars == <<conf, memVars, regVars, readVars, reply>>

\* The values each variable can have.
TypeOK ==
    /\ bufSize \in BufSizes /\ regSize \in RegSizes /\ ended \in BOOLEAN
    /\ mem \in [Addrs -> Bytes] /\ regs \in [Regs -> Words]
    /\ cmem \in [Addrs -> Bytes \cup {Unknown}]
    /\ cregs \in [Regs -> Words \cup {Unknown}]
    /\ lostMem \subseteq Addrs /\ lostRegs \subseteq Regs
    /\ region \in [addr : Words \cup Addrs, len : Nat]
    /\ left \in 0 .. region.len
    /\ gaveUp \in BOOLEAN /\ path \subseteq ArgLocs
    /\ reply \in Seq(0 .. HexBase - 1)

Init ==
    /\ bufSize \in BufSizes /\ regSize \in RegSizes /\ ended = FALSE
    /\ mem = [a \in Addrs |-> 0] /\ regs = [r \in Regs |-> 0]
    /\ cmem = [a \in Addrs |-> Unknown] /\ cregs = [r \in Regs |-> Unknown]
    /\ lostMem = {} /\ lostRegs = {}
    /\ region = NoRegion /\ left = 0
    /\ gaveUp = FALSE /\ path = {}
    /\ reply = <<>>

-----------------------------------------------------------------------------
\* Utils

\* Seeded fault: the upper digit is left in with the lower one.
DigitOf_NoMask(b, k) == IF k % 2 = 1 THEN b \div HexBase ELSE b

\* hex2Char: one of the two digits of byte b, the first if k is odd.
DigitOf(b, k) == IF k % 2 = 1 THEN b \div HexBase ELSE b % HexBase

\* char2Hex of a pair of digits: byte n of the text buf.
ByteOf(buf, n) == buf[2 * n + 1] * HexBase + buf[2 * n + 2]

\* regVal2Hex, little endian
regVal2Hex(val, numBytes) ==
    LET byte(n) == (val \div Place[n]) % ByteMod
    IN  [k \in 1 .. 2 * numBytes |-> DigitOf(byte((k - 1) \div 2), k)]

\* Seeded fault: the bytes are taken in the order they come.
hex2RegVal_BigEndian(buf, numBytes) ==
    LET val[n \in 0 .. numBytes] ==
            IF n = 0 THEN 0 ELSE val[n - 1] * ByteMod + ByteOf(buf, n - 1)
    IN  val[numBytes]

\* hex2RegVal, little endian: from the last byte to the first
hex2RegVal(buf, numBytes) ==
    LET val[n \in 0 .. numBytes] ==
            IF n = 0 THEN 0 ELSE val[n - 1] * ByteMod + ByteOf(buf, numBytes - n)
    IN  val[numBytes]

Flip(b) == (b + ByteMod \div 2) % ByteMod
Escape == ByteMod - 1
MustEscape == ByteMod \div 2 .. ByteMod - 1

\* What the client sends for the bytes of an X packet.
Escaped(bytes) ==
    LET text[n \in 0 .. Len(bytes)] ==
            IF n = 0 THEN <<>>
            ELSE text[n - 1] \o IF bytes[n] \in MustEscape
                                THEN <<Escape, Flip(bytes[n])>> ELSE <<bytes[n]>>
    IN  text[Len(bytes)]

\* Seeded fault: the escape is taken away, the character left as it is.
Unescaped_NoFlip(b) == b

Unescaped(b) == Flip(b)

\* rspUnescape: the text, character by character, and whether the last one
\* was the escape of the next.
rspUnescape(buf) ==
    LET text[n \in 0 .. Len(buf)] ==
            IF n = 0 THEN [out |-> <<>>, esc |-> FALSE]
            ELSE LET before == text[n - 1]
                 IN  IF before.esc
                     THEN [out |-> Append(before.out, Unescaped(buf[n])), esc |-> FALSE]
                     ELSE IF buf[n] = Escape
                     THEN [out |-> before.out, esc |-> TRUE]
                     ELSE [out |-> Append(before.out, buf[n]), esc |-> FALSE]
    IN  text[Len(buf)].out

\* RspPacketBuilder::operator+= of a character, for one after the other: a
\* full buffer takes no more.
AddChars(text) ==
    SubSeq(text, 1, IF Len(text) < bufSize THEN Len(text) ELSE bufSize)

\* RspPacketBuilder::addData: all of it, or nothing.
AddData(buf, text) == IF Len(buf) + Len(text) > bufSize THEN buf ELSE buf \o text

-----------------------------------------------------------------------------
\* Memory

\* ITarget::read of n bytes at a gets them all.
CanRead(a, n) == a + n <= MemSize

\* Seeded fault: the length is cut to half of the buffer, rounded up.
ReadLength_RoundedUp(len) ==
    IF 2 * len >= bufSize THEN (bufSize + 1) \div 2 ELSE len

\* Seeded fault: room is kept for a terminator and a pair of digits more.
ReadLength_OneLess(len) ==
    IF 2 * len >= bufSize THEN (bufSize - 3) \div 2 ELSE len

\* The length of a read, cut so that its digits do not fill the buffer.
ReadLength(len) == IF 2 * len >= bufSize THEN (bufSize - 1) \div 2 ELSE len

rspReadMem(a, len) ==
    LET n == ReadLength(len)
        byte(k) == mem[a + k]
    IN  IF CanRead(a, n) THEN AddChars([k \in 1 .. 2 * n |-> DigitOf(byte((k - 1) \div 2), k)])
                         ELSE <<>>

\* The client does something else than read a region.
NotReading ==
    /\ ~ended
    /\ left = 0 /\ left' = 0
    /\ region' = NoRegion
    /\ gaveUp' = FALSE /\ path' = {}

\* Client: one packet of a region, and what it learns from the reply.
ReadMem ==
    /\ ~ended /\ left > 0
    /\ LET a   == region.addr + region.len - left
           got == Len(reply') \div 2
       IN  /\ reply' = rspReadMem(a, left)
           /\ left' = IF got = 0 THEN 0 ELSE left - got
           /\ gaveUp' = (got = 0)
           /\ cmem' = [x \in Addrs |-> IF x \in Cells(a, got)
                                       THEN ByteOf(reply', x - a) ELSE cmem[x]]
           /\ lostMem' = lostMem \ Cells(a, got)
    /\ UNCHANGED <<conf, mem, regVars, region, path>>

\* The client wants to read a region, which may reach past the memory.
WantMem ==
    /\ ~ended /\ left = 0
    /\ \E a \in Addrs, n \in 1 .. MaxLen :
        /\ region' = [addr |-> a, len |-> n]
        /\ left' = n
    /\ gaveUp' = FALSE /\ path' = {}
    /\ UNCHANGED <<conf, memVars, regVars, reply>>

\* The data of the writes the client makes.
WriteData == UNION {[1 .. n -> ByteVals] : n \in 1 .. MaxLen}

\* Bytes written at a one by one, where the target can: ITarget::write.
Written(a, bytes) ==
    [x \in Addrs |-> IF x \in Writable /\ x - a + 1 \in DOMAIN bytes
                     THEN bytes[x - a + 1] ELSE mem[x]]

\* What the client knows then, having written len bytes at a.
Believed(a, bytes) ==
    [x \in Addrs |-> IF x - a + 1 \in DOMAIN bytes THEN bytes[x - a + 1] ELSE cmem[x]]

\* Where it is wrong then, if it asked for some cells and those made were
\* written as it asked.
Lost(asked, made) == (lostMem \ made) \cup ((asked \cap Addrs) \ made)

Quiet == NotReading /\ reply' = <<>> /\ UNCHANGED conf

\* M: the data is pairs of digits, and refused if its length is not the one
\* announced (E01).  The answer is OK whatever the target made of it.
RspWriteMem ==
    /\ Quiet
    /\ \E a \in Addrs, bytes \in WriteData, announced \in 0 .. MaxLen :
        LET byte(k) == bytes[k + 1]
            symDat  == [k \in 1 .. 2 * Len(bytes) |-> DigitOf(byte((k - 1) \div 2), k)]
            val     == [k \in 1 .. announced |-> ByteOf(symDat, k - 1)]
        IN  /\ HeaderLen + Len(symDat) < bufSize
            /\ announced - Len(bytes) \in {0, -1}
            /\ IF 2 * announced # Len(symDat)
               THEN UNCHANGED memVars
               ELSE /\ mem' = Written(a, val)
                    /\ cmem' = Believed(a, bytes)
                    /\ lostMem' = Lost(Cells(a, announced), Cells(a, announced) \ ReadOnly)
    /\ UNCHANGED regVars

\* ITarget::write of len bytes at a returns done: those before the first that
\* it cannot write, or fewer.
WriteResult(a, len, done) ==
    /\ Cells(a, done) \subseteq Writable
    /\ Cells(a, len) \subseteq Writable => done = len

\* X: the data is escaped bytes; of a length that is not the one announced
\* the smaller one counts.  The address is cut to its 32 bits, and the answer
\* is OK whatever the target made of it.
RspWriteMemBin ==
    /\ Quiet
    /\ \E a \in Addrs, bytes \in WriteData, announced \in 0 .. MaxLen :
        LET addr   == a % XAddrMod
            bindat == rspUnescape(Escaped(bytes))
            len    == IF announced < Len(bindat) THEN announced ELSE Len(bindat)
        IN  /\ HeaderLen + Len(Escaped(bytes)) < bufSize
            /\ announced - Len(bytes) \in {0, -1}
            /\ \E done \in 0 .. len :
                /\ WriteResult(addr, len, done)
                /\ mem' = Written(addr, SubSeq(bindat, 1, done))
                /\ lostMem' = IF addr = a
                              THEN Lost(Cells(a, len), Cells(a, done))
                              ELSE Lost(Cells(a, len) \cup Cells(addr, done), {})
            /\ cmem' = Believed(a, SubSeq(bytes, 1, announced))
    /\ UNCHANGED regVars

\* m, M, X, p or P with fields that sscanf cannot read: E01.
RspMalformed == Quiet /\ UNCHANGED <<memVars, regVars>>

-----------------------------------------------------------------------------
\* Registers

\* All registers have the size that G and P, and the client, take them to have.
Uniform == \A r \in Regs : regSize[r] = RegBytes

\* g: as many registers as the buffer takes, each with the bytes it has.
rspReadAllRegs ==
    LET response[r \in 0 .. NumRegs] ==
            IF r = 0 THEN <<>>
            ELSE AddData(response[r - 1], regVal2Hex(regs[r - 1], regSize[r - 1]))
    IN  response[NumRegs]

RspReadAllRegs ==
    /\ NotReading
    /\ reply' = rspReadAllRegs
    /\ cregs' = [r \in Regs |->
                    IF 2 * RegBytes * (r + 1) <= Len(reply')
                    THEN hex2RegVal(SubSeq(reply', 2 * RegBytes * r + 1,
                                           2 * RegBytes * (r + 1)), RegBytes)
                    ELSE cregs[r]]
    /\ lostRegs' = {r \in lostRegs : 2 * RegBytes * (r + 1) > Len(reply')}
    /\ UNCHANGED <<conf, regs, memVars>>

\* G: all registers, one after the other.  The answer is OK, also if one has
\* not been written.
RspWriteAllRegs ==
    /\ Quiet
    /\ HeaderLen + 2 * RegBytes * NumRegs < bufSize
    /\ \E new \in [Regs -> RegVals] :
        LET text(r) == regVal2Hex(new[r], RegBytes)
            pktData == [k \in 1 .. 2 * RegBytes * NumRegs |->
                          text((k - 1) \div (2 * RegBytes))[((k - 1) % (2 * RegBytes)) + 1]]
            val(r)  == hex2RegVal(SubSeq(pktData, 2 * RegBytes * r + 1, Len(pktData)),
                                  RegBytes)
        IN  /\ regs' = [r \in Regs |-> IF r \in FixedRegs THEN regs[r] ELSE val(r)]
            /\ cregs' = new
    /\ lostRegs' = FixedRegs
    /\ UNCHANGED memVars

\* p: with the bytes the register has; the client takes no other number.
RspReadReg ==
    /\ NotReading
    /\ \E r \in Regs :
        /\ reply' = regVal2Hex(regs[r], regSize[r])
        /\ IF Len(reply') = 2 * RegBytes
           THEN /\ cregs' = [cregs EXCEPT ![r] = hex2RegVal(reply', RegBytes)]
                /\ lostRegs' = lostRegs \ {r}
           ELSE UNCHANGED <<cregs, lostRegs>>
    /\ UNCHANGED <<conf, regs, memVars>>

\* P: answered OK, also if the register has not been written.
RspWriteReg ==
    /\ Quiet
    /\ HeaderLen + 2 * RegBytes < bufSize
    /\ \E r \in Regs, v \in RegVals :
        /\ cregs' = [cregs EXCEPT ![r] = v]
        /\ IF r \in FixedRegs
           THEN regs' = regs /\ lostRegs' = lostRegs \cup {r}
           ELSE /\ regs' = [regs EXCEPT ![r] = hex2RegVal(regVal2Hex(v, RegBytes), RegBytes)]
                /\ lostRegs' = lostRegs \ {r}
    /\ UNCHANGED memVars

-----------------------------------------------------------------------------
\* The target runs, and makes a system call

\* It changes a register and a byte; the client forgets what it knew.
TargetRuns ==
    /\ Quiet
    /\ \E r \in Regs, v \in RegVals : regs' = [regs EXCEPT ![r] = v]
    /\ \E a \in Addrs, b \in ByteVals : mem' = [mem EXCEPT ![a] = b]
    /\ cmem' = [a \in Addrs |-> Unknown] /\ cregs' = [r \in Regs |-> Unknown]
    /\ lostMem' = {} /\ lostRegs' = {}

\* The word that holds an argument is in memory.
HasArg(loc) ==
    loc.type = "REGISTER" \/ CanRead(regs[loc.reg] + loc.offset, RegBytes)

\* Seeded fault: every byte is shifted by one byte too many.
readArgLoc_Shifted(loc) ==
    LET a == regs[loc.reg] + loc.offset
        value[n \in 0 .. RegBytes] ==
            IF n = 0 THEN 0 ELSE value[n - 1] + mem[a + n - 1] * Place[n]
    IN  IF loc.type = "REGISTER" THEN regs[loc.reg] ELSE value[RegBytes]

\* readArgLoc: the register, or a word of the memory it points to.
readArgLoc(loc) ==
    LET a == regs[loc.reg] + loc.offset
        value[n \in 0 .. RegBytes] ==
            IF n = 0 THEN 0 ELSE value[n - 1] + mem[a + n - 1] * Place[n - 1]
    IN  IF loc.type = "REGISTER" THEN regs[loc.reg] ELSE value[RegBytes]

\* Seeded fault: the terminator is not counted.
stringLength_NoNul(addr) ==
    LET count[k \in 0 .. MemSize] ==
            IF k = 0 THEN 0
            ELSE LET c == count[k - 1]
                 IN  IF CanRead(addr + c, 1) /\ mem[addr + c] # 0 THEN c + 1 ELSE c
    IN  count[MemSize]

\* stringLength: a turn of its loop reads and counts one character more,
\* unless the one before was zero or the target can read no more.  It ends
\* within MemSize turns.
stringLength(addr) ==
    LET count[k \in 0 .. MemSize] ==
            IF k = 0 THEN 0
            ELSE LET c == count[k - 1]
                 IN  IF CanRead(addr + c, 1) /\ (c > 0 => mem[addr + c - 1] # 0)
                     THEN c + 1 ELSE c
    IN  count[MemSize]

\* rspSyscallRequest of a call that names a file, which the client reads; an
\* argument that is not in memory fails the assert in readArgLoc.
FileCall ==
    /\ ~ended /\ left = 0
    /\ \E loc \in ArgLocs :
        IF HasArg(loc)
        THEN LET addr == readArgLoc(loc)
             IN  /\ region' = [addr |-> addr, len |-> stringLength(addr)]
                 /\ left' = stringLength(addr)
                 /\ path' = {loc}
                 /\ ended' = FALSE
        ELSE /\ region' = NoRegion /\ left' = 0 /\ path' = {}
             /\ ended' = TRUE
    /\ gaveUp' = FALSE
    /\ reply' = <<>>
    /\ UNCHANGED <<bufSize, regSize, memVars, regVars>>

\* The process has ended.
Aborted == ended /\ UNCHANGED vars

-----------------------------------------------------------------------------
Next ==
    \/ ReadMem \/ WantMem \/ RspWriteMem \/ RspWriteMemBin
    \/ RspReadAllRegs \/ RspWriteAllRegs \/ RspReadReg \/ RspWriteReg
    \/ RspMalformed \/ TargetRuns \/ FileCall \/ Aborted

Spec == Init /\ [][Next]_vars

-----------------------------------------------------------------------------
\* Properties

\* What the client knows of the memory and the registers is so, but for what
\* a write that was answered OK did not do: whatever it wrote, in digits or
\* binary, in one register or all of them, and read back in pieces of any
\* size, encoding and decoding have lost nothing, and a read mends what a
\* refused write left wrong.  Registers that differ in size are excepted.
BeliefTrue ==
    /\ \A a \in Addrs \ lostMem : cmem[a] \in {Unknown, mem[a]}
    /\ Uniform => \A r \in Regs \ lostRegs : cregs[r] \in {Unknown, regs[r]}

\* A reply fits in the buffer, and is whole bytes: no cut of a length or of
\* the registers leaves half a byte, which the client would have to guess.
WholeBytes == Len(reply) <= bufSize /\ Len(reply) % 2 = 0

\* When a read of a region that is in memory ends, the client knows all of
\* it, for the smallest buffer as well.
ReadWhole ==
    (left = 0 /\ CanRead(region.addr, region.len)) =>
        /\ ~gaveUp
        /\ \A a \in region.addr .. region.addr + region.len - 1 : cmem[a] # Unknown

\* What the program means by an argument: the register, or the word whose
\* bytes are in the memory it points to, the lowest first.
IsArg(w, loc) ==
    IF loc.type = "REGISTER" THEN w = regs[loc.reg]
    ELSE \A n \in 0 .. RegBytes - 1 :
            mem[regs[loc.reg] + loc.offset + n] = (w \div Place[n]) % ByteMod

\* The name of a file that the client reads for a system call is what the
\* program meant: from the address it gave, all the characters up to the
\* zero, and the zero, unless the memory ends before; and it gets it all.
PathWhole ==
    \A loc \in path :
        /\ IsArg(region.addr, loc)
        /\ region.len = 0 => region.addr \notin Addrs
        /\ (left = 0 /\ region.len > 0) =>
            LET char(k) == cmem[region.addr + k]
            IN  /\ ~gaveUp
                /\ \A k \in 0 .. region.len - 1 : char(k) = mem[region.addr + k]
                /\ \A k \in 0 .. region.len - 2 : char(k) # 0
                /\ char(region.len - 1) = 0 \/ region.addr + region.len = MemSize
=============================================================================
