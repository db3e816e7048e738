# A verification project for the embdebug server

embdebug is a GDB server for embedded targets: it speaks the Remote Serial
Protocol (RSP) to one GDB client and drives a target, a simulator or a piece of
hardware with one or more cores, through the interface `ITarget`. This
directory holds TLA+ models of the server, the TLC configurations that check
them on small instances, and TLAPS proofs of nearly all the safety properties
for every instance.

`PROJECT.json` is the index: the components, the runs, the lines of the source
behind each definition, the hazards and which property covers each, the
findings, and the theorems.

## 1. The system

| Part | State it keeps | Operations | Module |
|---|---|---|---|
| `GdbServer` run control | `CoreManager` (stop reason, resume type, reported flag and life of each core, count of live cores), `mHandlingSyscall` | `rspVCont`, `doCoreActions`, `getNextStopEvent`, `processStopEvents`, `rspSyscallRequest`, `rspSyscallReply` | `GdbServer`, abstractly `RunControl` |
| `GdbServer` sessions | `mPtid`, `mHaveMultiProc`, `mKillCoreOnExit`, `mTimeout`, `mNextProcess`, `mExitServer` | `rspServer`, `rspClientRequest` and its handlers | `GdbServer`; the data of memory and register packets in `MemoryAccess` |
| `Ptid` | a process and a thread number | `decode`, `validate`, `crystalize`, `encode` (its success) | `Ptid` |
| `VContActions` | the actions of one packet | `parse`, `getCoreAction` | `VContActions` |
| `AbstractConnection` | `mHavePendingBreak`, `mNoAckMode`, one character put aside | `getPkt`, `putPkt`, `getRspChar`, `haveBreak` | `Connection`, abstractly `Link`; its effect on breaks also in `GdbServer` |
| `RspConnection` (Unix, Windows), `StreamConnection` | port, listening socket, the client's descriptor | `rspConnect`, `rspClose`, raw reads and writes | `Startup` (sockets), `Connection` (reads and writes) |
| `Timeout` | kind, length, time stamp | `timeStamp`, `timedOut`, the setters | `Timeout`, used by `GdbServer` |
| `SyscallReplyPacket` | fields of an F packet | `parse` | `SyscallReply` |
| `TraceFlags` | state, text and number of each flag | `flag`, `flagState`, `parseArg` | `TraceFlags` |
| driver and `init` | options, buffer size, transport | `main`, `load_target_so`, `init` | `Startup` |
| `RspPacket`, `Utils` | a buffer of a fixed size | `+=`, `addData`, hex conversion, unescaping | `MemoryAccess`, capacity also in `Connection` |
| `ITarget` | the target: selected core, prepared actions, running or not, memory, registers | `prepare`, `resume`, `wait`, `halt`, `reset`, `read`, `write`, ... | environment of `GdbServer` and `MemoryAccess` |
| `emptytarget` | nothing | stubs | not modelled |

How they interact. The server is one thread: `rspServer` waits for a client,
then calls `rspClientRequest` again and again, which reads a packet with
`getPkt`, calls a handler, and the handler answers with `putPkt`. A packet that
resumes the target (`vCont`, `c`, `C`, `s`, `S`, `F`) ends in `doCoreActions`,
which polls `ITarget::wait` and in between `haveBreak` and the timeout. When
cores stop, one stop is reported and the others are kept for later. A core that
stopped for a host system call has it forwarded to GDB, which serves it, with
memory accesses, and answers with an F packet that resumes the target.

What is hard here. Nothing runs in parallel inside the server, but four parties
interleave with it: the cores, which stop in any combination; the clock; GDB,
whose break may arrive at any moment, in the middle of an acknowledgement or in
front of a packet; and the connection, which may be lost. The server keeps
notions that have to agree although different packets change them: the stop
each core has still to report, the actions the target is prepared with, the
core that is selected, the system call being served. And there is a protocol of
acknowledgements and repetitions under all of it. The hazards are listed one by
one in `PROJECT.json`.

What makes each part correct:

- run control: every stop is reported once, system calls first; the target runs
  just the cores the client asked for, and only while the server waits for it;
  the result of a system call goes to the core that made it; a break and a
  timeout end a run;
- sessions: what one client leaves behind does not confuse the next; the core that
  registers and memory are read on is the one the client has selected;
- packets: each packet is delivered once and unchanged, each is answered once,
  no break is lost or made up, and the two sides never wait for each other, in
  a first session and in every later one;
- memory and registers: what the client has written or read is what the target
  has, whatever the size of the buffer, as far as the target obeyed;
- the process: a port it has announced is the one it listens on in every session, and
  a client that uses it is served or refused, never left waiting.

## 2. The modules

**`Ptid`** has the pure functions on process and thread identifiers. The text is
abstracted to its syntactic form (`p<pid>.<tid>`, `p<pid>`, `<tid>`) and the kind
of each field (`0`, `-1`, a hex number); the truncation of a parsed number to
`int` is kept, with the width as the constant `MaxInt`, because a number that is
negative as an `int` is what `validate` must catch; so is the assertion that a
number has at most eight digits (`tooLong`), which ends the process.

**`VContActions`** has the parsed packet as a sequence of actions and the choice
of the first action that matches a core.

**`SyscallReply`** has the parser of the F packet. A packet is its two numbers and
what follows them, each possibly absent or not a number; values are truncated to
`int`. `IsGdbReply` and `Meaning` are the client's side: which packets GDB sends, and
the result or negative errno it means by one.

**`Timeout`** has the three kinds of limit, the setters, and `timedOut` on the two
clocks. Cycle counts have a fixed width, so the end of a limit can wrap round.

**`GdbServer`** composes all four with the server's state. Its variables have the
names of the members they stand for; `CoreManager` is split into one function of
the cores per field. `phase` is where the thread is: `connect` (in
`rspConnect`), `request` (in `getPkt`), `wait` (in the loop around
`ITarget::wait`), `exited` and `failed` (`rspServer` returned), and one place for
each fatal error or assertion. One action is one packet with all its handler
does (`RspVCont`, `RspSyscallReply`, `RspSelect`, `RspVKill`, `MonitorReset`, ...),
or one turn of the wait loop (`WaitBreak`, `WaitAgain`, `WaitTimedOut`,
`WaitEvent`, `WaitFault`), or one outcome of connecting. `doCoreActions` and
`processStopEvents` are operators that the handlers share, as in the code. The
clocks are `elapsed` and `cycles` since the last time stamp, and
`mCycleStamp`, the cycle count at it.

A break may reach the server before the poll of `haveBreak` at the top of
`doCoreActions` or after it (`BreakArrivals`), in which case it is in front of
the next acknowledgement; `PutPkt` says what becomes of it there.

The client is GDB, and obeys the protocol: while it serves a system call it sends
only memory and register accesses and then the F packet (so the assertion at the
top of `rspSyscallReply` is not at issue), and breaks only while it waits for a
stop; it asks for the next thread of an enumeration as long as it is answered with
one. Three variables are the client's own: `meant`, the result it last gave each
core; `reply`, with the core it takes to be selected; `listed`, the threads it was
told. The target obeys `ITarget.h`, so all cores are halted when `wait` returns an
event; the constant `TargetFaults` lists the calls that may fail, and the invariants are
proved for all of them. The two calls of `halt` whose result the code ignores
(`GdbServer.cpp:207` and 285) change nothing the server knows, failed or not.

**`RunControl`** is what all that promises to a client, with no packets, clocks,
breaks or sessions: each core has a stop and the client was told of it or not;
cores run only when there is nothing to tell of them; one stop is told at a time,
system calls first; while a call is served the run it interrupted stays as it was.
`GdbServer` implements it under the mapping `RC` (`ImplementsRunControl`).

**`Connection`** is the packet layer at the level of characters, between a
client and a server whose handlers are abstracted to "answers" and "runs the
target and polls `haveBreak`". Special characters are distinct small numbers,
one digit stands for the two of the checksum, and the checksum is taken modulo
`CsumMod`. `getPkt` is `GetStart`, `GetBody`, `GetSum`, one character at a time,
because a break or the loss of the client may come between any two; `putPkt` is
`PutPkt` and `GetAck`. A reply is one message, since nothing reacts to parts of
it. The line keeps the order and may spoil a bounded number of digits and
replies. When a client detaches or is gone, `RspConnect` starts a session with
another one on a new line; the members of the connection object go on. GDB is
modelled from the protocol (marked external in `PROJECT.json`).

**`Link`** is a reliable link: packets are taken in order, each once, and answered
once; a new session starts from nothing. Its promise is off while something on
the line is spoiled. `Connection` implements it (`ImplementsLink`).

**`MemoryAccess`** has the packets that move data, `m`, `M`, `X`, `g`, `G`, `p`, `P`,
with the conversions and the buffers they use, and the arguments of a system call
that names a file. One step is one exchange of packet and reply. `mem` and `regs`
are the target, `cmem` and `cregs` what the client has concluded from its own
writes and from replies; when the target runs the client forgets. The target may
refuse writes (`ReadOnly`, `FixedRegs`, and any number of bytes short for `X`) and give a
register another size than `getRegisterSize` says (`RegSizes`); the server answers
`OK` to a write all the same, and `X` cuts its address to `XAddrMod` values. `lostMem` and
`lostRegs` are the cells and registers the client is wrong about for that reason,
until it reads or writes them again. The assertion that an argument is in memory
ends the process (`ended`). A hex digit
has `HexBase` values, so that a byte is small; the escape flips the upper half of
the bytes into the lower, where in the code it flips one bit.

**`TraceFlags`** has the flags as a function of their names, and **`Startup`** the life
of the process: `Main` with all the early returns of the command line in one step,
`LoadTarget`, `InitServer`, then `rspConnect` with a step for each system call
(`OpenSocket`, `Bind`, `Listen`, `Accept`, `AcceptFails`), since clients and other
processes act between them. A session is a place, `serve`; what happens in it is
`GdbServer`'s business, but for the commands that set flags. The variable
`system` tells Unix from Windows, which differ in what may be bound again.

**`MCGdbServer`, `MCConnection`, `MCMemoryAccess`, `MCStartup`** give values to
constants.

The theorems are in modules of their own: **`GdbServer_proofs`** (types),
**`GdbServer_safety_proofs`** (the inductive invariant and its parts),
**`GdbServer_step_proofs`** (what a step may not do, and the refinement of
`RunControl`), **`GdbServer_session_proofs`** (thread lists, fatal errors), each
extending the one before; **`Startup_proofs`**, **`MemoryAccess_proofs`** and
**`Connection_proofs`**, on **`NatRecursion`**, which has induction and recursion over
the natural numbers in a form the provers can use.

## 3. What TLC checks

Deadlock is checked in every run but those of `Startup`, whose process really
ends; a server that has ended stutters elsewhere (`Terminated`). The
configurations select what the client does (`Requests`), so that each run is about
one question and all actions occur in some run.

| Run | Bounds | States | Properties |
|---|---|---|---|
| `run_control` | 3 cores, three kinds of stop, five vCont packets, breaks, with and without acknowledgements | 35,000 | `NoStopOverwritten`, `RunsWhatWasAsked`, `SyscallGoesToCaller`, `NoAbort`, `StopNotLost`, `ImplementsRunControl` |
| `session` | 2 cores, all faults of the target, kills, resets, detach, breaks, loss and return of the client, replies that fail or do not parse, an identifier that is too long | 1,220,000 | `IInv`, `ResultReachesCaller`, `ImplementsRunControl` |
| `monitor` | stream transport, 2 cores, integers of 8 values, selections (refused ones too), kills, exits, stops and thread lists | 2,900,000 | `TypeOK`, `SelectionKnown`, `ThreadsListed` |
| `liveness` | 2 cores, timeouts of 0 and 1 on either clock, two ticks of each, 8 cycle counts, runs that start at the first and at the last of them | 82,000 | `BreakStopsTarget`, `TimeoutStopsTarget`, `LostClientNoticed`, `NoEarlyTimeout` |
| `packets` | 3 packets a session of up to 3 characters, a buffer of 4, one thing spoiled, breaks, both modes of acknowledgement, any number of sessions | 790,000 | `TypeOK`, `BreaksAreReal`, `AnsweredOnce`, `AssertsHold`, `ImplementsLink`, `BreakNotDropped`, `PacketTaken` |
| `memory` | 4 values of a byte, 3 bytes of memory, one of them read-only, 2 registers of 2 bytes, one of them fixed, or of 1 and 2, addresses of `X` of 2 values, buffers of 4, 5 and 12 characters | 770,000 | `TypeOK`, `BeliefTrue`, `WholeBytes`, `ReadWhole`, `PathWhole` |
| `startup` | 50 command lines, 6 kinds of library, 3 ports, one of them forbidden, 2 clients, another process, both systems | 16,000 | `TypeOK`, `AnnouncedPortServed`, `ClientNotLeft` |

Why the bounds are enough to be interesting: three cores are what it takes for a
system call, an older stop and a newer stop to compete in one report; five vCont
packets include one that runs a single core, so that a stop stays pending while
others run, and one that is refused half way. Two cores suffice where the
question is what a reset or a kill leaves behind. Three packets allow haveBreak to
read into a packet sent ahead, with another one behind it; a buffer of four
characters holds the longest packet exactly but not the concatenation of two.
The memory is longer than what the two smaller buffers return at a time, so a read
takes several packets; the buffers are even and odd, hold one register but not
two, or everything; one of the two bytes is the escape character itself, the
other the terminator; and the address of an `X` packet can be beyond its width. Two
clients and two ports that can be had let a client wait behind another,
and a port be lost to another process between two sessions.

Every property has a mutant in `PROJECT.json`: a seeded fault (the definitions
commented "Seeded fault") under which TLC finds the property violated.

### Fairness

`FairSpec` of `GdbServer` asks that the loop around `wait` gets to see a break or
a timeout that stays there: `ITarget.h` has `wait` return `TIMEOUT` again and
again "to check for client interrupts". Both clocks go on, GDB answers a system
call, and a read from a closed connection returns. Nothing forces the target to
stop, and nothing forces GDB to send a packet. `Spec` of `Connection` asks that the
server's thread goes on (`ServerThread`) and that GDB reads what is sent to it; the
target need not stop and no other client has to come. `Spec` of `Startup` asks that
the process takes its steps and that `accept` returns when a client is there.

`BreakStopsTarget` and `BreakNotDropped` are stated for acknowledged packets.
Without acknowledgements a break that arrives around a system call request is
left in the stream, and `getPkt` skips it. `TimeoutStopsTarget` and
`LostClientNoticed` are about a limit that is not zero (`Limited`), since a comment says
of zero what the code does not do; they leave out a cycle count that wraps round
during the run, after which a cycle limit may never be seen to be over; `NoEarlyTimeout` leaves out a
limit whose end wraps round, which is over at once.

### Where the code and what is said about it disagree

Each of these runs has TLC find a behaviour that contradicts a comment, an
assertion or a document of the repository, which the finding quotes.

| Run | What happens |
|---|---|
| `live_count` | killing a core that is dead already decrements `mLiveCores` again, so that the server gives up its client, or its process, with cores alive |
| `refused_syscall` | after a system call that was refused the next one fails the assertion against nested calls |
| `bad_checksum` | after a bad checksum the repeated packet is delivered with the refused one in front of it |
| `stale_break` | a break read with the last acknowledgement of one client stops the first run of the next |
| `accept_retry` | a failed `accept` is said to be retried, but leaves its listening socket open, on which the retry's `bind` fails |

Smaller ones seen while modelling, with no run of their own, because they are
plain from the code:

- An exit kills its core although `kill-core-on-exit` is off (`GdbServer.cpp:219`,
  against `GdbServer.h:170`); the setting changes only the list of threads.
- `?` after anything but an interrupt is a fatal error (`GdbServer.cpp:509`), while
  `docs/RSP.rst:72` lists it among the packets every server has.
- A system call that fails with errno 1 has no result written: its negative errno
  is -1, which stands for "nothing to write" (`GdbServer.cpp:268`), while
  `SyscallReplyPacket.h:52` says "We place the negative errno in the result register".
  `ResultReachesCaller` excepts -1. The location of
  the result that the target names, `mSyscallReturnLoc`, is never used; results
  go to register 10.
- `Hg` hands the target a core index it does not have (`GdbServer.cpp:599`).
- A timeout of zero fires at the first tick; the comment at `GdbServer.cpp:332` says
  "Check for timeout, unless the timeout was zero". A timeout starts again with every system call; its number is read
  as hex.
- `D` leaves the target halted, the comment at `GdbServer.cpp:559` says it is
  resumed. On the stream transport a detach ends the server with a failure, while
  `StreamConnection.cpp:82` says `rspConnect` is never called.
- `qC` answers `mPtid`, what the last `Hg` stored, not the core of the last stop, although
  `GdbServer.cpp:976` calls it the current thread. An `Hg` that is refused may have stored
  an identifier too: after `Hgp1` it is p1.-1, which `Hg` refuses (`Ptid.cpp:100-105`). A client
  lost while it serves a system call leaves `mHandlingSyscall` set for the next one.
- A write that fails or is cut short is answered `OK`: `X` (`GdbServer.cpp:1647-1651`), whose
  comment at 1613-1614 says "E<nn> if error <nn> has occurred", `M` (862-866), `P` (928)
  and `G` (766). The address of an `X` packet is read into 32 bits (1620-1624), that of
  an `M` packet into 64.
- `g` and `p` write as many digits as `readRegister` says a register has (743, 893), `G` and
  `P` read as many as `getRegisterSize` says; `BeliefTrue` is about registers only where
  the two agree (`Uniform`).
- `docs/Running.rst:50-51` says "Any other options are passed on to the target interface";
  an option the driver does not know is refused (`Driver.cpp:230`).
- `isFlag` is documented to ignore case and does not (`TraceFlags.cpp:124`). `-t ipg`
  without a number sets it to 0 instead of leaving 50. `monitor set debug verbosity on
  x` ends the server.
- `hex2RegVal` asserts half of the digits it reads; `CreateFormatted` writes up to
  10000 characters whatever the buffer size is.
- With `--stdin` the server prints `READY`, traces and monitor output on the line that
  carries packets; `docs/Running.rst:42-44` says other output is suppressed.

## 4. What is proved

### Server

The theorems hold for every number of cores, every width of the integers, every
set of packets, stop results, system calls and failures, that is, for all
constants that satisfy `MaxIntAssumption`, `CycleModAssumption` and
`GdbServerAssumption` (types, at least one core, an `unsigned int` as wide as an `int` that
can count past the cores).

- `TypeCorrect` (`GdbServer_proofs`): `TypeOK`. One lemma per group of actions;
  the points that need an argument are that `Hg` never selects a negative core
  (a process number that `crystalize` accepts is positive) and that the count of
  live cores wraps round.
- `Agreement` (`GdbServer_safety_proofs`): the inductive invariant `IInv`.
- `NoStopIsOverwritten`, `OnlyAskedCoresRun`, `ResultGoesToCaller`: its conjuncts as
  theorems of their own.
- `SelectionAgreed`: `SelectionKnown`. The core `Hg` selects is the process it names less
  one, since `decode` and `crystalize` change no number that they accept; the core of a
  stop reply is the one that `processStopEvents` selected. While a system call is served
  the two may differ, and the stop that ends it makes them agree again.
- `ResultsReachCallers`: `ResultReachesCaller`, from `SyscallGoesToCaller` and the lemma
  that `SyscallReply` reads what GDB means from every packet that GDB sends.
- `NoStopIsLost`, `TimeoutNotEarly` (`GdbServer_step_proofs`): the action properties
  `StopNotLost` and `NoEarlyTimeout`, from `IInv` in the state the step starts from.
- `RunControlImplemented`: `ImplementsRunControl`. Initial states map to initial
  states and each action, under `IInv`, to a step of `RunControl` or a stutter; the
  operators the handlers share are mapped once, in lemmas of their own.
- `EnumerationComplete` (`GdbServer_session_proofs`): `ThreadsListed`. The
  strengthening, `ListedSoFar`, says that the list so far names just the cores
  below `mNextProcess` that are not gone, once each.
- `NoAbortUnderRules`: `NoAbort`, under the hypothesis `RulesKept` that the run also
  keeps to: the target does not fail and stops for known reasons, the calls are known
  ones, the client stays, does not send `?`, sets no trace flag and sends no number of
  more than eight digits. Without it the server really
  ends; `refused_syscall` and section 3 say how. The strengthening, `CallsServed`, is
  about when `mHandlingSyscall` can still be set.

The argument for `IInv`. The safety properties are not inductive as they stand.
`NoStopOverwritten` and `RunsWhatWasAsked` speak of `wait` only, and an F packet goes
straight from `request` to `wait` with the resume types of an earlier vCont. So
one needs to know that while the client serves a system call those types are
still the ones the target was prepared with and belong to live cores: `PlanKept`.
It is kept because no packet that may arrive then changes either, and because a
loss of the client or a reconnection ends the system call. For
`NoStopOverwritten`, `doCoreActions` resumes only when `StopEvents` is empty, and
that says nothing about a core that is not reported and has no stop reason;
`ReasonIsReported` rules such cores out. The proof has one step per action, with
the shared operators (`DoCoreActions`, `ProcessStopEvent`, `HaltAndReport`) as
lemmas.

### Packets

`Connection_proofs` is about all packets, checksums and sizes of the buffer that
satisfy `ConnectionAssumption`, in every session. The invariant has two halves.

`BaseInv` holds whatever the line does, and gives `TypeCorrect`: the buffer of `getPkt`
has room inside a packet, a character put aside is never a break, and nothing is on
the line before the client has sent a packet.

`Protocol` holds while nothing is spoiled. Its core is `LineInv`, what is still to be
read: `Stream` is what the client writes after the packets that were
delivered, at most two packets with maybe a break around each, and the server is
in front of it (`PlainAt`), in front of an acknowledgement with maybe a break before it
(`PlusAt`), inside a packet (`BodyAt`, `SumAt`), or still has a character of the session
before (`StaleAt`, `StalePacketAt`). It carries a budget: the breaks in the stream, the
one remembered and those taken are no more than were sent or left over.
`CountInv` relates the counts of packets sent, delivered and answered to what the
client waits for, `ModeInv` the two sides' views of the end of acknowledgements, and
`OutInv` says what is on the way to the client. None of the properties is
inductive without all of these: that `putPkt` reads no second break needs that the
client breaks once per wait, which needs the counts, which need that the packets are
read as they were written.

- `AssertsKept` (`AssertsHold`) and `LinkImplemented` (`ImplementsLink`) assume
  `PacketsFit`: each packet is shorter than the buffer. `getPkt` drops a packet that
  fills it, which is one of the hazards listed.
- `EachAnswered` (`AnsweredOnce`) and `NoBreakMadeUp` (`BreaksAreReal`) assume the
  same and speak of states in which nothing has been spoiled in this session; what
  noise does to them is only model-checked, for one spoiled character.
- `BreaksRemembered` (`BreakNotDropped`) also assumes a line that spoils nothing
  (`MaxNoise = 0`).

The constants of `packets` satisfy `PacketsFit`, and TLC has checked `IInv` with them.

### Memory and registers

`MemoryAccess_proofs` holds for every base of the digits, width of a register, memory
and set of buffer sizes. The conversions are recursive functions over the
digits; that they are inverse to each other is proved with `NatRecursion`, whose
lemmas state induction for sets of numbers rather than for predicates.

- `TypeCorrect`, and `NothingGarbled` (`BeliefTrue`): what is written and read back
  through hex digits, little endian registers and escapes is what the target has, but
  for what a write answered `OK` did not do, and for registers if their sizes differ.
- `RegionsReadWhole` (`ReadWhole`) and `PathsReadWhole` (`PathWhole`), from
  `ReadSoFar` (what the client has of a region is what is in memory) and `PathKept` (the
  announced address is the program's and the length that of the string). The lemma
  `StringMeasured` says what the loop of `stringLength` has counted after any number of
  turns, `WordOfDigits` that the bytes of a word are those `readArgLoc` put into it.
- `RepliesWhole` (`WholeBytes`) assumes `RegistersFit`: `rspReadReg` writes the digits of
  a register without looking at the size of the buffer.

### Start

`Startup_proofs` holds for all command lines, libraries, ports, clients and flags. `IInv`
adds to the types that the ports that are bound and announced are the one that
`rspConnect` keeps (`PortKept`), when there is a listening socket (`SocketsKept`), and
what `main` has let through (`OptionsKept`). The theorems are `TypeCorrect` and
`PortServed` (`AnnouncedPortServed`).

### Only model-checked

The liveness properties `BreakStopsTarget`, `TimeoutStopsTarget`, `LostClientNoticed`,
`PacketTaken` and `ClientNotLeft`, since fairness is out of the prover's reach; what
`AnsweredOnce`, `BreaksAreReal` and `BreakNotDropped` say of a line that spoils
something; and the runs that show a disagreement.

## 5. What is not modelled

The text of replies and of monitor commands, and what only formats it
(`CreateRcmdStr`, `val2Hex`, `ascii2Hex`, `split`, `dump`); the retries of system
calls that were interrupted; socket options other than the reuse of addresses;
`emptytarget`, whose methods are stubs; vendored code.
In `GdbServer` the accesses (`RspAccess`) and the packets and commands that only
answer (`RspOther`, `RspQuery`, `RspCommand`, `RspSetCommand`, `RspShowCommand`) are one
nondeterministic answer each, and `PROJECT.json` maps each to the lines that give the
answer only. `r10` is what the server last wrote to the result
register of each core, not what the program does to it. `MemoryAccess` reads and
writes one core: which core that is, is `currentCpu` in `GdbServer`. Only the little
endian branch of the register conversions is there, since every caller asks for
it. An `M` packet carries hex digits; what is not fails an assertion
(`GdbServer.cpp:857`). A client that asks for the next thread without having asked for the
first is not modelled. The wall clock only goes forward.

## 6. Plan

All of the system's parts that keep state are modelled, and each safety property
of a passing run is stated by a theorem. What is left:

1. `AnsweredOnce`, `BreaksAreReal` and `BreakNotDropped` on a line that spoils only
   digits: the invariant then has to say what a refused packet leaves in the buffer
   of `getPkt`, and which repetitions are under way.
2. `NoAbort` with weaker rules, one hypothesis for each fatal error.
3. Shorter proofs where lemmas about streams and conversions repeat each other.
