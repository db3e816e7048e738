---------------------------- MODULE Startup_proofs ----------------------------
(***************************************************************************)
(* The safety properties of Startup, for all command lines, ports, clients *)
(* and trace flags.                                                        *)
(***************************************************************************)
EXTENDS Startup, NatRecursion

\* The port: what is announced is what rspConnect keeps in portNum, and the
\* socket is bound to that as soon as it is known.  It stays 0 until main has
\* read the options.
PortKept ==
    /\ pc = "main" => announced = {}
    /\ announced \subseteq {portNum} \ {0}
    /\ pc = "listen" => tmpFd \in Ports /\ (portNum # 0 => tmpFd = portNum)
    /\ pc = "accept" => portNum # 0 /\ tmpFd = portNum
    /\ (pc = "accept" /\ announced = {}) => sFlagInfo["silent"].state /\ ~writePort

\* The sockets: one that listens is in tmpFd, or was left by a failed accept.
SocketsKept ==
    /\ pc \notin {"listen", "accept"} => tmpFd = 0
    /\ ~acceptFailed => ~stray

\* The options do not change, and main has found nothing wrong with them.
OptionsKept ==
    /\ opts \in CommandLines
    /\ pc \notin {"main", "end"} => EarlyReturn(opts) = "none"

IInv == TypeOK /\ OptionsKept /\ PortKept /\ SocketsKept

-----------------------------------------------------------------------------
\* Trace flags

LEMMA FlagsStart == FlagInfoInit \in FlagInfos
  BY DEF FlagInfoInit, FlagInfos, Null, DefaultNumber

\* The settings stay settings when a state is changed,
LEMMA FlagStateType ==
  ASSUME NEW info \in FlagInfos, NEW f \in FlagNames, NEW b \in BOOLEAN
  PROVE  setFlagState(info, f, b) \in FlagInfos
  BY DEF setFlagState, FlagInfos

\* A token has a kind, and a number that is an integer.
LEMMA TokenFields ==
  ASSUME NEW v \in Tokens
  PROVE  v.kind \in {"empty", "word", "number"} /\ v.n \in Int /\ v.colon \in BOOLEAN
  <1>1. CASE v \in [kind : {"empty", "word"}, n : {0}, colon : BOOLEAN]
    BY <1>1
  <1>2. CASE v \in [kind : {"number"}, n : Numbers, colon : BOOLEAN]
    BY <1>2, NumbersAssumption
  <1> QED
    BY <1>1, <1>2 DEF Tokens

\* when a value is,
LEMMA FlagType ==
  ASSUME NEW info \in FlagInfos, NEW f \in FlagNames, NEW b \in BOOLEAN,
         NEW v \in Tokens, NEW num \in BOOLEAN
  PROVE  flag(info, f, b, v, num) \in FlagInfos
  <1>1. NumericVal(v, num) \in Int
    <2>1. v.n \in Int
      BY TokenFields
    <2> QED
      BY <2>1 DEF NumericVal
  <1> DEFINE new == [state |-> b, val |-> v, numeric_val |-> NumericVal(v, num)]
  <1>2. new \in [state : BOOLEAN, val : Tokens \cup {Null}, numeric_val : Int]
    BY <1>1
  <1> HIDE DEF new
  <1>3. [info EXCEPT ![f] = new] \in FlagInfos
    BY <1>2 DEF FlagInfos
  <1> QED
    BY <1>3 DEF flag, new

\* and by a -t option that main does not refuse.
LEMMA ParseArgType ==
  ASSUME NEW info \in FlagInfos, NEW arg \in TraceArgs(STRING, Tokens), ~parseArgFails(arg)
  PROVE  parseArg(info, arg) \in FlagInfos
  <1>1. Empty \in Tokens
    BY DEF Empty, Tokens
  <1>2. arg.val \in Tokens
    BY <1>1 DEF TraceArgs
  <1>3. ArgIsNumeric(arg) \in BOOLEAN
    BY DEF ArgIsNumeric
  <1> QED
    BY <1>2, <1>3, FlagType DEF parseArgFails, parseArg, isFlag

\* The settings main ends up with, after all the options: every -t option is
\* applied to the settings the ones before it left.
LEMMA FlagsAfterType ==
  ASSUME NEW o \in Options, ~BadTrace(o)
  PROVE  FlagsAfter(o) \in FlagInfos
  <1> DEFINE n == Len(o.trace)
             start == IF o.silent THEN setFlagState(FlagInfoInit, "silent", TRUE)
                                  ELSE FlagInfoInit
             Step == [k \in 1 .. n |-> [i \in FlagInfos |-> parseArg(i, o.trace[k])]]
  <1>1. o.trace \in Seq(TraceArgs(STRING, Tokens)) /\ o.silent \in BOOLEAN
    BY DEF Options
  <1>2. n \in Nat /\ DOMAIN o.trace = 1 .. n
        /\ \A k \in 1 .. n : o.trace[k] \in TraceArgs(STRING, Tokens)
    BY <1>1
  <1>3. start \in FlagInfos
    BY FlagsStart, FlagStateType DEF FlagNames
  <1>4. \A k \in 1 .. n, i \in FlagInfos : parseArg(i, o.trace[k]) \in FlagInfos
    BY <1>2, ParseArgType DEF BadTrace
  <1>5. Step \in [1 .. n -> [FlagInfos -> FlagInfos]]
    BY <1>4
  <1> HIDE DEF Step, start
  <1>6. PICK s \in [0 .. n -> FlagInfos] :
          s[0] = start /\ \A k \in 1 .. n : s[k] = Step[k][s[k - 1]]
    <2>1. n \in Nat
      BY <1>2
    <2> HIDE DEF n
    <2> QED
      BY <2>1, <1>3, <1>5, RecursionExists
  <1> DEFINE Eq(f) == f = [k \in 0 .. n |-> IF k = 0 THEN start
                                            ELSE parseArg(f[k - 1], o.trace[k])]
  <1>7. Eq(s)
    <2>1. ASSUME NEW k \in 0 .. n
          PROVE  s[k] = IF k = 0 THEN start ELSE parseArg(s[k - 1], o.trace[k])
      <3>1. CASE k = 0
        BY <1>6, <3>1
      <3>2. CASE k # 0
        <4>1. k \in 1 .. n /\ k - 1 \in 0 .. n
          BY <1>2, <3>2
        <4>2. s[k] = Step[k][s[k - 1]] /\ s[k - 1] \in FlagInfos
          BY <1>6, <4>1
        <4>3. Step[k][s[k - 1]] = parseArg(s[k - 1], o.trace[k])
          BY <4>1, <4>2 DEF Step
        <4> QED
          BY <3>2, <4>2, <4>3
      <3> QED
        BY <3>1, <3>2
    <2> QED
      BY <1>6, <2>1
  <1> DEFINE info == CHOOSE f : Eq(f)
  <1>8. Eq(info)
    BY <1>7, Zenon
  <1>9. FlagsAfter(o) = info[n]
    BY Zenon DEF FlagsAfter, start
  <1> HIDE DEF info
  <1> DEFINE T == {k \in 0 .. n : info[k] \in FlagInfos}
  <1>10. 0 \in T
    <2>1. 0 \in 0 .. n
      BY <1>2
    <2>2. info[0] = start
      BY <1>8, <2>1
    <2> QED
      BY <1>3, <2>1, <2>2
  <1>11. ASSUME NEW k \in 0 .. n - 1, k \in T PROVE k + 1 \in T
    <2>1. k + 1 \in 1 .. n /\ k + 1 \in 0 .. n /\ (k + 1) - 1 = k /\ k + 1 # 0
      BY <1>2
    <2>2. info[k + 1] = parseArg(info[k], o.trace[k + 1])
      BY <1>8, <2>1
    <2> QED
      BY <1>4, <1>11, <2>1, <2>2
  <1>12. n \in T
    <2> HIDE DEF T
    <2>1. \A k \in 0 .. n : k \in T
      BY <1>2, <1>10, <1>11, InductionUpTo
    <2> QED
      BY <1>2, <2>1
  <1> QED
    BY <1>9, <1>12

-----------------------------------------------------------------------------
\* The command line

\* The options main goes on with give a port that exists, a size of the
\* buffers, and flags.
LEMMA OptionsUsed ==
  ASSUME NEW o \in Options, EarlyReturn(o) = "none"
  PROVE  /\ FlagsAfter(o) \in FlagInfos
         /\ Len(o.port) # 0 => PortToken(o).n \in Ports \cup {0}
         /\ Len(o.bufsize) # 0 => o.bufsize[Len(o.bufsize)].n % SizeMod \in 0 .. SizeMod - 1
  <1>1. ~BadPort(o) /\ ~BadTrace(o)
    BY DEF EarlyReturn
  <1>2. o.port \in Seq(Tokens) /\ o.bufsize \in Seq(Tokens)
    BY DEF Options
  <1>3. ASSUME Len(o.port) # 0 PROVE PortToken(o).n \in Ports \cup {0}
    <2>1. o.port[Len(o.port)] \in Tokens
      BY <1>2, <1>3
    <2>2. PortToken(o).n = o.port[Len(o.port)].n
      BY <2>1 DEF PortToken, Tokens
    <2>3. PortToken(o).n \in Int
      BY <2>1, <2>2, TokenFields
    <2> QED
      BY <1>1, <1>3, <2>3, StartupAssumption DEF BadPort, Ports
  <1>4. ASSUME Len(o.bufsize) # 0
        PROVE  o.bufsize[Len(o.bufsize)].n % SizeMod \in 0 .. SizeMod - 1
    <2>1. o.bufsize[Len(o.bufsize)] \in Tokens
      BY <1>2, <1>4
    <2>2. o.bufsize[Len(o.bufsize)].n \in Int
      BY <2>1, TokenFields
    <2>3. SizeMod \in Nat \ {0}
      BY StartupAssumption
    <2> QED
      BY <2>2, <2>3, RemainderRange, Zenon
  <1> QED
    BY <1>1, <1>3, <1>4, FlagsAfterType

-----------------------------------------------------------------------------
\* The steps

\* The end of the process keeps the invariant, whatever it was about to do.
LEMMA ExitKeeps ==
  ASSUME IInv, NEW how \in {"success", "failure", "abort"}, Exit(how),
         UNCHANGED <<options, sFlagInfo, bufSize, portNum, acceptFailed, announced, others>>
  PROVE  IInv'
  BY DEF IInv, TypeOK, OptionsKept, PortKept, SocketsKept, Exit, options, Places

\* main and load_target
LEMMA MainKeeps == IInv /\ (Main \/ LoadTarget) => IInv'
  <1> SUFFICES ASSUME IInv, Main \/ LoadTarget PROVE IInv'
    OBVIOUS
  <1>1. opts \in Options
    BY StartupAssumption DEF IInv, OptionsKept
  <1>2. CASE Main /\ EarlyReturn(opts) # "none"
    <2>1. EarlyReturn(opts) \in {"success", "failure", "abort"}
      BY <1>2 DEF EarlyReturn
    <2> QED
      BY <1>2, <2>1, ExitKeeps DEF Main
  <1>3. CASE Main /\ EarlyReturn(opts) = "none"
    <2>1. FlagsAfter(opts) \in FlagInfos /\ portNum' \in Ports \cup {0}
          /\ bufSize' \in 0 .. SizeMod - 1
      BY <1>1, <1>3, OptionsUsed DEF Main, IInv, TypeOK
    <2>2. sFlagInfo' \in FlagInfos
      BY <1>3, <2>1 DEF Main
    <2> QED
      BY <1>3, <2>1, <2>2
      DEF Main, IInv, TypeOK, OptionsKept, PortKept, SocketsKept, options, Places
  <1>4. CASE LoadTarget
    <2>1. CASE Exit("failure")
      BY <1>4, <2>1, ExitKeeps DEF LoadTarget
    <2>2. CASE ~Exit("failure")
      BY <1>4, <2>2
      DEF LoadTarget, IInv, TypeOK, OptionsKept, PortKept, SocketsKept,
          options, Places
    <2> QED
      BY <2>1, <2>2
  <1> QED
    BY <1>2, <1>3, <1>4

\* init and the first two calls of rspConnect
LEMMA InitKeeps == IInv /\ (InitServer \/ OpenSocket) => IInv'
  <1> SUFFICES ASSUME IInv, InitServer \/ OpenSocket PROVE IInv'
    OBVIOUS
  <1>1. CASE Exit("abort") \/ Exit("failure")
    BY <1>1, ExitKeeps DEF InitServer, OpenSocket
  <1>2. CASE ~(Exit("abort") \/ Exit("failure"))
    BY <1>2
    DEF InitServer, OpenSocket, IInv, TypeOK, OptionsKept, PortKept, SocketsKept,
        options, Places
  <1> QED
    BY <1>1, <1>2

\* Bind: a socket is bound to a port, the one in portNum if there is one.
LEMMA BindKeeps == IInv /\ Bind => IInv'
  <1> SUFFICES ASSUME IInv, Bind PROVE IInv'
    OBVIOUS
  <1>1. CASE Exit("failure")
    BY <1>1, ExitKeeps DEF Bind
  <1>2. CASE ~Exit("failure")
    <2>1. tmpFd' \in Ports /\ (portNum # 0 => tmpFd' = portNum)
      BY <1>2, StartupAssumption DEF Bind, IInv, TypeOK
    <2> QED
      BY <1>2, <2>1
      DEF Bind, IInv, TypeOK, OptionsKept, PortKept, SocketsKept,
          options, Places
  <1> QED
    BY <1>1, <1>2

\* Listen: the port is known from here on, and announced.
LEMMA ListenKeeps == IInv /\ Listen => IInv'
  <1> SUFFICES ASSUME IInv, Listen PROVE IInv'
    OBVIOUS
  <1>1. CASE Exit("failure")
    BY <1>1, ExitKeeps DEF Listen, Exit
  <1>2. CASE ~Exit("failure")
    <2>1. portNum' = tmpFd /\ tmpFd' = tmpFd /\ tmpFd \in Ports
      BY <1>2 DEF Listen, PortOf, IInv, PortKept
    <2>2. tmpFd # 0
      BY <2>1 DEF Ports
    <2>3. PortKept'
      BY <1>2, <2>1, <2>2 DEF Listen, IInv, PortKept, options
    <2> QED
      BY <1>2, <2>1, <2>3
      DEF Listen, IInv, TypeOK, OptionsKept, SocketsKept, options, Places
  <1> QED
    BY <1>1, <1>2

\* A client is accepted, accept fails, or a session ends.
LEMMA AcceptKeeps == IInv /\ (Accept \/ AcceptFails \/ SessionEnds) => IInv'
  <1> SUFFICES ASSUME IInv, Accept \/ AcceptFails \/ SessionEnds PROVE IInv'
    OBVIOUS
  <1>1. CASE Accept
    BY <1>1
    DEF Accept, CloseListener, IInv, TypeOK, OptionsKept, PortKept, SocketsKept,
        options, Places
  <1>2. CASE AcceptFails
    BY <1>2
    DEF AcceptFails, IInv, TypeOK, OptionsKept, PortKept, SocketsKept,
        options, Places
  <1>3. CASE SessionEnds
    BY <1>3
    DEF SessionEnds, IInv, TypeOK, OptionsKept, PortKept, SocketsKept,
        options, transport, Places
  <1> QED
    BY <1>1, <1>2, <1>3

\* "set debug" in a session, and what ends the server
LEMMA SetDebugKeeps == IInv /\ (RspSetDebug \/ Kill \/ MonitorExit) => IInv'
  <1> SUFFICES ASSUME IInv, RspSetDebug \/ Kill \/ MonitorExit PROVE IInv'
    OBVIOUS
  <1>1. CASE Exit("failure") \/ Kill \/ MonitorExit
    BY <1>1, ExitKeeps DEF RspSetDebug, Kill, MonitorExit, Exit
  <1>2. CASE RspSetDebug /\ ~Exit("failure")
    <2>1. sFlagInfo \in FlagInfos
      BY DEF IInv, TypeOK
    <2>2. PICK cmd \in SetCommands :
            \/ UNCHANGED sFlagInfo
            \/ /\ isFlag(cmd.name)
               /\ sFlagInfo' = setFlagState(sFlagInfo, cmd.name, cmd.level = "on")
            \/ /\ ~flagFails(cmd.name, cmd.val[1], isNumericFlag(cmd.name)) /\ cmd.val # <<>>
               /\ sFlagInfo' = flag(sFlagInfo, cmd.name, cmd.level = "on",
                                    cmd.val[1], isNumericFlag(cmd.name))
      BY <1>2 DEF RspSetDebug
    <2>3. cmd \in Commands /\ (cmd.level = "on") \in BOOLEAN
      BY StartupAssumption
    <2>4. cmd.val # <<>> => cmd.val[1] \in Tokens
      BY <2>3 DEF Commands
    <2>5. isNumericFlag(cmd.name) \in BOOLEAN
      BY DEF isNumericFlag
    <2>6. sFlagInfo' \in FlagInfos
      BY <2>1, <2>2, <2>3, <2>4, <2>5, FlagStateType, FlagType DEF isFlag, flagFails
    <2>7. UNCHANGED <<pc, status, tmpFd, stray, client, options, bufSize, portNum,
                      acceptFailed, announced, others>>
      BY <1>2 DEF RspSetDebug
    <2> QED
      BY <1>2, <2>6, <2>7
      DEF RspSetDebug, IInv, TypeOK, OptionsKept, PortKept, SocketsKept, options
  <1> QED
    BY <1>1, <1>2

\* The clients and the other processes
LEMMA OutsideKeeps == IInv /\ (ClientConnects \/ ClientGivesUp \/ OthersUse) => IInv'
  <1> SUFFICES ASSUME IInv, ClientConnects \/ ClientGivesUp \/ OthersUse PROVE IInv'
    OBVIOUS
  <1>1. UNCHANGED <<options, pc, status, sFlagInfo, bufSize, transport>>
    BY DEF ClientConnects, ClientGivesUp, OthersUse
  <1>2. client' \in [Clients -> {"idle", "queued", "strayQueue", "served"}]
    BY DEF ClientConnects, ClientGivesUp, OthersUse, IInv, TypeOK
  <1>3. others' \subseteq Ports
    BY StartupAssumption DEF ClientConnects, ClientGivesUp, OthersUse, IInv, TypeOK
  <1> QED
    BY <1>1, <1>2, <1>3
    DEF IInv, TypeOK, OptionsKept, PortKept, SocketsKept, options, transport

\* IInv is inductive.
LEMMA StartupInvariant == Spec => []IInv
  <1>1. Init => IInv
    <2> SUFFICES ASSUME Init PROVE IInv
      OBVIOUS
    <2>1. sFlagInfo \in FlagInfos
      BY FlagsStart DEF Init
    <2>2. bufSize \in 0 .. SizeMod - 1
      BY StartupAssumption DEF Init
    <2>3. TypeOK
      BY <2>1, <2>2 DEF Init, TypeOK, Places
    <2> QED
      BY <2>1, <2>3 DEF Init, IInv, OptionsKept, PortKept, SocketsKept
  <1>2. IInv /\ [Next]_vars => IInv'
    <2> SUFFICES ASSUME IInv, [Next]_vars PROVE IInv'
      OBVIOUS
    <2>1. CASE UNCHANGED vars
      BY <2>1
      DEF IInv, TypeOK, OptionsKept, PortKept, SocketsKept, vars, options,
          transport
    <2> QED
      BY <2>1, MainKeeps, InitKeeps, BindKeeps, ListenKeeps, AcceptKeeps, SetDebugKeeps,
         OutsideKeeps
      DEF Next, ProcessStep
  <1> QED
    BY <1>1, <1>2, PTL DEF Spec

-----------------------------------------------------------------------------
\* The process has a state and ends with a status, its flags and port are
\* such as main and init can handle, for all command lines and all commands
\* that set flags.
THEOREM TypeCorrect == Spec => []TypeOK
  BY StartupInvariant, PTL DEF IInv

\* rspConnect listens on every port it ever announced, in every session, whatever
\* ports the system picks and the other processes use.
THEOREM PortServed == Spec => []AnnouncedPortServed
  <1>1. IInv => AnnouncedPortServed
    BY DEF IInv, PortKept, AnnouncedPortServed
  <1> QED
    BY <1>1, StartupInvariant, PTL
=============================================================================
