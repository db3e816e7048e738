------------------------------- MODULE Startup -------------------------------
(***************************************************************************)
(* The life of the process: the command line (Driver.cpp), the target      *)
(* library, init (Init.cpp), and then the loop of rspServer around the     *)
(* sockets of RspConnection, each system call a step of its own, with the  *)
(* clients that connect and the other processes that use ports.            *)
(*                                                                         *)
(* A session is what GdbServer specifies; here only the commands that set  *)
(* trace flags are seen, and how it ends.                                  *)
(***************************************************************************)
EXTENDS TraceFlags

CONSTANTS
    MaxPort,      \* UINT16_MAX
    Forbidden,    \* ports that bind refuses although nobody uses them
    EphemeralPorts, \* the ports the system picks from when asked for port 0
    SizeMod,      \* number of values of std::size_t
    DefaultSize,  \* of a buffer (10000)
    MaxAlloc,     \* the largest buffer new[] can give
    CommandLines, \* the options the process is started with
    SetCommands,  \* the arguments of "monitor set debug"
    Clients

\* What cxxopts makes of the command line.  wrong: it throws.
Options ==
    [wrong : BOOLEAN, help : BOOLEAN, silent : BOOLEAN, version : BOOLEAN,
     soname : BOOLEAN, stdin : BOOLEAN, bufsize : Seq(Tokens),
     port : Seq(Tokens), trace : Seq(TraceArgs(STRING, Tokens))]

\* The words of "set debug": a flag, its state (on if left out) and, if there
\* is one, a value.
Commands == [name : STRING, level : {"on", "off", "unknown"}, val : Seq(Tokens)]

Ports == 1 .. MaxPort

ASSUME StartupAssumption ==
    /\ MaxPort \in Nat \ {0} /\ Forbidden \subseteq Ports
    /\ EphemeralPorts \subseteq Ports \ Forbidden
    /\ SizeMod \in Nat \ {0} /\ MaxAlloc \in 0 .. SizeMod - 1
    /\ DefaultSize \in 1 .. MaxAlloc
    /\ CommandLines \subseteq Options
    /\ SetCommands \subseteq Commands

\* The files dlopen may meet; only the last one makes a target.
Libraries == {"missing", "noVersion", "otherVersion", "noCreate", "noTarget", "good"}

VARIABLES
    opts, library, \* what the process is started with
    system,        \* "unix" or "windows"
    writePort,     \* argument of init; the driver's is FALSE
    pc,            \* the step the process is at
    status,        \* how it ended
    sFlagInfo,     \* TraceFlags
    bufSize,       \* RspPacket::bufSize
    portNum,       \* RspConnection::portNum
    tmpFd,         \* port the socket of rspConnect is bound to, 0: none
    stray,         \* whether an older listening socket is open
    acceptFailed,  \* whether accept has ever failed
    announced,     \* the ports ever told on stdout or in the ready file
    client,        \* where each client is
    others         \* ports in use by other processes

options == <<opts, library, system, writePort>>
transport == <<portNum, tmpFd, stray, acceptFailed, announced>>
vars == <<options, pc, status, sFlagInfo, bufSize, transport, client, others>>

Places == {"main", "load", "init", "socket", "bind", "listen", "accept", "serve", "end"}

\* The values each variable can have.
TypeOK ==
    /\ pc \in Places /\ status \in {"none", "success", "failure", "abort"}
    /\ pc = "end" <=> status # "none"
    /\ sFlagInfo \in FlagInfos
    /\ bufSize \in 0 .. SizeMod - 1
    /\ portNum \in Ports \cup {0} /\ tmpFd \in Ports \cup {0}
    /\ announced \subseteq Ports \cup {0}
    /\ stray \in BOOLEAN /\ acceptFailed \in BOOLEAN
    /\ client \in [Clients -> {"idle", "queued", "strayQueue", "served"}]
    /\ others \subseteq Ports

Init ==
    /\ opts \in CommandLines /\ library \in Libraries
    /\ system \in {"unix", "windows"} /\ writePort \in BOOLEAN
    /\ pc = "main" /\ status = "none"
    /\ sFlagInfo = FlagInfoInit
    /\ bufSize = DefaultSize
    /\ portNum = 0 /\ tmpFd = 0 /\ stray = FALSE /\ acceptFailed = FALSE
    /\ announced = {}
    /\ client = [c \in Clients |-> "idle"]
    /\ others = {}

\* The process ends; the system closes its sockets and resets the clients.
Exit(how) ==
    /\ pc' = "end" /\ status' = how
    /\ tmpFd' = 0 /\ stray' = FALSE
    /\ client' = [c \in Clients |-> "idle"]

-----------------------------------------------------------------------------
\* Driver

\* A colon in front of the port is taken away.
PortToken(o) == [o.port[Len(o.port)] EXCEPT !.colon = FALSE]

\* Seeded fault: a port above UINT16_MAX is not refused.
BadPort_NoLimit(o) ==
    Len(o.port) # 0 /\ (~IsNumber(PortToken(o)) \/ PortToken(o).n < 0)

BadPort(o) ==
    /\ Len(o.port) # 0
    /\ \/ ~IsNumber(PortToken(o))
       \/ PortToken(o).n < 0 \/ PortToken(o).n > MaxPort

BadBufSize(o) == Len(o.bufsize) # 0 /\ ~IsNumber(o.bufsize[Len(o.bufsize)])

BadTrace(o) == \E k \in DOMAIN o.trace : parseArgFails(o.trace[k])

\* How main returns before it loads the target, in the order it looks.
EarlyReturn(o) ==
    IF o.wrong THEN "failure"
    ELSE IF o.help \/ o.version THEN "success"
    ELSE IF ~o.soname \/ BadBufSize(o) \/ BadPort(o) \/ BadTrace(o)
    THEN "failure" ELSE "none"

\* The flags after -q and all the -t options.
FlagsAfter(o) ==
    LET info[k \in 0 .. Len(o.trace)] ==
            IF k = 0
            THEN IF o.silent THEN setFlagState(FlagInfoInit, "silent", TRUE)
                             ELSE FlagInfoInit
            ELSE parseArg(info[k - 1], o.trace[k])
    IN  info[Len(o.trace)]

Main ==
    /\ pc = "main"
    /\ \/ /\ EarlyReturn(opts) # "none"
          /\ Exit(EarlyReturn(opts))
          /\ UNCHANGED <<sFlagInfo, bufSize, portNum>>
       \/ /\ EarlyReturn(opts) = "none"
          /\ pc' = "load"
          /\ sFlagInfo' = FlagsAfter(opts)
          /\ bufSize' = IF Len(opts.bufsize) = 0 THEN bufSize
                        ELSE opts.bufsize[Len(opts.bufsize)].n % SizeMod
          /\ portNum' = IF Len(opts.port) = 0 THEN 0 ELSE PortToken(opts).n
          /\ UNCHANGED <<status, tmpFd, stray, client>>
    /\ UNCHANGED <<options, acceptFailed, announced, others>>

\* load_target_so, load_target_dll
LoadTarget ==
    /\ pc = "load"
    /\ \/ library \notin {"good", "noTarget"} /\ Exit("failure")
       \/ /\ library \in {"good", "noTarget"} /\ pc' = "init"
          /\ UNCHANGED <<status, tmpFd, stray, client>>
    /\ UNCHANGED <<options, sFlagInfo, bufSize, portNum, acceptFailed, announced, others>>

\* init: asserts that there is a target, and makes the buffers, the
\* connection and the server.  The stream is connected from the start.
InitServer ==
    /\ pc = "init"
    /\ \/ (library = "noTarget" \/ bufSize > MaxAlloc) /\ Exit("abort")
       \/ /\ library # "noTarget" /\ bufSize <= MaxAlloc
          /\ pc' = IF opts.stdin THEN "serve" ELSE "socket"
          /\ UNCHANGED <<status, tmpFd, stray, client>>
    /\ UNCHANGED <<options, sFlagInfo, bufSize, portNum, acceptFailed, announced, others>>

-----------------------------------------------------------------------------
\* rspConnect.  Where it returns false, rspServer returns EXIT_FAILURE.

\* The stream cannot be connected again; a socket may not be had.
OpenSocket ==
    /\ pc = "socket"
    /\ \/ Exit("failure")
       \/ ~opts.stdin /\ pc' = "bind" /\ UNCHANGED <<status, tmpFd, stray, client>>
    /\ UNCHANGED <<options, sFlagInfo, bufSize, portNum, acceptFailed, announced, others>>

\* Another process has the port, or an older socket of this one.
InUse(p) == p \in others \/ (stray /\ p = portNum)

\* A port that is listened on can be bound again on Windows, where
\* SO_REUSEADDR allows it, and not on Unix.
MayRebind == portNum # 0 /\ system = "windows"

Bind ==
    /\ pc = "bind"
    /\ \/ \E p \in IF portNum = 0 THEN EphemeralPorts ELSE {portNum} :
            /\ p \notin Forbidden /\ (InUse(p) => MayRebind)
            /\ tmpFd' = p /\ pc' = "listen"
            /\ UNCHANGED <<status, stray, client>>
       \/ /\ IF portNum = 0 THEN EphemeralPorts \subseteq others
             ELSE InUse(portNum) \/ portNum \in Forbidden
          /\ Exit("failure")
    /\ UNCHANGED <<options, sFlagInfo, bufSize, portNum, acceptFailed, announced, others>>

\* Seeded fault: the port that was picked is not asked for.
PortOf_NotAsked(sock) == portNum

\* The port of the listening socket: asked for only if the system picked it.
PortOf(sock) == IF portNum = 0 THEN sock ELSE portNum

Listen ==
    /\ pc = "listen"
    /\ \/ Exit("failure") /\ UNCHANGED <<portNum, announced>>
       \/ /\ pc' = "accept"
          /\ portNum' = PortOf(tmpFd)
          /\ announced' = IF sFlagInfo["silent"].state /\ ~writePort
                          THEN announced ELSE announced \cup {portNum'}
          /\ UNCHANGED <<status, tmpFd, stray, client>>
    /\ UNCHANGED <<options, sFlagInfo, bufSize, acceptFailed, others>>

\* Seeded fault: the listening socket stays open behind the client.
CloseListener_Forgotten(c) ==
    /\ stray' = TRUE
    /\ client' = [d \in Clients |-> IF d = c THEN "served"
                    ELSE IF client[d] = "queued" THEN "strayQueue" ELSE client[d]]

\* c has been accepted and the listening socket is closed: whoever else
\* waits there is reset.
CloseListener(c) ==
    /\ UNCHANGED stray
    /\ client' = [d \in Clients |-> IF d = c THEN "served"
                    ELSE IF client[d] = "queued" THEN "idle" ELSE client[d]]

\* accept fails: reported as "OK to retry", and the socket stays open.
AcceptFails ==
    /\ pc = "accept"
    /\ pc' = "socket"
    /\ tmpFd' = 0 /\ stray' = TRUE /\ acceptFailed' = TRUE
    /\ client' = [d \in Clients |->
                    IF client[d] = "queued" THEN "strayQueue" ELSE client[d]]
    /\ UNCHANGED <<options, status, sFlagInfo, bufSize, portNum, announced, others>>

Accept ==
    /\ pc = "accept"
    /\ \E c \in Clients : client[c] = "queued" /\ CloseListener(c)
    /\ pc' = "serve"
    /\ tmpFd' = 0
    /\ UNCHANGED <<options, status, sFlagInfo, bufSize, portNum, acceptFailed,
                   announced, others>>

-----------------------------------------------------------------------------
\* A session

\* rspSetCommand for "debug": a flag alone, with a state, or with a state and
\* a value.  An unknown flag is E01, an unknown state E02.
RspSetDebug ==
    /\ pc = "serve"
    /\ \E cmd \in SetCommands :
        \/ /\ ~isFlag(cmd.name) \/ cmd.level = "unknown"
           /\ UNCHANGED <<sFlagInfo, pc, status, tmpFd, stray, client>>
        \/ /\ isFlag(cmd.name) /\ cmd.level \in {"on", "off"} /\ cmd.val = <<>>
           /\ sFlagInfo' = setFlagState(sFlagInfo, cmd.name, cmd.level = "on")
           /\ UNCHANGED <<pc, status, tmpFd, stray, client>>
        \/ /\ isFlag(cmd.name) /\ cmd.level \in {"on", "off"} /\ cmd.val # <<>>
           /\ IF flagFails(cmd.name, cmd.val[1], isNumericFlag(cmd.name))
              THEN Exit("failure") /\ UNCHANGED sFlagInfo
              ELSE /\ sFlagInfo' = flag(sFlagInfo, cmd.name, cmd.level = "on",
                                        cmd.val[1], isNumericFlag(cmd.name))
                   /\ UNCHANGED <<pc, status, tmpFd, stray, client>>
    /\ UNCHANGED <<options, bufSize, portNum, acceptFailed, announced, others>>

\* The client detaches, is lost, or cannot be written to.
SessionEnds ==
    /\ pc = "serve"
    /\ pc' = "socket"
    /\ client' = [c \in Clients |-> IF client[c] = "served" THEN "idle" ELSE client[c]]
    /\ UNCHANGED <<options, status, sFlagInfo, bufSize, transport, others>>

\* A kill ends the server of the stream (EXIT_ON_KILL), not that of a socket.
Kill ==
    /\ pc = "serve"
    /\ opts.stdin /\ Exit("success")
    /\ UNCHANGED <<options, sFlagInfo, bufSize, portNum, acceptFailed, announced, others>>

\* "monitor exit" ends any server.
MonitorExit ==
    /\ pc = "serve"
    /\ Exit("success")
    /\ UNCHANGED <<options, sFlagInfo, bufSize, portNum, acceptFailed, announced, others>>

-----------------------------------------------------------------------------
\* The clients and the other processes

\* A client connects to a port that was announced or that the user gave.
KnownPorts ==
    announced \cup IF opts.port = <<>> THEN {} ELSE {PortToken(opts).n}

ClientConnects ==
    /\ \E c \in Clients :
        /\ client[c] = "idle"
        /\ \/ /\ pc = "accept" /\ tmpFd \in KnownPorts
              /\ client' = [client EXCEPT ![c] = "queued"]
           \/ /\ stray /\ portNum \in KnownPorts
              /\ client' = [client EXCEPT ![c] = "strayQueue"]
    /\ UNCHANGED <<options, pc, status, sFlagInfo, bufSize, transport, others>>

ClientGivesUp ==
    /\ \E c \in Clients :
        /\ client[c] \in {"queued", "strayQueue"}
        /\ client' = [client EXCEPT ![c] = "idle"]
    /\ UNCHANGED <<options, pc, status, sFlagInfo, bufSize, transport, others>>

OthersUse ==
    /\ pc \notin {"main", "load", "init", "end"}
    /\ \E p \in EphemeralPorts :
        \/ /\ p \notin others /\ tmpFd # p /\ ~(stray /\ p = portNum)
           /\ others' = others \cup {p}
        \/ p \in others /\ others' = others \ {p}
    /\ UNCHANGED <<options, pc, status, sFlagInfo, bufSize, transport, client>>

-----------------------------------------------------------------------------
ProcessStep == Main \/ LoadTarget \/ InitServer \/ OpenSocket \/ Bind \/ Listen

Next ==
    \/ ProcessStep \/ Accept \/ AcceptFails
    \/ RspSetDebug \/ SessionEnds \/ Kill \/ MonitorExit
    \/ ClientConnects \/ ClientGivesUp \/ OthersUse

\* The process takes its steps; accept returns when a client is there.
Spec == Init /\ [][Next]_vars /\ WF_vars(ProcessStep) /\ WF_vars(Accept)

-----------------------------------------------------------------------------
\* Properties

\* Every port that a client was ever told is the one the server listens on:
\* what was told for the first session is still so in every later one,
\* although the system picked it; and if none was told, the user wanted
\* silence.
AnnouncedPortServed ==
    pc = "accept" =>
        /\ announced \subseteq {tmpFd}
        /\ announced = {} => sFlagInfo["silent"].state /\ ~writePort

\* A client that has connected is served or told that it is not.
ClientNotLeft ==
    \A c \in Clients :
        (client[c] \in {"queued", "strayQueue"})
            ~> (client[c] \in {"idle", "served"} \/ acceptFailed)

\* A server that could listen can do so again unless another process has
\* taken its port, or it never might ("OK to retry", RspConnectionUnix.cpp:130).
RetryCanBind ==
    [][(pc = "bind" /\ pc' = "end") => portNum \in others \cup Forbidden \cup {0}]_vars
=============================================================================
