------------------------------ MODULE GdbServer ------------------------------
(***************************************************************************)
(* The server proper (lib/server/GdbServer.cpp): the loop that accepts a   *)
(* client and serves its packets, the run control it does on behalf of the *)
(* client, and the host system calls it forwards to the client.            *)
(*                                                                         *)
(* The server is one thread.  A packet is read and handled in one step,    *)
(* except that a handler which resumes the target stays in the loop around *)
(* ITarget::wait: there the target, the clock, the client's break          *)
(* character and the loss of the client interleave with the server.        *)
(*                                                                         *)
(* The client is GDB: it answers a host system call with an F packet,      *)
(* until then it sends nothing but memory accesses, and it sends a break   *)
(* only while it waits for a stop reply.  The target obeys ITarget.h,      *)
(* except for the failures TargetFaults lists.                             *)
(***************************************************************************)
EXTENDS VContActions, SyscallReply, Timeout, FiniteSets

CONSTANTS
    NumCores,        \* ITarget::getCpuCount ()
    Transport,       \* "socket" or "stream" (Init.cpp)
    UintMod,         \* number of values of an unsigned int (2^32 in the build)
    Requests,        \* what the client does in this instance
    VContPackets,    \* bodies of the vCont, c, C, s and S packets it sends
    HgTexts,         \* identifiers it selects with Hg
    FPackets,        \* its replies to system calls
    KillPids,        \* process numbers it kills (0 also stands for non-hex text)
    TimeoutValues,   \* limits it gives to "monitor timeout" and the like
    MaxTicks,        \* bound on the seconds of one run of the target
    MaxCycles,       \* bound on its cycles
    CycleStamps,     \* cycle counts at which the target is resumed
    StopResults,     \* results other than NONE the target's wait () gives
    Syscalls,        \* kinds of system call the target's program makes
    SupportAnswers,  \* what ITarget::getSyscallArgLocs may answer
    TargetFaults     \* calls of the target that may fail

Cores == 0 .. NumCores - 1
NoCore == -1

ResumeType == {"STEP", "CONTINUE", "NONE"}
ResumeRes == {"NONE", "SUCCESS", "FAILURE", "INTERRUPTED", "TIMEOUT",
              "SYSCALL", "STEPPED", "LOCKSTEP"}
SyscallKinds == {"file", "exit", "unknown"}
Faults == {"resume", "halt", "error", "size", "silent", "reset", "args"}
RequestKinds == {"vCont", "F", "mem", "?", "i", "Hg", "qC", "qSupported",
                 "QStartNoAckMode", "vKill", "D", "other", "threads", "query",
                 "command", "set", "show", "reset", "exit", "timeout",
                 "cycle-timeout", "kill-core-on-exit", "break", "vanish"}

ASSUME GdbServerAssumption ==
    /\ NumCores \in Nat \ {0}
    /\ UintMod \in Nat /\ UintMod > NumCores + 1 /\ UintMod = IntMod
    /\ Transport \in {"socket", "stream"}
    /\ Requests \subseteq RequestKinds
    /\ VContPackets \subseteq VContPacketsType
    /\ HgTexts \subseteq PtidTexts
    /\ FPackets \subseteq FPacketsType
    /\ KillPids \subseteq Nat
    /\ TimeoutValues \subseteq Nat
    /\ MaxTicks \in Nat
    /\ MaxCycles \in Nat
    /\ CycleStamps \subseteq 0 .. CycleMod - 1
    /\ StopResults \subseteq ResumeRes \ {"NONE"}
    /\ Syscalls \subseteq SyscallKinds
    /\ SupportAnswers \subseteq BOOLEAN
    /\ TargetFaults \subseteq Faults

VARIABLES
    \* CoreManager and its CoreStates
    stopReason, resumeType, stopReported, isLive, mLiveCores,
    \* the other members of GdbServer that handlers read
    mPtid, mHandlingSyscall, mHaveSyscallArgLocs, mHaveSyscallSupport,
    mKillCoreOnExit, mHaveMultiProc, mTimeout, mNextProcess,
    phase,             \* where the thread is; mExitServer and isConnected ()
    \* the target: selected core, actions handed to prepare ()
    currentCpu, prepared,
    \* Timeout::timeStamp: the cycle count it read, and the seconds and the
    \* cycles that have passed since
    mCycleStamp, elapsed, cycles,
    r10,               \* what the server last wrote to register 10 of each core
    \* AbstractConnection
    mNoAckMode, mHavePendingBreak,
    \* the client: break sent and not yet read, core whose system call it is
    \* serving, whether it is gone, the last packet put out to it, the
    \* processes of the enumeration it is making, and the result it last gave
    \* for a system call of each core
    breakInFlight, fileIO, peerGone, reply, listed, meant

runVars == <<stopReason, stopReported>>
lifeVars == <<isLive, mLiveCores>>
sysVars == <<mHandlingSyscall, mHaveSyscallArgLocs, mHaveSyscallSupport>>
confVars == <<mPtid, mKillCoreOnExit, mHaveMultiProc, mTimeout, mNoAckMode,
              mNextProcess, listed, r10, meant>>
planVars == <<resumeType, prepared>>
clockVars == <<mCycleStamp, elapsed, cycles>>
targetVars == <<currentCpu, mCycleStamp, elapsed, cycles>>
linkVars == <<mHavePendingBreak, breakInFlight, fileIO>>
vars == <<runVars, lifeVars, sysVars, confVars, planVars, targetVars,
          linkVars, phase, peerGone, reply>>

\* Places where the process ends through Utils::fatalError or an assert.
Aborts == {"abort_halt", "abort_resume", "abort_wait", "abort_results",
           "abort_pending", "abort_noEvent", "abort_stop", "abort_nested",
           "abort_query", "abort_index", "abort_reset", "abort_args",
           "abort_hex", "abort_flag"}
Phases == {"connect", "request", "wait", "exited", "failed"} \cup Aborts

ReplyKinds == {"none", "OK", "E00", "E01", "E02", "E04", "empty", "data", "QC",
               "m", "l", "stop", "exit", "file"}
TargetSignal == {"NONE", "INT", "TRAP", "XCPU", "USR1"}

\* A packet: its kind, its signal, the process it names (0: none), and the
\* process the client takes to be selected once it has read it (0: it does
\* not know), which GDB keeps as its general thread.
Replies == [kind : ReplyKinds, sig : TargetSignal, pid : Int, thread : Int]

StateTypeOK ==
    /\ stopReason \in [Cores -> ResumeRes]
    /\ stopReported \in [Cores -> BOOLEAN]
    /\ isLive \in [Cores -> BOOLEAN]
    /\ mLiveCores \in 0 .. UintMod - 1
    /\ mHandlingSyscall \in BOOLEAN
    /\ mHaveSyscallArgLocs \in BOOLEAN
    /\ mHaveSyscallSupport \in BOOLEAN
    /\ currentCpu \in Nat
    /\ mCycleStamp \in 0 .. CycleMod - 1
    /\ elapsed \in Nat
    /\ cycles \in Nat
    /\ mHavePendingBreak \in BOOLEAN
    /\ breakInFlight \in BOOLEAN
    /\ fileIO \in Cores \cup {NoCore}
    /\ phase \in Phases
    /\ reply \in Replies

PlanTypeOK ==
    /\ resumeType \in [Cores -> ResumeType]
    /\ prepared \in [Cores -> ResumeType]

ConfTypeOK ==
    /\ mPtid \in Ptids
    /\ mKillCoreOnExit \in BOOLEAN
    /\ mHaveMultiProc \in BOOLEAN
    /\ mTimeout \in Timeouts
    /\ mNoAckMode \in BOOLEAN
    /\ peerGone \in BOOLEAN
    /\ mNextProcess \in 0 .. UintMod - 1
    /\ listed \in Seq(Nat)
    /\ r10 \in [Cores -> Ints]
    /\ meant \in [Cores -> Ints]

\* The values each variable can have.
TypeOK == StateTypeOK /\ PlanTypeOK /\ ConfTypeOK

-----------------------------------------------------------------------------
\* CoreManager

IsRunning(rt, i) == rt[i] # "NONE"

Init ==
    /\ stopReason = [i \in Cores |-> "INTERRUPTED"]
    /\ resumeType = [i \in Cores |-> "NONE"]
    /\ stopReported = [i \in Cores |-> TRUE]
    /\ isLive = [i \in Cores |-> TRUE]
    /\ mLiveCores = NumCores
    /\ mPtid = [pid |-> PID_DEFAULT, tid |-> TID_DEFAULT]
    /\ mHandlingSyscall = FALSE
    /\ mHaveSyscallArgLocs = FALSE
    /\ mHaveSyscallSupport = FALSE
    /\ mKillCoreOnExit = FALSE
    /\ mHaveMultiProc = FALSE
    /\ mTimeout = noTimeout
    /\ mNextProcess = 1
    /\ phase = IF Transport = "stream" THEN "request" ELSE "connect"
    /\ currentCpu = 0
    /\ prepared = [i \in Cores |-> "NONE"]
    /\ mCycleStamp = 0
    /\ elapsed = 0
    /\ cycles = 0
    /\ mNoAckMode = FALSE
    /\ mHavePendingBreak = FALSE
    /\ breakInFlight = FALSE
    /\ fileIO = NoCore
    /\ peerGone = FALSE
    /\ reply = [kind |-> "none", sig |-> "NONE", pid |-> 0, thread |-> 0]
    /\ listed = <<>>
    /\ r10 = [i \in Cores |-> 0]
    /\ meant = [i \in Cores |-> 0]

\* CoreManager::reset: new CoreStates, all cores live.  The actions the
\* target was last prepared with are not the manager's.
CoreManagerReset ==
    /\ stopReason' = [i \in Cores |-> "INTERRUPTED"]
    /\ resumeType' = [i \in Cores |-> "NONE"]
    /\ stopReported' = [i \in Cores |-> TRUE]
    /\ isLive' = [i \in Cores |-> TRUE]
    /\ mLiveCores' = NumCores

\* Seeded fault: the count of live cores is a signed number.
KillCoreNum_NoWrap(i) ==
    /\ isLive' = [isLive EXCEPT ![i] = FALSE]
    /\ mLiveCores' = mLiveCores - 1

\* CoreManager::killCoreNum for a core that exists.
KillCoreNum(i) ==
    /\ isLive' = [isLive EXCEPT ![i] = FALSE]
    /\ mLiveCores' = (mLiveCores - 1) % UintMod

-----------------------------------------------------------------------------
\* Packets put out to the client.

Answer(kind) ==
    reply' = [kind |-> kind, sig |-> "NONE", pid |-> 0, thread |-> reply.thread]

\* The process a stop or exit packet names: none to a client that does not
\* know of processes.
NamedPid(cpu) == IF mHaveMultiProc THEN cpu + 1 ELSE 0

\* rspReportException; GDB takes the core it names as selected.
ReportException(sig, cpu) ==
    reply' = [kind |-> "stop", sig |-> sig, pid |-> NamedPid(cpu),
              thread |-> NamedPid(cpu)]

\* Seeded fault: a break before the acknowledgement is skipped.
PutPkt_DropsBreak(remembered, inStream) ==
    /\ mHavePendingBreak' = remembered
    /\ breakInFlight' = FALSE

\* putPkt as far as breaks go: a break that reaches the server before the
\* acknowledgement is remembered, and without acknowledgements it is left
\* for getPkt, which skips it.  remembered is mHavePendingBreak before.
\* If the client is gone putPkt may fail before it has read the break.
PutPkt(remembered, inStream) ==
    /\ \/ mHavePendingBreak' = (remembered \/ (inStream /\ ~mNoAckMode))
       \/ peerGone /\ mHavePendingBreak' = remembered
    /\ breakInFlight' = FALSE

\* A break may reach the server between the packet that resumes the target
\* and haveBreak (), or between haveBreak () and the next acknowledgement.
BreakArrivals == IF "break" \in Requests THEN {"no", "early", "late"} ELSE {"no"}
HaveBreak(arrival) == mHavePendingBreak \/ arrival = "early"
StillInStream(arrival) ==
    arrival = "late" \/ (arrival = "early" /\ mHavePendingBreak)

-----------------------------------------------------------------------------
\* Host system calls and stop events

\* The clocks are not read again before the next time stamp.
ClocksStop ==
    /\ elapsed' = 0
    /\ cycles' = 0
    /\ UNCHANGED mCycleStamp

\* Timeout::timeStamp
TimeStamp ==
    /\ mCycleStamp' \in CycleStamps
    /\ elapsed' = 0
    /\ cycles' = 0

\* Back to the loop of rspServer with the client still connected.  The
\* target has halted all cores before wait () returned an event (ITarget.h);
\* where the code calls halt () once more and ignores the result (exit, F
\* with Ctrl-C), a failure changes nothing the server knows.
BackToClient ==
    /\ ClocksStop
    /\ phase' = "request"

\* What rspSyscallRequest does about a call, when it is not nested.
SyscallOutcomes(supported) == IF supported THEN Syscalls ELSE {"unsupported"}

\* Seeded fault: exit leaves the flag set.
HandlingAfter_Always(outcome) == TRUE

\* mHandlingSyscall when rspSyscallRequest returns: an exit has no reply; a
\* call that is refused has none either, but the flag stays set.
HandlingAfter(outcome) == outcome # "exit"

SyscallPacket(outcome, i) ==
    CASE outcome = "file" -> Answer("file")
      [] outcome = "exit" ->
            reply' = [kind |-> "exit", sig |-> "NONE", pid |-> NamedPid(i),
                      thread |-> 0]
      [] OTHER -> ReportException("TRAP", i)

\* rspSyscallRequest for core i, with handling the value of
\* mHandlingSyscall, which it asserts to be false.  The target is asked
\* for its system call interface at the first call; that it has three
\* arguments, and that those in memory can be read, is asserted as well.
RspSyscallRequest(i, handling) ==
    \/ /\ handling
       /\ phase' = "abort_nested"
       /\ ClocksStop
       /\ mHandlingSyscall' = handling
       /\ fileIO' = NoCore
       /\ UNCHANGED <<mHaveSyscallArgLocs, mHaveSyscallSupport, lifeVars, reply>>
    \/ /\ ~handling
       /\ BackToClient
       /\ mHaveSyscallArgLocs' = TRUE
       /\ mHaveSyscallSupport' \in IF mHaveSyscallArgLocs
                                   THEN {mHaveSyscallSupport} ELSE SupportAnswers
       /\ \E outcome \in SyscallOutcomes(mHaveSyscallSupport') :
            /\ SyscallPacket(outcome, i)
            /\ mHandlingSyscall' = HandlingAfter(outcome)
            /\ fileIO' = IF outcome = "file" THEN i ELSE NoCore
            /\ IF outcome = "exit" THEN KillCoreNum(i) ELSE UNCHANGED lifeVars
    \/ /\ ~handling
       /\ "args" \in TargetFaults
       /\ mHaveSyscallArgLocs' = TRUE
       /\ mHaveSyscallSupport' \in (IF mHaveSyscallArgLocs
                                    THEN {mHaveSyscallSupport}
                                    ELSE SupportAnswers) \cap {TRUE}
       /\ phase' = "abort_args"
       /\ ClocksStop
       /\ mHandlingSyscall' = TRUE
       /\ fileIO' = NoCore
       /\ UNCHANGED <<lifeVars, reply>>

\* Seeded fault: only system calls count as events.
StopEvents_CallsOnly(rt, sr, rep) ==
    {i \in Cores : IsRunning(rt, i) /\ ~rep[i] /\ sr[i] = "SYSCALL"}

\* The stop events not yet reported, given the cores' resume types rt, stop
\* reasons sr and reported flags rep.
StopEvents(rt, sr, rep) ==
    {i \in Cores : IsRunning(rt, i) /\ ~rep[i] /\ sr[i] # "NONE"}

\* Seeded fault: the first core with an event, whatever the event.
IsNextStopEvent_NoPriority(i, rt, sr, rep) ==
    LET events == StopEvents(rt, sr, rep)
    IN  i \in events /\ \A j \in events : i <= j

\* getNextStopEvent chooses core i: the first core with a system call, or
\* the first core with any event when none has a system call.
IsNextStopEvent(i, rt, sr, rep) ==
    LET events == StopEvents(rt, sr, rep)
        calls  == {j \in events : sr[j] = "SYSCALL"}
    IN  /\ i \in events
        /\ calls # {} => i \in calls
        /\ \A j \in IF calls # {} THEN calls ELSE events : i <= j

StopSignal(reason) == IF reason = "LOCKSTEP" THEN "USR1" ELSE "TRAP"

\* Seeded fault: one report clears the events of all cores.
ReportStopReason_All(rep, i) == [j \in Cores |-> TRUE]

ReportStopReason(rep, i) == [rep EXCEPT ![i] = TRUE]

\* Seeded fault: the selected core stays as it was.
SetCurrentCpu_Keeps(i) == UNCHANGED currentCpu

SetCurrentCpu(i) == currentCpu' = i

\* processStopEvents when there is an event; handling is the value of
\* mHandlingSyscall, inStream says whether a break precedes the next
\* acknowledgement.  It assigns all but planVars, confVars and peerGone.
ProcessStopEvent(rt, sr, rep, handling, inStream) ==
    \E i \in Cores :
        /\ IsNextStopEvent(i, rt, sr, rep)
        /\ stopReason' = sr
        /\ stopReported' = ReportStopReason(rep, i)
        /\ SetCurrentCpu(i)
        /\ PutPkt(mHavePendingBreak, inStream)
        /\ \/ /\ sr[i] = "SYSCALL"
              /\ RspSyscallRequest(i, handling)
           \/ /\ sr[i] \in {"INTERRUPTED", "STEPPED", "LOCKSTEP"}
              /\ ReportException(StopSignal(sr[i]), i)
              /\ BackToClient
              /\ mHandlingSyscall' = handling
              /\ fileIO' = NoCore
              /\ UNCHANGED <<mHaveSyscallArgLocs, mHaveSyscallSupport, lifeVars>>
           \/ /\ sr[i] \in {"SUCCESS", "FAILURE", "TIMEOUT"}
              /\ phase' = "abort_stop"
              /\ ClocksStop
              /\ mHandlingSyscall' = handling
              /\ fileIO' = NoCore
              /\ UNCHANGED <<mHaveSyscallArgLocs, mHaveSyscallSupport, lifeVars,
                             reply>>

\* halt () the target and report sig.  Nothing is said about the link.
HaltAndReport(sig, handling) ==
    /\ mHandlingSyscall' = handling
    /\ fileIO' = NoCore
    /\ UNCHANGED <<runVars, lifeVars, mHaveSyscallArgLocs,
                   mHaveSyscallSupport, currentCpu>>
    /\ \/ /\ ReportException(sig, currentCpu)
          /\ BackToClient
       \/ /\ "halt" \in TargetFaults
          /\ phase' = "abort_halt"
          /\ UNCHANGED <<reply, clockVars>>

\* doCoreActions up to the first wait (), with the resume types rt.
DoCoreActions(rt, handling) ==
    \E arrival \in BreakArrivals :
        \/ /\ HaveBreak(arrival)
           /\ PutPkt(FALSE, StillInStream(arrival))
           /\ HaltAndReport("INT", handling)
        \/ /\ ~HaveBreak(arrival)
           /\ ProcessStopEvent(rt, stopReason, stopReported, handling,
                               StillInStream(arrival))
        \/ /\ ~HaveBreak(arrival)
           /\ StopEvents(rt, stopReason, stopReported) = {}
           /\ TimeStamp
           /\ mHandlingSyscall' = handling
           /\ fileIO' = NoCore
           /\ mHavePendingBreak' = FALSE
           /\ breakInFlight' = (arrival = "late")
           /\ UNCHANGED <<runVars, lifeVars, mHaveSyscallArgLocs,
                          mHaveSyscallSupport, currentCpu, reply>>
           /\ \/ phase' = "wait"
              \/ "resume" \in TargetFaults /\ phase' = "abort_resume"

-----------------------------------------------------------------------------
\* The loop around ITarget::wait in doCoreActions.

\* Seeded fault: the clock is read only when there is a break as well.
TimedOut_WithBreak ==
    breakInFlight /\ timedOut(mTimeout, elapsed, mCycleStamp, cycles)

\* Seeded fault: a limit in cycles is not looked at.
TimedOut_RealOnly ==
    mTimeout.type = "REAL" /\ timedOut(mTimeout, elapsed, mCycleStamp, cycles)

TimedOut == timedOut(mTimeout, elapsed, mCycleStamp, cycles)

\* The wall clock, and the cycle count of the target.
Tick ==
    /\ phase = "wait"
    /\ elapsed < MaxTicks
    /\ elapsed' = elapsed + 1
    /\ UNCHANGED <<runVars, lifeVars, sysVars, confVars, planVars, currentCpu,
                   mCycleStamp, cycles, linkVars, phase, peerGone, reply>>

CycleTick ==
    /\ phase = "wait"
    /\ cycles < MaxCycles
    /\ cycles' = cycles + 1
    /\ UNCHANGED <<runVars, lifeVars, sysVars, confVars, planVars, currentCpu,
                   mCycleStamp, elapsed, linkVars, phase, peerGone, reply>>

\* wait () gave TIMEOUT and a break is there.
WaitBreak ==
    /\ phase = "wait"
    /\ breakInFlight
    /\ mHavePendingBreak' = FALSE
    /\ breakInFlight' = FALSE
    /\ HaltAndReport("INT", mHandlingSyscall)
    /\ UNCHANGED <<planVars, confVars, peerGone>>

\* wait () gave TIMEOUT, there is no break and no timeout: once more.  A
\* client that is gone looks the same as one that is silent.
WaitAgain ==
    /\ phase = "wait"
    /\ ~breakInFlight
    /\ ~TimedOut
    /\ UNCHANGED vars

\* wait () gave TIMEOUT, there was no break, and the time is over.  A break
\* sent meanwhile is read with the acknowledgement of the report.
WaitTimedOut ==
    /\ phase = "wait"
    /\ ~breakInFlight
    /\ TimedOut
    /\ \E arrival \in BreakArrivals : PutPkt(FALSE, arrival # "no")
    /\ HaltAndReport("XCPU", mHandlingSyscall)
    /\ UNCHANGED <<planVars, confVars, peerGone>>

\* wait () gave EVENT_OCCURRED, all cores are halted, results has the
\* outcome of every running core.
WaitEvent ==
    /\ phase = "wait"
    /\ \E results \in [Cores -> StopResults \cup {"NONE"}] :
        LET ran == {i \in Cores : IsRunning(resumeType, i)}
            sr  == [i \in Cores |-> IF i \in ran THEN results[i]
                                                 ELSE stopReason[i]]
            rep == [i \in Cores |-> IF i \in ran THEN results[i] = "NONE"
                                                 ELSE stopReported[i]]
        IN  /\ \A i \in Cores \ ran : results[i] = "NONE"
            /\ (\E i \in ran : results[i] # "NONE") \/ "silent" \in TargetFaults
            /\ IF \E i \in ran : ~stopReported[i]
               THEN /\ phase' = "abort_pending"
                    /\ UNCHANGED <<runVars, lifeVars, sysVars, targetVars,
                                   linkVars, reply>>
               ELSE \/ ProcessStopEvent(resumeType, sr, rep, mHandlingSyscall,
                                        breakInFlight)
                    \/ /\ StopEvents(resumeType, sr, rep) = {}
                       /\ phase' = "abort_noEvent"
                       /\ UNCHANGED <<runVars, lifeVars, sysVars, targetVars,
                                      linkVars, reply>>
    /\ UNCHANGED <<planVars, confVars, peerGone>>

\* wait () gave ERROR, or results of the wrong size.
WaitFault ==
    /\ phase = "wait"
    /\ \/ "error" \in TargetFaults /\ phase' = "abort_wait"
       \/ "size" \in TargetFaults /\ phase' = "abort_results"
    /\ UNCHANGED <<runVars, lifeVars, sysVars, confVars, planVars, targetVars,
                   linkVars, peerGone, reply>>

-----------------------------------------------------------------------------
\* rspClientRequest: one packet.  k is the kind of packet.

Receive(k) ==
    /\ phase = "request"
    /\ ~peerGone
    /\ k \in Requests
    /\ IF fileIO = NoCore THEN k # "F" ELSE k \in {"F", "mem"}

coreState == <<runVars, lifeVars, sysVars, planVars, targetVars, linkVars>>

\* Seeded fault: a core that has exited is resumed like any other.
ActionType_Dead(letter, live) ==
    IF letter = "NUL" THEN "NONE"
    ELSE IF letter \in {"c", "C"} THEN "CONTINUE" ELSE "STEP"

\* The resume type rspVCont derives from an action letter, for a core that
\* is live or not.
ActionType(letter, live) ==
    IF letter = "NUL" \/ ~live THEN "NONE"
    ELSE IF letter \in {"c", "C"} THEN "CONTINUE" ELSE "STEP"

\* rspVCont.  Cores are set one after the other, so a letter that is not
\* understood leaves the cores before it changed and the target not
\* prepared.
RspVCont ==
    /\ Receive("vCont")
    /\ \E actions \in VContPackets :
        LET letter(i) == getCoreAction(actions, i + 1)
            Refused(i) == letter(i) \notin {"NUL", "c", "C", "s", "S"}
            plan == [i \in Cores |->
                        IF \E j \in 0 .. i : Refused(j) THEN resumeType[i]
                        ELSE ActionType(letter(i), isLive[i])]
        IN  \/ /\ parseAborts(actions)
               /\ phase' = "abort_hex"
               /\ UNCHANGED <<coreState, reply>>
            \/ /\ ~parseAborts(actions)
               /\ ~validActions(actions)
               /\ Answer("E01")
               /\ UNCHANGED <<coreState, phase>>
            \/ /\ ~parseAborts(actions) /\ validActions(actions)
               /\ \E i \in Cores : Refused(i)
               /\ resumeType' = plan
               /\ Answer("E01")
               /\ UNCHANGED <<runVars, lifeVars, sysVars, prepared, targetVars,
                              linkVars, phase>>
            \/ /\ ~parseAborts(actions) /\ validActions(actions)
               /\ \A i \in Cores : ~Refused(i)
               /\ resumeType' = plan
               /\ prepared' = plan
               /\ DoCoreActions(plan, mHandlingSyscall)
    /\ UNCHANGED <<confVars, peerGone>>

\* The result that the server takes for nothing to write.
NoResult == -1

\* rspSyscallReply (whose assert is the guard on mHandlingSyscall).  The
\* result is written unless it is -1.  A reply with the Ctrl-C mark stops
\* the target, any other one, well formed or not, goes on.  After its
\* report the handler discards a pending break.
RspSyscallReply ==
    /\ Receive("F")
    /\ mHandlingSyscall
    /\ \E p \in FPackets :
        /\ r10' = IF valid(p) /\ retcode(p) # -1
                  THEN [r10 EXCEPT ![currentCpu] = retcode(p)] ELSE r10
        /\ meant' = [meant EXCEPT ![fileIO] =
                        IF IsGdbReply(p) THEN Meaning(p) ELSE NoResult]
        /\ \/ /\ valid(p) /\ hasCtrlC(p)
              /\ mHandlingSyscall' = FALSE
              /\ BackToClient
              /\ ReportException("INT", currentCpu)
              /\ mHavePendingBreak' = FALSE
              /\ breakInFlight' = FALSE
              /\ fileIO' = NoCore
              /\ UNCHANGED <<runVars, lifeVars, mHaveSyscallArgLocs,
                             mHaveSyscallSupport, currentCpu>>
           \/ /\ ~(valid(p) /\ hasCtrlC(p))
              /\ DoCoreActions(resumeType, FALSE)
    /\ UNCHANGED <<planVars, mPtid, mKillCoreOnExit, mHaveMultiProc, mTimeout,
                   mNoAckMode, mNextProcess, listed, peerGone>>

\* Memory and register accesses: g, G, m, M, p, P, X.
RspAccess ==
    /\ Receive("mem")
    /\ \E kind \in {"data", "OK", "E01"} : Answer(kind)
    /\ UNCHANGED <<coreState, confVars, phase, peerGone>>

\* Packets that rspClientRequest just answers, and the sets of rspSet that
\* nothing reads.
RspOther ==
    /\ Receive("other")
    /\ \E kind \in {"OK", "E01", "E02", "empty"} : Answer(kind)
    /\ UNCHANGED <<coreState, confVars, phase, peerGone>>

\* Queries that rspQuery answers without keeping anything: qL, qSymbol,
\* qThreadExtraInfo, qXfer and unknown ones.
RspQuery ==
    /\ Receive("query")
    /\ \E kind \in {"data", "OK", "E00", "empty"} : Answer(kind)
    /\ UNCHANGED <<coreState, confVars, phase, peerGone>>

\* Monitor commands that report or are passed to the target; the lines of
\* text before the last packet are left out.
RspCommand ==
    /\ Receive("command")
    /\ \E kind \in {"OK", "E01"} : Answer(kind)
    /\ UNCHANGED <<coreState, confVars, phase, peerGone>>

\* "monitor set" of a trace flag, or passed to the target.  A number that
\* cannot be read ends the process.
RspSetCommand ==
    /\ Receive("set")
    /\ \/ /\ \E kind \in {"OK", "E01", "E02", "E04"} : Answer(kind)
          /\ UNCHANGED phase
       \/ phase' = "abort_flag" /\ UNCHANGED reply
    /\ UNCHANGED <<coreState, confVars, peerGone>>

\* "monitor show"
RspShowCommand ==
    /\ Receive("show")
    /\ \E kind \in {"OK", "E01", "E04"} : Answer(kind)
    /\ UNCHANGED <<coreState, confVars, phase, peerGone>>

\* Seeded fault: the core that follows a skipped one is skipped as well.
SkippedProcess_Next(p) ==
    \E q \in {p, p - 1} : q - 1 \in Cores /\ mKillCoreOnExit /\ ~isLive[q - 1]

\* A process that an enumeration leaves out: its core has exited or was
\* killed, and such cores are to count as gone.
SkippedProcess(p) == p - 1 \in Cores /\ mKillCoreOnExit /\ ~isLive[p - 1]

\* rspWriteNextThreadInfo, which starts to look at process next.  The
\* numbers are unsigned, and every number but 1 .. NumCores ends the list.
RspWriteNextThreadInfo(next, before) ==
    \E p \in next .. UintMod - 1 :
        /\ ~SkippedProcess(p)
        /\ \A q \in next .. p - 1 : SkippedProcess(q)
        /\ mNextProcess' = (p + 1) % UintMod
        /\ \/ /\ p - 1 \in Cores
              /\ reply' = [kind |-> "m", sig |-> "NONE", pid |-> p,
                           thread |-> reply.thread]
              /\ listed' = Append(before, p)
           \/ /\ p - 1 \notin Cores
              /\ Answer("l")
              /\ listed' = before

\* qfThreadInfo, and qsThreadInfo, which GDB sends as long as it is
\* answered with a thread.
RspThreadInfo ==
    /\ Receive("threads")
    /\ \/ reply.kind # "m" /\ RspWriteNextThreadInfo(1, <<>>)
       \/ reply.kind = "m" /\ RspWriteNextThreadInfo(mNextProcess, listed)
    /\ UNCHANGED <<coreState, mPtid, mKillCoreOnExit, mHaveMultiProc, mTimeout,
                   mNoAckMode, r10, meant, phase, peerGone>>

\* '?': the stop reason of the selected core, answered only if it was
\* interrupted.  The lookup asserts that there is such a core.
RspLastSignal ==
    /\ Receive("?")
    /\ \/ /\ currentCpu \in Cores
          /\ stopReason[currentCpu] = "INTERRUPTED"
          /\ ReportException("TRAP", currentCpu)
          /\ UNCHANGED phase
       \/ /\ currentCpu \in Cores
          /\ stopReason[currentCpu] # "INTERRUPTED"
          /\ phase' = "abort_query"
          /\ UNCHANGED reply
       \/ /\ currentCpu \notin Cores
          /\ phase' = "abort_index"
          /\ UNCHANGED reply
    /\ UNCHANGED <<coreState, confVars, peerGone>>

\* 'i' and 'I': a stop is reported, nothing is run.
RspSingleCycle ==
    /\ Receive("i")
    /\ ReportException("TRAP", currentCpu)
    /\ UNCHANGED <<coreState, confVars, phase, peerGone>>

\* The process the client names in an Hg, 0 if it leaves that open.
AskedPid(text) ==
    IF text.form # "tid" /\ text.pid.kind = "hex" THEN text.pid.val ELSE 0

\* Seeded fault: the process number is used as the core number.
CoreOf_Pid(ptid) == ptid.pid

\* The core that setCurrentCpu is given.
CoreOf(ptid) == ptid.pid - 1

\* Hg: mPtid keeps what decode () stored even if crystalize () refuses it.
RspSelect ==
    /\ Receive("Hg")
    /\ \E text \in HgTexts :
        LET read == decode(mPtid, text)
        IN  \/ /\ decodeAborts(text)
               /\ phase' = "abort_hex"
               /\ UNCHANGED <<mPtid, currentCpu, reply>>
            \/ /\ ~decodeAborts(text)
               /\ decodes(mPtid, text) /\ crystalizes(read)
               /\ mPtid' = crystalize(read, PID_DEFAULT, TID_DEFAULT)
               /\ currentCpu' = CoreOf(mPtid')
               /\ reply' = [kind |-> "OK", sig |-> "NONE", pid |-> 0,
                            thread |-> AskedPid(text)]
               /\ UNCHANGED phase
            \/ /\ ~decodeAborts(text)
               /\ ~(decodes(mPtid, text) /\ crystalizes(read))
               /\ mPtid' = read
               /\ Answer("E01")
               /\ UNCHANGED <<currentCpu, phase>>
    /\ UNCHANGED <<runVars, lifeVars, sysVars, planVars, clockVars, linkVars,
                   mKillCoreOnExit, mHaveMultiProc, mTimeout, mNoAckMode,
                   mNextProcess, listed, r10, meant, peerGone>>

\* qC
RspQueryCurrent ==
    /\ Receive("qC")
    /\ IF encodes(mPtid)
       THEN reply' = [kind |-> "QC", sig |-> "NONE", pid |-> mPtid.pid,
                      thread |-> reply.thread]
       ELSE Answer("E01")
    /\ UNCHANGED <<coreState, confVars, phase, peerGone>>

\* qSupported: multiprocess mode is what the client asks for, every time.
RspQuerySupported ==
    /\ Receive("qSupported")
    /\ mHaveMultiProc' \in BOOLEAN
    /\ Answer("data")
    /\ UNCHANGED <<coreState, mPtid, mKillCoreOnExit, mTimeout, mNoAckMode,
                   mNextProcess, listed, r10, meant, phase, peerGone>>

\* QStartNoAckMode
RspStartNoAckMode ==
    /\ Receive("QStartNoAckMode")
    /\ mNoAckMode' = TRUE
    /\ Answer("OK")
    /\ UNCHANGED <<coreState, mPtid, mKillCoreOnExit, mHaveMultiProc, mTimeout,
                   mNextProcess, listed, r10, meant, phase, peerGone>>

\* rspVKill: hex2Val asserts that the number has at most eight digits, so
\* its way through an int and back to unsigned changes nothing.  The
\* connection is given up when the count of live cores is 0, and with
\* EXIT_ON_KILL (the stream transport) the server too.
RspVKill ==
    /\ Receive("vKill")
    /\ \E pid \in KillPids :
        \/ /\ pid >= UintMod
           /\ phase' = "abort_hex"
           /\ UNCHANGED <<lifeVars, reply>>
        \/ /\ pid < UintMod /\ pid - 1 \notin Cores
           /\ Answer("E01")
           /\ UNCHANGED <<lifeVars, phase>>
        \/ /\ pid < UintMod /\ pid - 1 \in Cores
           /\ KillCoreNum(pid - 1)
           /\ Answer("OK")
           /\ phase' = IF mLiveCores' # 0 THEN "request"
                       ELSE IF Transport = "stream" THEN "exited"
                       ELSE "connect"
    /\ UNCHANGED <<runVars, sysVars, planVars, targetVars, linkVars, confVars,
                   peerGone>>

\* 'D'
RspDetach ==
    /\ Receive("D")
    /\ Answer("OK")
    /\ phase' = "connect"
    /\ UNCHANGED <<coreState, confVars, peerGone>>

\* "monitor reset", warm or cold
MonitorReset ==
    /\ Receive("reset")
    /\ CoreManagerReset
    /\ \/ Answer("OK") /\ UNCHANGED phase
       \/ /\ "reset" \in TargetFaults
          /\ phase' = "abort_reset"
          /\ UNCHANGED reply
    /\ UNCHANGED <<prepared, sysVars, targetVars, linkVars, confVars, peerGone>>

\* "monitor exit" answers nothing: the loop of rspServer ends.
MonitorExit ==
    /\ Receive("exit")
    /\ phase' = "exited"
    /\ UNCHANGED <<coreState, confVars, peerGone, reply>>

\* "monitor timeout" and "monitor real-timeout", or "monitor cycle-timeout"
MonitorTimeout ==
    /\ \E n \in TimeoutValues :
        \/ Receive("timeout") /\ mTimeout' = realTimeout(n)
        \/ Receive("cycle-timeout") /\ mTimeout' = cycleTimeout(n)
    /\ Answer("OK")
    /\ UNCHANGED <<coreState, mPtid, mKillCoreOnExit, mHaveMultiProc,
                   mNoAckMode, mNextProcess, listed, r10, meant, phase, peerGone>>

\* "monitor set kill-core-on-exit"
MonitorKillCoreOnExit ==
    /\ Receive("kill-core-on-exit")
    /\ \/ mKillCoreOnExit' \in BOOLEAN /\ Answer("OK")
       \/ UNCHANGED mKillCoreOnExit /\ Answer("E02")
    /\ UNCHANGED <<coreState, mPtid, mHaveMultiProc, mTimeout, mNoAckMode,
                   mNextProcess, listed, r10, meant, phase, peerGone>>

-----------------------------------------------------------------------------
\* rspServer: the connection

\* getPkt failed: the client is gone.
RspLost ==
    /\ phase = "request"
    /\ peerGone
    /\ phase' = "connect"
    /\ fileIO' = NoCore
    /\ UNCHANGED <<runVars, lifeVars, sysVars, confVars, planVars, targetVars,
                   mHavePendingBreak, breakInFlight, peerGone, reply>>

\* rspConnect of the socket transport got a client.
RspConnect ==
    /\ phase = "connect"
    /\ Transport = "socket"
    /\ CoreManagerReset
    /\ phase' = "request"
    /\ peerGone' = FALSE
    /\ mNoAckMode' = FALSE
    /\ reply' = [kind |-> "none", sig |-> "NONE", pid |-> 0, thread |-> 0]
    /\ UNCHANGED <<prepared, sysVars, targetVars, linkVars, mPtid, mKillCoreOnExit,
                   mHaveMultiProc, mTimeout, mNextProcess, listed, r10, meant>>

\* accept () failed, which rspConnect reports as success: the cores are
\* reset and the loop tries again.
RspConnectRetry ==
    /\ phase = "connect"
    /\ Transport = "socket"
    /\ CoreManagerReset
    /\ UNCHANGED <<prepared, sysVars, targetVars, linkVars, confVars, phase,
                   peerGone, reply>>

\* rspConnect failed: no socket, or the stream transport after a close.
RspConnectFails ==
    /\ phase = "connect"
    /\ phase' = "failed"
    /\ UNCHANGED <<coreState, confVars, peerGone, reply>>

\* The client

ClientBreak ==
    /\ "break" \in Requests
    /\ phase = "wait"
    /\ ~peerGone
    /\ ~breakInFlight
    /\ breakInFlight' = TRUE
    /\ UNCHANGED <<runVars, lifeVars, sysVars, confVars, planVars, targetVars,
                   mHavePendingBreak, fileIO, phase, peerGone, reply>>

ClientVanishes ==
    /\ "vanish" \in Requests
    /\ phase \in {"request", "wait"}
    /\ ~peerGone
    /\ peerGone' = TRUE
    /\ UNCHANGED <<coreState, confVars, phase, reply>>

\* The process has ended.
Terminated ==
    /\ phase \in Aborts \cup {"exited", "failed"}
    /\ UNCHANGED vars

-----------------------------------------------------------------------------
Wait ==
    \/ Tick \/ CycleTick \/ WaitBreak \/ WaitAgain \/ WaitTimedOut
    \/ WaitEvent \/ WaitFault

RspClientRequest ==
    \/ RspVCont \/ RspSyscallReply \/ RspAccess \/ RspOther \/ RspQuery
    \/ RspCommand \/ RspSetCommand \/ RspShowCommand \/ RspThreadInfo
    \/ RspLastSignal \/ RspSingleCycle \/ RspSelect \/ RspQueryCurrent
    \/ RspQuerySupported \/ RspStartNoAckMode \/ RspVKill \/ RspDetach
    \/ MonitorReset \/ MonitorExit \/ MonitorTimeout \/ MonitorKillCoreOnExit

Link ==
    \/ RspLost \/ RspConnect \/ RspConnectRetry \/ RspConnectFails
    \/ ClientBreak \/ ClientVanishes

Next == Wait \/ RspClientRequest \/ Link \/ Terminated

Spec == Init /\ [][Next]_vars

(***************************************************************************)
(* Fairness.  While the target runs, wait () returns TIMEOUT again and     *)
(* again "to check for client interrupts" (ITarget.h), so the loop gets to *)
(* look at a break or at a clock that stay there; both clocks go on; and   *)
(* GDB answers a system call.  A read from a closed connection returns.    *)
(* Nothing forces the target to stop.                                      *)
(***************************************************************************)
Fairness ==
    /\ WF_vars(Tick)
    /\ WF_vars(CycleTick)
    /\ WF_vars(WaitBreak)
    /\ WF_vars(WaitTimedOut)
    /\ WF_vars(RspSyscallReply)
    /\ WF_vars(RspLost)

FairSpec == Spec /\ Fairness

-----------------------------------------------------------------------------
\* Properties

Unreported(i) == ~stopReported[i] /\ stopReason[i] # "NONE"

\* While the target runs, no core that takes part still has a stop that the
\* client was not told of: the fatal error "stopped, but already had a stop
\* event pending" in doCoreActions cannot happen.
NoStopOverwritten ==
    phase = "wait" => \A i \in Cores : IsRunning(resumeType, i) => stopReported[i]

\* While the target runs, it runs the actions the server believes in, and
\* no core that was killed or has exited is among them, although only
\* rspVCont looks at that and an F packet resumes the target as well.
RunsWhatWasAsked ==
    phase = "wait" =>
        /\ prepared = resumeType
        /\ \A i \in Cores : IsRunning(resumeType, i) => isLive[i]

\* While the client serves a system call, the selected core, to which the
\* result is going to be written, is the core that made the call, and that
\* core is live, running and has no other stop to report.
SyscallGoesToCaller ==
    fileIO # NoCore =>
        /\ mHandlingSyscall
        /\ currentCpu = fileIO
        /\ stopReason[fileIO] = "SYSCALL"
        /\ stopReported[fileIO]
        /\ isLive[fileIO]
        /\ IsRunning(resumeType, fileIO)

\* What holds between the packets as well, so that the three properties
\* above go on to hold: a core without a stop reason has nothing to report;
\* the client serves a call only between packets; and then the target is
\* still prepared with the actions the F packet will resume.
ReasonIsReported == \A i \in Cores : stopReason[i] = "NONE" => stopReported[i]
PlanKept ==
    fileIO # NoCore =>
        /\ phase = "request"
        /\ prepared = resumeType
        /\ \A i \in Cores : IsRunning(resumeType, i) => isLive[i]

\* The inductive invariant behind them: no handler, failure of the target,
\* loss of the client or reset breaks the agreement between the state of
\* the cores, the prepared target and the system call being served.
IInv ==
    /\ ReasonIsReported
    /\ NoStopOverwritten
    /\ RunsWhatWasAsked
    /\ SyscallGoesToCaller
    /\ PlanKept

\* Between packets, registers and memory are read and written on the core
\* that the client takes to be selected: the one it named in its last Hg
\* that was answered OK, or the one the last stop reply named, whichever
\* came later; although stops, breaks, timeouts and system calls of other
\* cores select cores in between, and an Hg may be refused half way.
SelectionKnown ==
    (phase = "request" /\ fileIO = NoCore /\ reply.thread # 0) =>
        currentCpu = reply.thread - 1

\* When an enumeration of the threads ends, the client was told of every
\* core once, without those that are gone if they are to count as gone:
\* whichever cores exited or were killed before, and however many
\* enumerations were left unfinished.
ThreadsListed ==
    LET gone == {i \in Cores : mKillCoreOnExit /\ ~isLive[i]}
    IN  (phase = "request" /\ reply.kind = "l") =>
            /\ {listed[k] : k \in DOMAIN listed} = {i + 1 : i \in Cores \ gone}
            /\ Len(listed) = Cardinality(Cores \ gone)

\* Register 10 of every core has the result, or the negative errno, that the
\* client gave for the last system call of that core and no other, whatever
\* other cores did and whichever stops were reported in between, and
\* whether the reply carried the Ctrl-C mark or not.  A result of -1 is
\* never written, and so is errno 1, which the server cannot tell from it.
ResultReachesCaller == \A i \in Cores : meant[i] # NoResult => r10[i] = meant[i]

\* With a target that obeys ITarget.h and makes only known system calls, and
\* a client that stays, does not ask with '?', sets no trace flag and sends
\* no number of more than eight digits, nothing ends the server through a
\* fatal error or an assert.
NoAbort == phase \notin Aborts

\* Of the cores that stopped, the selected one alone counts as reported.
OnlyToldIsReported(i) ==
    (/\ phase = "wait" /\ phase' = "request"
     /\ reply'.kind \in {"exit", "file"} \/ reply'.sig \in {"TRAP", "USR1"}
     /\ IsRunning(resumeType, i)
     /\ stopReason'[i] # "NONE" /\ stopReported'[i]) => currentCpu' = i

\* A stop of core i that was not reported goes only with a report or a reset.
StopKept(i) ==
    (Unreported(i) /\ (stopReported'[i] \/ stopReason'[i] # stopReason[i])) =>
        \/ /\ currentCpu' = i
           /\ stopReason'[i] = stopReason[i]
           /\ reply'.kind \in {"stop", "exit", "file"} \/ phase' \in Aborts
        \/ \A j \in Cores : stopReason'[j] = "INTERRUPTED" /\ stopReported'[j]

\* When several cores stop, the stops of all but the one that is reported
\* are kept, and a stop that was not reported stays, with its reason, until
\* a report that selects its core, unless the cores are reset: no other
\* core's stop, no break, timeout or system call in between drops it.
StopNotLost == [][\A i \in Cores : OnlyToldIsReported(i) /\ StopKept(i)]_vars

\* A break that is sent while the target runs leads to a stop (or exit)
\* reply, even if a system call comes in between, as long as packets are
\* acknowledged and the client stays.
BreakStopsTarget ==
    (phase = "wait" /\ breakInFlight /\ ~mNoAckMode)
        ~> \/ phase = "request" /\ reply.kind \in {"stop", "exit"}
           \/ phase \in Aborts \/ peerGone

\* A limit that is not zero: what a limit of zero does is not what the
\* comment in doCoreActions says ("unless the timeout was zero").
Limited == haveTimeout(mTimeout) /\ mTimeout.real + mTimeout.cycle > 0

\* With a limit, in seconds or in cycles, the server does not stay in the
\* wait loop for ever, whatever the target does, unless the limit is in
\* cycles and their count wraps round during the run.
CountWraps ==
    phase = "wait" /\ mTimeout.type = "CYCLE" /\ mCycleStamp + MaxCycles >= CycleMod
TimeoutStopsTarget ==
    (phase = "wait" /\ Limited /\ ~CountWraps) ~> (phase # "wait")

\* With a limit the loss of the client is noticed and the server gets
\* back to accepting a client, even though the wait loop cannot tell a
\* client that is gone from one that is silent.
LostClientNoticed ==
    (peerGone /\ Limited /\ ~CountWraps)
        ~> (phase \notin {"wait", "request"} \/ ~peerGone)

\* A run that ends with XCPU has lasted longer than its limit.
LimitPassed ==
    (phase = "wait" /\ phase' = "request" /\ reply'.sig = "XCPU") =>
        \/ mTimeout.type = "REAL" /\ elapsed > mTimeout.real
        \/ mTimeout.type = "CYCLE" /\ cycles > mTimeout.cycle
        \/ EndWraps(mTimeout, mCycleStamp)

\* A timeout never cuts a run short: when the target is stopped with XCPU,
\* more than the limit has passed on the clock the client chose since this
\* run started, whatever the other clock says; but for a cycle timeout
\* whose end wraps round.
NoEarlyTimeout == [][LimitPassed]_vars

\* What RunControl's mode and plan stand for.
Mode ==
    IF phase = "wait" THEN "running"
    ELSE IF phase \in {"request", "connect"} THEN "halted" ELSE "ended"
PlanOf(rt) == {i \in Cores : IsRunning(rt, i)}

\* The server is an implementation of RunControl: whatever packets, breaks,
\* clocks, losses of the client and failures of the target do in between,
\* the cores' stops are told and kept, and system calls served, as it says.
RC == INSTANCE RunControl WITH
        mode    <- Mode,
        plan    <- PlanOf(resumeType),
        reason  <- stopReason,
        told    <- stopReported,
        serving <- fileIO
ImplementsRunControl == RC!Spec

-----------------------------------------------------------------------------
\* What comments and documents of the repository say, and the code does not
\* do.

\* "Number of cores that are still live.  Should correspond to the number
\* of entries in mCoreLive that are true." (GdbServer.h)
LiveCoresCounted == mLiveCores = Cardinality({i \in Cores : isLive[i]})

\* "There's already a syscall pending, first one lost?": the assertion of
\* rspSyscallRequest never fails, "we shouldn't get nested syscalls".
NoNestedSyscall == phase # "abort_nested"

=============================================================================
