------------------------ MODULE GdbServer_step_proofs ------------------------
(***************************************************************************)
(* What a step of GdbServer may and may not do, for every number of cores: *)
(* it never drops a stop or cuts a run short, and it is a step of          *)
(* RunControl or leaves alone what RunControl speaks of.  All follows from *)
(* the inductive invariant IInv of the state the step starts from.         *)
(***************************************************************************)
EXTENDS GdbServer_safety_proofs


\* What rspSyscallRequest puts out, unless its assert ends the process.
LEMMA SyscallRequestReply ==
  ASSUME NEW i, NEW handling, RspSyscallRequest(i, handling)
  PROVE  \/ phase' \in Aborts
         \/ reply'.kind \in {"stop", "exit", "file"} /\ reply'.sig \in {"NONE", "TRAP"}
  <1>1. CASE phase' \in {"abort_nested", "abort_args"}
    BY <1>1 DEF Aborts
  <1>2. CASE \E outcome \in SyscallOutcomes(mHaveSyscallSupport') : SyscallPacket(outcome, i)
    <2>1. PICK outcome \in SyscallOutcomes(mHaveSyscallSupport') : SyscallPacket(outcome, i)
      BY <1>2
    <2>2. CASE outcome = "file"
      BY <2>1, <2>2 DEF SyscallPacket, Answer
    <2>3. CASE outcome = "exit"
      BY <2>1, <2>3 DEF SyscallPacket
    <2>4. CASE outcome \notin {"file", "exit"}
      <3>1. ReportException("TRAP", i)
        BY <2>1, <2>4, Zenon DEF SyscallPacket
      <3> QED
        BY <3>1 DEF ReportException
    <2> QED
      BY <2>2, <2>3, <2>4
  <1> QED
    BY <1>1, <1>2 DEF RspSyscallRequest

\* processStopEvents reports exactly one core, one that takes part and has
\* an event, selects it and tells the client, or ends the process.
LEMMA ProcessReports ==
  ASSUME NEW rt, NEW sr, NEW rep \in [Cores -> BOOLEAN], NEW handling, NEW inStream,
         ProcessStopEvent(rt, sr, rep, handling, inStream)
  PROVE  \E c \in Cores :
           /\ IsRunning(rt, c) /\ ~rep[c] /\ sr[c] # "NONE"
           /\ stopReason' = sr
           /\ stopReported' = [rep EXCEPT ![c] = TRUE]
           /\ currentCpu' = c
           /\ \/ phase' \in Aborts
              \/ /\ reply'.kind \in {"stop", "exit", "file"}
                 /\ reply'.sig \in {"NONE", "TRAP", "USR1"}
  <1>1. PICK c \in Cores :
          /\ IsNextStopEvent(c, rt, sr, rep)
          /\ stopReason' = sr
          /\ stopReported' = ReportStopReason(rep, c)
          /\ SetCurrentCpu(c)
          /\ \/ RspSyscallRequest(c, handling)
             \/ ReportException(StopSignal(sr[c]), c)
             \/ phase' = "abort_stop"
    BY DEF ProcessStopEvent
  <1>2. \/ phase' \in Aborts
        \/ /\ reply'.kind \in {"stop", "exit", "file"}
           /\ reply'.sig \in {"NONE", "TRAP", "USR1"}
    <2>1. CASE RspSyscallRequest(c, handling)
      BY <2>1, SyscallRequestReply
    <2>2. CASE ReportException(StopSignal(sr[c]), c)
      BY <2>2 DEF ReportException, StopSignal
    <2> QED
      BY <1>1, <2>1, <2>2 DEF Aborts
  <1> QED
    BY <1>1, <1>2 DEF IsNextStopEvent, StopEvents, ReportStopReason, SetCurrentCpu

\* A step that changes no stop keeps them all.
LEMMA SameStops ==
  ASSUME UNCHANGED runVars, NEW i \in Cores
  PROVE  StopKept(i)
  BY DEF StopKept, Unreported, runVars

\* doCoreActions reports one stop or changes none.
LEMMA DoCoreActionsKeeps ==
  ASSUME StateTypeOK, NEW rt, NEW handling, DoCoreActions(rt, handling), NEW i \in Cores
  PROVE  StopKept(i)
  <1>1. CASE UNCHANGED runVars
    BY <1>1, SameStops
  <1>2. CASE \E inStream : ProcessStopEvent(rt, stopReason, stopReported, handling, inStream)
    <2>1. stopReported \in [Cores -> BOOLEAN]
      BY DEF StateTypeOK
    <2>2. PICK c \in Cores :
           /\ stopReason' = stopReason
           /\ stopReported' = [stopReported EXCEPT ![c] = TRUE]
           /\ currentCpu' = c
           /\ phase' \in Aborts \/ reply'.kind \in {"stop", "exit", "file"}
      BY <1>2, <2>1, ProcessReports
    <2> QED
      BY <2>1, <2>2 DEF StopKept, Unreported
  <1> QED
    BY <1>1, <1>2 DEF DoCoreActions, HaltAndReport

\* The reset of the cores is the one way stops go unreported.
LEMMA ResetKeeps ==
  ASSUME CoreManagerReset, NEW i \in Cores
  PROVE  StopKept(i)
  BY DEF StopKept, CoreManagerReset

\* The wait loop: halts report no core's stop, and of the stops of an event
\* the one of the selected core alone counts as reported.
LEMMA WaitKeeps ==
  ASSUME TypeOK, IInv, Wait, NEW i \in Cores
  PROVE  OnlyToldIsReported(i) /\ StopKept(i)
  <1>1. phase = "wait"
    BY DEF Wait, Tick, CycleTick, WaitBreak, WaitAgain, WaitTimedOut, WaitEvent, WaitFault
  <1>2. CASE Tick \/ CycleTick \/ WaitAgain \/ WaitFault
    <2>1. UNCHANGED runVars /\ phase' # "request"
      BY <1>1, <1>2 DEF Tick, CycleTick, WaitAgain, WaitFault, vars
    <2> QED
      BY <2>1, SameStops DEF OnlyToldIsReported
  <1>3. CASE WaitBreak \/ WaitTimedOut
    <2>1. PICK sig \in {"INT", "XCPU"} : HaltAndReport(sig, mHandlingSyscall)
      BY <1>3 DEF WaitBreak, WaitTimedOut
    <2>2. UNCHANGED runVars
      BY <2>1 DEF HaltAndReport
    <2>3. phase' = "request" => reply'.kind = "stop" /\ reply'.sig = sig
      BY <2>1 DEF HaltAndReport, ReportException
    <2> QED
      BY <2>2, <2>3, SameStops DEF OnlyToldIsReported
  <1>4. CASE WaitEvent
    <2> DEFINE ran == {j \in Cores : IsRunning(resumeType, j)}
               sr(results) == [j \in Cores |-> IF j \in ran THEN results[j]
                                                           ELSE stopReason[j]]
               rep(results) == [j \in Cores |-> IF j \in ran THEN results[j] = "NONE"
                                                            ELSE stopReported[j]]
    <2>1. PICK results \in [Cores -> StopResults \cup {"NONE"}] :
            \/ ProcessStopEvent(resumeType, sr(results), rep(results),
                                mHandlingSyscall, breakInFlight)
            \/ UNCHANGED runVars /\ phase' # "request"
      BY <1>4 DEF WaitEvent
    <2>2. CASE UNCHANGED runVars /\ phase' # "request"
      BY <2>2, SameStops DEF OnlyToldIsReported
    <2>3. CASE ProcessStopEvent(resumeType, sr(results), rep(results),
                                mHandlingSyscall, breakInFlight)
      <3>1. rep(results) \in [Cores -> BOOLEAN]
        BY DEF TypeOK, StateTypeOK
      <3>2. \A j \in Cores : /\ IsRunning(resumeType, j) =>
                                  rep(results)[j] = (sr(results)[j] = "NONE")
                             /\ ~IsRunning(resumeType, j) =>
                                  /\ rep(results)[j] = stopReported[j]
                                  /\ sr(results)[j] = stopReason[j]
        OBVIOUS
      <3> HIDE DEF sr, rep
      <3>3. PICK c \in Cores :
           /\ IsRunning(resumeType, c)
           /\ stopReason' = sr(results)
           /\ stopReported' = [rep(results) EXCEPT ![c] = TRUE]
           /\ currentCpu' = c
        BY <2>3, <3>1, ProcessReports
      <3>4. OnlyToldIsReported(i)
        BY <3>1, <3>2, <3>3 DEF OnlyToldIsReported
      <3>5. IsRunning(resumeType, i) => stopReported[i]
        BY <1>1 DEF IInv, NoStopOverwritten
      <3>6. StopKept(i)
        BY <3>1, <3>2, <3>3, <3>5 DEF StopKept, Unreported
      <3> QED
        BY <3>4, <3>6
    <2> QED
      BY <2>1, <2>2, <2>3
  <1> QED
    BY <1>2, <1>3, <1>4 DEF Wait

\* The packets.
LEMMA RequestKeeps ==
  ASSUME TypeOK, RspClientRequest, NEW i \in Cores
  PROVE  StopKept(i)
  <1>1. CASE RspVCont \/ RspSyscallReply
    BY <1>1, SameStops, DoCoreActionsKeeps DEF RspVCont, RspSyscallReply, TypeOK, coreState
  <1>2. CASE MonitorReset
    BY <1>2, ResetKeeps DEF MonitorReset
  <1>3. CASE ~RspVCont /\ ~RspSyscallReply /\ ~MonitorReset
    <2>1. UNCHANGED runVars
      BY <1>3
         DEF RspClientRequest, RspAccess, RspOther, RspQuery, RspCommand, RspSetCommand,
             RspShowCommand, RspThreadInfo, RspLastSignal, RspSingleCycle, RspSelect,
             RspQueryCurrent, RspQuerySupported, RspStartNoAckMode, RspVKill, RspDetach,
             MonitorExit, MonitorTimeout, MonitorKillCoreOnExit, coreState
    <2> QED
      BY <2>1, SameStops
  <1> QED
    BY <1>1, <1>2, <1>3

\* When several cores stop together, processStopEvents reports one of them
\* and keeps the others; no break, timeout, system call, packet or loss of
\* the client drops a stop that the client was not told of.
THEOREM NoStopIsLost == Spec => StopNotLost
  <1>1. TypeOK /\ IInv /\ [Next]_vars =>
          [\A i \in Cores : OnlyToldIsReported(i) /\ StopKept(i)]_vars
    <2> SUFFICES ASSUME TypeOK, IInv, Next, NEW i \in Cores
                 PROVE  OnlyToldIsReported(i) /\ StopKept(i)
      OBVIOUS
    <2>1. CASE Wait
      BY <2>1, WaitKeeps
    <2>2. CASE ~Wait
      <3>1. OnlyToldIsReported(i)
        <4>1. CASE RspClientRequest
          BY <4>1 DEF RspClientRequest, RspVCont, RspSyscallReply, RspAccess, RspOther,
             RspQuery, RspCommand, RspSetCommand,
             RspShowCommand, RspThreadInfo, RspLastSignal, RspSingleCycle, RspSelect,
             RspQueryCurrent, RspQuerySupported, RspStartNoAckMode, RspVKill, RspDetach,
             MonitorExit, MonitorTimeout, MonitorKillCoreOnExit, MonitorReset, Receive,
             OnlyToldIsReported
        <4>2. CASE Link \/ Terminated
          BY <4>2 DEF Link, RspLost, RspConnect, RspConnectRetry, RspConnectFails,
             ClientBreak, ClientVanishes, Terminated, vars, OnlyToldIsReported
        <4> QED
          BY <2>2, <4>1, <4>2 DEF Next
      <3>2. StopKept(i)
        <4>1. CASE RspClientRequest
          BY <4>1, RequestKeeps
        <4>2. CASE RspConnect \/ RspConnectRetry
          BY <4>2, ResetKeeps DEF RspConnect, RspConnectRetry
        <4>3. CASE RspLost \/ RspConnectFails \/ ClientBreak \/ ClientVanishes \/ Terminated
          BY <4>3, SameStops DEF RspLost, RspConnectFails, ClientBreak, ClientVanishes,
             Terminated, vars, coreState
        <4> QED
          BY <2>2, <4>1, <4>2, <4>3 DEF Next, Link
      <3> QED
        BY <3>1, <3>2
    <2> QED
      BY <2>1, <2>2
  <1> QED
    BY <1>1, TypeCorrect, Agreement, PTL DEF Spec, StopNotLost

-----------------------------------------------------------------------------
\* A cycle count after wrapping is never more than the count before it, and
\* the same as long as it does not wrap.
LEMMA ModBound ==
  \A n \in Nat, m \in Nat \ {0} : n % m <= n /\ (n < m => n % m = n)
  BY SMT

\* If a limit has timed out it has passed on its own clock, unless its end
\* wraps round.
LEMMA TimedOutLate ==
  ASSUME TypeOK, TimedOut
  PROVE  \/ mTimeout.type = "REAL" /\ elapsed > mTimeout.real
         \/ mTimeout.type = "CYCLE" /\ cycles > mTimeout.cycle
         \/ EndWraps(mTimeout, mCycleStamp)
  <1>1. /\ mCycleStamp \in Nat /\ cycles \in Nat /\ mTimeout.cycle \in Nat
        /\ CycleMod \in Nat \ {0}
    BY CycleModAssumption DEF TypeOK, StateTypeOK, ConfTypeOK, Timeouts
  <1>2. CASE mTimeout.type = "REAL" /\ elapsed > mTimeout.real
    BY <1>2
  <1>3. CASE /\ mTimeout.type = "CYCLE"
             /\ (mCycleStamp + cycles) % CycleMod > cycleEnd(mTimeout, mCycleStamp)
             /\ mCycleStamp + mTimeout.cycle < CycleMod
    <2> DEFINE now == mCycleStamp + cycles
               end == mCycleStamp + mTimeout.cycle
    <2>1. now \in Nat /\ end \in Nat /\ end < CycleMod
      BY <1>1, <1>3
    <2>2. now % CycleMod > end % CycleMod
      BY <1>3 DEF cycleEnd
    <2> HIDE DEF now, end
    <2>3. now % CycleMod <= now /\ end % CycleMod = end
      BY <1>1, <2>1, ModBound
    <2>4. now % CycleMod \in Int /\ end % CycleMod \in Int
      BY <1>1, <2>1
    <2>5. now > end
      BY <2>1, <2>2, <2>3, <2>4
    <2> QED
      BY <1>1, <1>3, <2>5 DEF now, end
  <1> QED
    BY <1>1, <1>2, <1>3 DEF TimedOut, timedOut, EndWraps

\* When doCoreActions stops the target with XCPU, the limit has passed on the
\* clock the client chose, for every width of the cycle counter.
THEOREM TimeoutNotEarly == Spec => NoEarlyTimeout
  <1>1. TypeOK /\ [Next]_vars => [LimitPassed]_vars
    <2> SUFFICES ASSUME TypeOK, Next,
                        phase = "wait", phase' = "request", reply'.sig = "XCPU"
                 PROVE  TimedOut
      BY TimedOutLate DEF LimitPassed
    <2>1. Wait
      BY DEF Next, RspClientRequest, RspVCont, RspSyscallReply, RspAccess, RspOther,
             RspQuery, RspCommand, RspSetCommand,
             RspShowCommand, RspThreadInfo, RspLastSignal, RspSingleCycle, RspSelect,
             RspQueryCurrent, RspQuerySupported, RspStartNoAckMode, RspVKill, RspDetach,
             MonitorExit, MonitorTimeout, MonitorKillCoreOnExit, MonitorReset, Receive,
             Link, RspLost, RspConnect, RspConnectRetry, RspConnectFails,
             ClientBreak, ClientVanishes, Terminated, vars
    <2>2. ~WaitBreak
      BY DEF WaitBreak, HaltAndReport, ReportException
    <2>3. ~WaitEvent
      <3> SUFFICES ASSUME WaitEvent PROVE FALSE
        OBVIOUS
      <3>1. PICK sr, rep :
              /\ rep \in [Cores -> BOOLEAN]
              /\ ProcessStopEvent(resumeType, sr, rep, mHandlingSyscall, breakInFlight)
        <4> DEFINE ran == {j \in Cores : IsRunning(resumeType, j)}
                   sr(results) == [j \in Cores |-> IF j \in ran THEN results[j]
                                                               ELSE stopReason[j]]
                   rep(results) == [j \in Cores |-> IF j \in ran THEN results[j] = "NONE"
                                                                ELSE stopReported[j]]
        <4>1. PICK results \in [Cores -> StopResults \cup {"NONE"}] :
                ProcessStopEvent(resumeType, sr(results), rep(results),
                                 mHandlingSyscall, breakInFlight)
          BY DEF WaitEvent
        <4>2. rep(results) \in [Cores -> BOOLEAN]
          BY DEF TypeOK, StateTypeOK
        <4> HIDE DEF sr, rep
        <4> QED
          BY <4>1, <4>2
      <3>2. phase' \in Aborts \/ reply'.sig \in {"NONE", "TRAP", "USR1"}
        BY <3>1, ProcessReports
      <3> QED
        BY <3>2 DEF Aborts
    <2>4. ~Tick /\ ~CycleTick /\ ~WaitAgain /\ ~WaitFault
      BY DEF Tick, CycleTick, WaitAgain, WaitFault, vars
    <2> QED
      BY <2>1, <2>2, <2>3, <2>4 DEF Wait, WaitTimedOut
  <1> QED
    BY <1>1, TypeCorrect, PTL DEF Spec, NoEarlyTimeout

-----------------------------------------------------------------------------
(* GdbServer implements RunControl.                                        *)


\* Where the server is tells which mode it is in.
LEMMA ModeIs ==
  /\ phase = "wait" <=> Mode = "running"
  /\ phase \in {"request", "connect"} <=> Mode = "halted"
  /\ phase \notin {"wait", "request", "connect"} <=> Mode = "ended"
  BY DEF Mode

\* The same for the state after a step.
LEMMA ModeIsNext ==
  /\ phase' = "wait" <=> Mode' = "running"
  /\ phase' \in {"request", "connect"} <=> Mode' = "halted"
  /\ phase' \notin {"wait", "request", "connect"} <=> Mode' = "ended"
  BY DEF Mode

\* The server ends, whatever it did before that.
LEMMA StepEnds ==
  ASSUME phase \in {"wait", "request", "connect"},
         phase' \notin {"wait", "request", "connect"}
  PROVE  RC!Next
  BY ModeIs, ModeIsNext DEF RC!Next, RC!End

\* The server goes on to listen, with the stops as they were.
LEMMA StepPauses ==
  ASSUME phase \in {"request", "connect"}, phase' \in {"request", "connect"},
         fileIO' = NoCore, fileIO = NoCore \/ resumeType' = resumeType,
         UNCHANGED runVars
  PROVE  RC!Next
  <1>1. RC!Replan
    BY DEF RC!Replan, PlanOf
  <1> QED
    BY <1>1, ModeIs, ModeIsNext DEF RC!Next, RC!Pause, runVars

\* A step that RunControl does not see.
LEMMA StepStutters ==
  ASSUME UNCHANGED <<phase, resumeType, runVars, fileIO>>
  PROVE  UNCHANGED RC!vars
  BY DEF RC!vars, runVars, Mode, PlanOf

\* CoreManager::reset between system calls.
LEMMA StepResets ==
  ASSUME phase \in {"request", "connect"}, phase' # "wait",
         fileIO = NoCore, UNCHANGED fileIO, CoreManagerReset
  PROVE  RC!Next
  <1>1. PlanOf(resumeType') = {}
    BY DEF PlanOf, CoreManagerReset, IsRunning
  <1> QED
    BY <1>1, ModeIs, ModeIsNext DEF RC!Next, RC!Reset, CoreManagerReset

\* processStopEvents either ends the server or tells the client of one core
\* with an event, a system call if there is one.
LEMMA ProcessTells ==
  ASSUME StateTypeOK,
         NEW rt, NEW sr \in [Cores -> ResumeRes], NEW rep \in [Cores -> BOOLEAN],
         NEW handling, NEW inStream, resumeType' = rt,
         ProcessStopEvent(rt, sr, rep, handling, inStream)
  PROVE  \/ phase' \in {"abort_stop", "abort_nested", "abort_args"}
         \/ \E c \in RC!Events(PlanOf(rt), sr, rep) :
              /\ stopReason' = sr
              /\ stopReported' = [rep EXCEPT ![c] = TRUE]
              /\ RC!TellOf(c)
  <1>1. PICK c \in Cores :
          /\ IsNextStopEvent(c, rt, sr, rep)
          /\ stopReason' = sr
          /\ stopReported' = ReportStopReason(rep, c)
          /\ \/ /\ sr[c] = "SYSCALL"
                /\ RspSyscallRequest(c, handling)
             \/ /\ BackToClient
                /\ fileIO' = NoCore
             \/ /\ phase' = "abort_stop"
                /\ fileIO' = NoCore
    BY DEF ProcessStopEvent
  <1>2. \/ phase' \in {"abort_stop", "abort_nested", "abort_args"}
        \/ phase' = "request" /\ fileIO' \in {NoCore} \cup {i \in {c} : sr[i] = "SYSCALL"}
    <2>1. CASE sr[c] = "SYSCALL" /\ RspSyscallRequest(c, handling)
      BY <2>1, SyscallRequestEffect
    <2>2. CASE BackToClient /\ fileIO' = NoCore
      BY <2>2 DEF BackToClient
    <2> QED
      BY <1>1, <2>1, <2>2
  <1>3. c \in RC!Events(PlanOf(rt), sr, rep)
    BY <1>1 DEF RC!Events, PlanOf, IsNextStopEvent, StopEvents
  <1>4. stopReported' = [rep EXCEPT ![c] = TRUE]
    BY <1>1 DEF ReportStopReason
  <1>5. sr[c] # "SYSCALL" =>
          \A i \in RC!Events(PlanOf(rt), sr, stopReported') : sr[i] # "SYSCALL"
    <2> SUFFICES ASSUME sr[c] # "SYSCALL",
                        NEW i \in RC!Events(PlanOf(rt), sr, stopReported'),
                        sr[i] = "SYSCALL"
                 PROVE  FALSE
      OBVIOUS
    <2>1. i \in Cores /\ i # c /\ IsRunning(rt, i) /\ ~rep[i]
      BY <1>4 DEF RC!Events, PlanOf
    <2>2. i \in StopEvents(rt, sr, rep)
      BY <2>1 DEF StopEvents
    <2> QED
      BY <1>1, <2>2 DEF IsNextStopEvent
  <1>6. CASE phase' = "request" /\ fileIO' \in {NoCore} \cup {i \in {c} : sr[i] = "SYSCALL"}
    <2>1. sr[c] # "NONE" /\ stopReported'[c]
      BY <1>3, <1>4 DEF RC!Events, PlanOf
    <2>2. RC!TellOf(c)
      BY <1>1, <1>5, <1>6, <2>1, ModeIsNext DEF RC!TellOf
    <2> QED
      BY <1>1, <1>3, <1>4, <2>2
  <1> QED
    BY <1>2, <1>6

\* A halt and its report: the stops stay as they are.
LEMMA HaltAndReportPauses ==
  ASSUME NEW sig, NEW handling, HaltAndReport(sig, handling)
  PROVE  /\ phase' \in {"request", "abort_halt"}
         /\ fileIO' = NoCore
         /\ UNCHANGED runVars
  BY DEF HaltAndReport, BackToClient

\* doCoreActions: a run, a stop of the run before, or a pause.
LEMMA DoCoreActionsStep ==
  ASSUME StateTypeOK, phase = "request",
         NEW rt, NEW handling, resumeType' = rt,
         fileIO = NoCore \/ resumeType' = resumeType,
         DoCoreActions(rt, handling)
  PROVE  RC!Next
  <1>1. RC!Replan
    BY DEF RC!Replan, PlanOf
  <1>2. CASE HaltAndReport("INT", handling)
    <2>1. /\ phase' \in {"request", "abort_halt"}
          /\ fileIO' = NoCore
          /\ UNCHANGED runVars
      BY <1>2, HaltAndReportPauses
    <2> QED
      BY <2>1, StepPauses, StepEnds
  <1>3. CASE \E inStream : ProcessStopEvent(rt, stopReason, stopReported, handling, inStream)
    <2>1. stopReason \in [Cores -> ResumeRes] /\ stopReported \in [Cores -> BOOLEAN]
      BY DEF StateTypeOK
    <2>2. \/ phase' \in {"abort_stop", "abort_nested", "abort_args"}
          \/ \E c \in RC!Events(PlanOf(rt), stopReason, stopReported) :
               /\ stopReason' = stopReason
               /\ stopReported' = [stopReported EXCEPT ![c] = TRUE]
               /\ RC!TellOf(c)
      BY <1>3, <2>1, ProcessTells
    <2>3. CASE phase' \in {"abort_stop", "abort_nested", "abort_args"}
      BY <2>3, StepEnds
    <2>4. CASE \E c \in RC!Events(PlanOf(rt), stopReason, stopReported) :
               /\ stopReason' = stopReason
               /\ stopReported' = [stopReported EXCEPT ![c] = TRUE]
               /\ RC!TellOf(c)
      BY <1>1, <2>4, ModeIs DEF RC!Next, RC!Tell
    <2> QED
      BY <2>2, <2>3, <2>4
  <1>4. CASE /\ StopEvents(rt, stopReason, stopReported) = {}
             /\ fileIO' = NoCore
             /\ UNCHANGED runVars
             /\ phase' \in {"wait", "abort_resume"}
    <2>1. RC!Events(PlanOf(rt), stopReason, stopReported) = {}
      BY <1>4 DEF RC!Events, PlanOf, StopEvents
    <2>2. CASE phase' = "wait"
      BY <1>1, <1>4, <2>1, <2>2, ModeIs, ModeIsNext DEF RC!Next, RC!Run, runVars
    <2>3. CASE phase' = "abort_resume"
      BY <2>3, StepEnds
    <2> QED
      BY <1>4, <2>2, <2>3
  <1> QED
    BY <1>2, <1>3, <1>4 DEF DoCoreActions

-----------------------------------------------------------------------------
\* rspVCont: the plan changes, and the target may run.
LEMMA VContStep == TypeOK /\ RspVCont => RC!Next
  <1> SUFFICES ASSUME TypeOK, RspVCont PROVE RC!Next
    OBVIOUS
  <1>1. phase = "request" /\ fileIO = NoCore
    BY DEF RspVCont, Receive
  <1>2. CASE UNCHANGED <<runVars, linkVars, phase>>
    BY <1>1, <1>2, StepPauses DEF linkVars
  <1>3. CASE \E rt : resumeType' = rt /\ DoCoreActions(rt, mHandlingSyscall)
    BY <1>1, <1>3, DoCoreActionsStep DEF TypeOK
  <1>4. CASE phase' = "abort_hex" /\ UNCHANGED coreState
    BY <1>1, <1>4, StepEnds DEF coreState, linkVars
  <1> QED
    BY <1>2, <1>3, <1>4 DEF RspVCont, coreState

\* rspSyscallReply: the run that was interrupted goes on as it was planned,
\* or the client gives it up.
LEMMA SyscallReplyStep == TypeOK /\ RspSyscallReply => RC!Next
  <1> SUFFICES ASSUME TypeOK, RspSyscallReply PROVE RC!Next
    OBVIOUS
  <1>1. phase = "request" /\ resumeType' = resumeType
    BY DEF RspSyscallReply, Receive, planVars
  <1>2. CASE BackToClient /\ fileIO' = NoCore /\ UNCHANGED runVars
    BY <1>1, <1>2, StepPauses DEF BackToClient
  <1>3. CASE DoCoreActions(resumeType, FALSE)
    BY <1>1, <1>3, DoCoreActionsStep DEF TypeOK
  <1> QED
    BY <1>2, <1>3 DEF RspSyscallReply

\* The other packets: nothing that RunControl sees, a reset, or the end.
LEMMA RequestStep == TypeOK /\ RspClientRequest => [RC!Next]_(RC!vars)
  <1> SUFFICES ASSUME TypeOK, RspClientRequest PROVE [RC!Next]_(RC!vars)
    OBVIOUS
  <1>1. CASE RspVCont
    BY <1>1, VContStep
  <1>2. CASE RspSyscallReply
    BY <1>2, SyscallReplyStep
  <1>3. CASE RspAccess
    <2>1. UNCHANGED <<phase, resumeType, runVars, fileIO>>
      BY <1>3 DEF RspAccess, coreState, planVars, linkVars
    <2> QED
      BY <2>1, StepStutters
  <1>4. ASSUME phase = "request", fileIO = NoCore, UNCHANGED <<fileIO, runVars>>,
               phase' # "wait"
        PROVE  RC!Next
    BY <1>4, StepPauses, StepEnds
  <1>5. CASE RspOther \/ RspQuery \/ RspCommand \/ RspSetCommand \/ RspShowCommand
             \/ RspThreadInfo \/ RspLastSignal \/ RspSingleCycle \/ RspQueryCurrent
             \/ RspQuerySupported \/ RspStartNoAckMode \/ RspDetach \/ MonitorExit
             \/ MonitorTimeout \/ MonitorKillCoreOnExit
    <2> USE DEF RspOther, RspQuery, RspCommand, RspSetCommand, RspShowCommand,
                RspThreadInfo, RspLastSignal, RspSingleCycle, RspQueryCurrent,
                RspQuerySupported, RspStartNoAckMode, RspDetach, MonitorExit,
                MonitorTimeout, MonitorKillCoreOnExit
    <2>1. fileIO = NoCore /\ phase = "request"
      BY <1>5 DEF Receive
    <2>2. UNCHANGED coreState
      BY <1>5
    <2>3. phase' # "wait"
      BY <1>5, <2>1
    <2> QED
      BY <1>4, <2>1, <2>2, <2>3 DEF coreState, linkVars
  <1>6. CASE RspSelect \/ RspVKill
    <2>1. fileIO = NoCore /\ phase = "request"
      BY <1>6 DEF RspSelect, RspVKill, Receive
    <2>2. UNCHANGED <<fileIO, runVars>> /\ phase' # "wait"
      BY <1>6, <2>1 DEF RspSelect, RspVKill, linkVars
    <2> QED
      BY <1>4, <2>1, <2>2
  <1>7. CASE MonitorReset
    <2>1. fileIO = NoCore /\ phase = "request"
      BY <1>7 DEF MonitorReset, Receive
    <2>2. UNCHANGED fileIO /\ phase' # "wait" /\ CoreManagerReset
      BY <1>7, <2>1 DEF MonitorReset, linkVars
    <2> QED
      BY <2>1, <2>2, StepResets
  <1> QED
    BY <1>1, <1>2, <1>3, <1>5, <1>6, <1>7 DEF RspClientRequest

\* The wait loop: the cores stop, the run is interrupted, or the server
\* ends.
LEMMA WaitStep == TypeOK /\ IInv /\ Wait => [RC!Next]_(RC!vars)
  <1> SUFFICES ASSUME TypeOK, IInv, Wait PROVE [RC!Next]_(RC!vars)
    OBVIOUS
  <1>1. phase = "wait" /\ resumeType' = resumeType
    BY DEF Wait, Tick, CycleTick, WaitBreak, WaitAgain, WaitTimedOut, WaitEvent, WaitFault,
           vars, planVars
  <1>2. fileIO = NoCore
    BY <1>1 DEF IInv, PlanKept
  <1>3. CASE Tick \/ CycleTick \/ WaitAgain
    <2>1. UNCHANGED <<phase, resumeType, runVars, fileIO>>
      BY <1>1, <1>3 DEF Tick, CycleTick, WaitAgain, vars, linkVars
    <2> QED
      BY <2>1, StepStutters
  <1>4. CASE WaitBreak \/ WaitTimedOut
    <2>1. /\ phase' \in {"request", "abort_halt"}
          /\ fileIO' = NoCore
          /\ UNCHANGED runVars
      BY <1>4, HaltAndReportPauses DEF WaitBreak, WaitTimedOut
    <2>2. CASE phase' = "request"
      BY <1>1, <1>2, <2>1, <2>2, ModeIs, ModeIsNext DEF RC!Next, RC!Interrupt, runVars
    <2> QED
      BY <1>1, <2>1, <2>2, StepEnds
  <1>5. CASE WaitEvent
    <2> DEFINE ran == {i \in Cores : IsRunning(resumeType, i)}
               sr(results) == [i \in Cores |-> IF i \in ran THEN results[i]
                                                           ELSE stopReason[i]]
               rep(results) == [i \in Cores |-> IF i \in ran THEN results[i] = "NONE"
                                                            ELSE stopReported[i]]
    <2>1. PICK results \in [Cores -> StopResults \cup {"NONE"}] :
            \/ ProcessStopEvent(resumeType, sr(results), rep(results),
                                mHandlingSyscall, breakInFlight)
            \/ phase' \in {"abort_pending", "abort_noEvent"}
      BY <1>5 DEF WaitEvent
    <2>2. sr(results) \in [Cores -> ResumeRes]
      BY GdbServerAssumption DEF TypeOK, StateTypeOK, ResumeRes
    <2>3. rep(results) \in [Cores -> BOOLEAN]
      BY DEF TypeOK, StateTypeOK
    <2>4. \A i \in Cores \ PlanOf(resumeType) :
            sr(results)[i] = stopReason[i] /\ rep(results)[i] = stopReported[i]
      BY DEF PlanOf
    <2>5. \A i \in PlanOf(resumeType) : rep(results)[i] = (sr(results)[i] = "NONE")
      BY DEF PlanOf
    <2> HIDE DEF sr, rep
    <2>6. CASE ProcessStopEvent(resumeType, sr(results), rep(results),
                                mHandlingSyscall, breakInFlight)
      <3>1. \/ phase' \in {"abort_stop", "abort_nested", "abort_args"}
            \/ \E c \in RC!Events(PlanOf(resumeType), sr(results), rep(results)) :
                 /\ stopReason' = sr(results)
                 /\ stopReported' = [rep(results) EXCEPT ![c] = TRUE]
                 /\ RC!TellOf(c)
        BY <1>1, <2>2, <2>3, <2>6, ProcessTells DEF TypeOK
      <3>2. CASE phase' \in {"abort_stop", "abort_nested", "abort_args"}
        BY <1>1, <3>2, StepEnds
      <3>3. ASSUME NEW c \in RC!Events(PlanOf(resumeType), sr(results), rep(results)),
                   stopReason' = sr(results),
                   stopReported' = [rep(results) EXCEPT ![c] = TRUE],
                   RC!TellOf(c)
            PROVE  RC!Next
        <4>1. c \in PlanOf(resumeType) /\ PlanOf(resumeType) \subseteq Cores
          BY DEF RC!Events, PlanOf
        <4>2. \A i \in Cores \ PlanOf(resumeType) :
                stopReason'[i] = stopReason[i] /\ stopReported'[i] = stopReported[i]
          BY <2>3, <2>4, <3>3, <4>1
        <4>3. \A i \in PlanOf(resumeType) \ {c} :
                stopReported'[i] = (stopReason'[i] = "NONE")
          BY <2>3, <2>5, <3>3, <4>1
        <4>4. RC!Stop
          BY <1>1, <3>3, <4>1, <4>2, <4>3, ModeIs DEF RC!Stop
        <4> QED
          BY <4>4 DEF RC!Next
      <3> QED
        BY <3>1, <3>2, <3>3
    <2>7. CASE phase' \in {"abort_pending", "abort_noEvent"}
      BY <1>1, <2>7, StepEnds
    <2> QED
      BY <2>1, <2>6, <2>7
  <1>6. CASE WaitFault
    BY <1>1, <1>6, StepEnds DEF WaitFault
  <1> QED
    BY <1>3, <1>4, <1>5, <1>6 DEF Wait

\* The connection and the client.
LEMMA LinkStep == TypeOK /\ IInv /\ Link => [RC!Next]_(RC!vars)
  <1> SUFFICES ASSUME TypeOK, IInv, Link PROVE [RC!Next]_(RC!vars)
    OBVIOUS
  <1>1. CASE RspLost
    BY <1>1, StepPauses DEF RspLost, planVars
  <1>2. CASE RspConnect \/ RspConnectRetry
    <2>1. phase = "connect" /\ fileIO = NoCore
      BY <1>2 DEF RspConnect, RspConnectRetry, IInv, PlanKept
    <2>2. UNCHANGED fileIO /\ phase' # "wait" /\ CoreManagerReset
      BY <1>2, <2>1 DEF RspConnect, RspConnectRetry, linkVars
    <2> QED
      BY <2>1, <2>2, StepResets
  <1>3. CASE RspConnectFails
    BY <1>3, StepEnds DEF RspConnectFails
  <1>4. CASE ClientBreak \/ ClientVanishes
    BY <1>4, StepStutters DEF ClientBreak, ClientVanishes, coreState, planVars, linkVars
  <1> QED
    BY <1>1, <1>2, <1>3, <1>4 DEF Link

\* Every step of the server is a step of RunControl or one it does not see.
LEMMA NextStep == TypeOK /\ IInv /\ [Next]_vars => [RC!Next]_(RC!vars)
  <1> SUFFICES ASSUME TypeOK, IInv, [Next]_vars PROVE [RC!Next]_(RC!vars)
    OBVIOUS
  <1>1. CASE UNCHANGED vars \/ Terminated
    BY <1>1, StepStutters DEF Terminated, vars, planVars, linkVars
  <1> QED
    BY <1>1, WaitStep, RequestStep, LinkStep DEF Next

\* Whatever packets, breaks, clocks, losses of the client and failures of
\* the target do, doCoreActions, processStopEvents and rspSyscallReply tell
\* and keep the cores' stops and serve their system calls as RunControl
\* says, with any number of cores.
THEOREM RunControlImplemented == Spec => ImplementsRunControl
  <1>1. Init => RC!Init
    BY DEF Init, RC!Init, Mode, PlanOf, IsRunning
  <1> QED
    BY <1>1, NextStep, TypeCorrect, Agreement, PTL DEF Spec, ImplementsRunControl, RC!Spec
=============================================================================
