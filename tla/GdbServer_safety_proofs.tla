----------------------- MODULE GdbServer_safety_proofs -----------------------
(***************************************************************************)
(* The inductive invariant IInv of GdbServer, and the safety properties    *)
(* that follow from it.                                                    *)
(***************************************************************************)
EXTENDS GdbServer_proofs

\* A step that ends outside the wait loop with no system call being served
\* only has to care for the stop reasons.
LEMMA QuietStep ==
  ASSUME phase' # "wait", fileIO' = NoCore, ReasonIsReported'
  PROVE  IInv'
  BY DEF IInv, NoStopOverwritten, RunsWhatWasAsked,
         SyscallGoesToCaller, PlanKept

\* rspSyscallRequest for a live, running core: what it leaves behind.
LEMMA SyscallRequestEffect ==
  ASSUME NEW i \in Cores, NEW handling, RspSyscallRequest(i, handling)
  PROVE  /\ phase' \in {"request", "abort_nested", "abort_args"}
         /\ fileIO' \in {i, NoCore}
         /\ fileIO' = i =>
              phase' = "request" /\ mHandlingSyscall' = TRUE /\ isLive' = isLive
  <1>1. CASE phase' \in {"abort_nested", "abort_args"} /\ fileIO' = NoCore
    BY <1>1, CoresFacts
  <1>2. CASE /\ BackToClient
             /\ \E outcome \in SyscallOutcomes(mHaveSyscallSupport') :
                  /\ SyscallPacket(outcome, i)
                  /\ mHandlingSyscall' = HandlingAfter(outcome)
                  /\ fileIO' = IF outcome = "file" THEN i ELSE NoCore
                  /\ IF outcome = "exit" THEN KillCoreNum(i) ELSE UNCHANGED lifeVars
    <2>1. PICK outcome \in SyscallOutcomes(mHaveSyscallSupport') :
                  /\ mHandlingSyscall' = HandlingAfter(outcome)
                  /\ fileIO' = IF outcome = "file" THEN i ELSE NoCore
                  /\ IF outcome = "exit" THEN KillCoreNum(i) ELSE UNCHANGED lifeVars
      BY <1>2
    <2>2. phase' = "request"
      BY <1>2 DEF BackToClient
    <2>3. CASE outcome = "file"
      BY <2>1, <2>2, <2>3, CoresFacts DEF HandlingAfter, lifeVars
    <2>4. CASE outcome # "file"
      BY <2>1, <2>2, <2>4, CoresFacts
    <2> QED
      BY <2>3, <2>4
  <1> QED
    BY <1>1, <1>2 DEF RspSyscallRequest

\* processStopEvents, given that the target is prepared with rt, rt resumes
\* only live cores, and a core without a reason has nothing to report.
LEMMA ProcessInv ==
  ASSUME StateTypeOK,
         NEW rt, NEW sr \in [Cores -> ResumeRes], NEW rep \in [Cores -> BOOLEAN],
         NEW handling, NEW inStream,
         \A j \in Cores : sr[j] = "NONE" => rep[j],
         \A j \in Cores : IsRunning(rt, j) => isLive[j],
         resumeType' = rt, prepared' = rt,
         ProcessStopEvent(rt, sr, rep, handling, inStream)
  PROVE  IInv'
  <1>1. PICK i \in Cores :
          /\ IsNextStopEvent(i, rt, sr, rep)
          /\ stopReason' = sr
          /\ stopReported' = ReportStopReason(rep, i)
          /\ SetCurrentCpu(i)
          /\ \/ /\ sr[i] = "SYSCALL"
                /\ RspSyscallRequest(i, handling)
             \/ /\ BackToClient
                /\ fileIO' = NoCore
             \/ /\ phase' = "abort_stop"
                /\ fileIO' = NoCore
    BY DEF ProcessStopEvent
  <1>2. ReasonIsReported'
    BY <1>1 DEF ReasonIsReported, ReportStopReason
  <1>3. CASE fileIO' = NoCore /\ phase' # "wait"
    BY <1>2, <1>3, QuietStep
  <1>4. CASE sr[i] = "SYSCALL" /\ RspSyscallRequest(i, handling)
    <2>1. /\ phase' \in {"request", "abort_nested", "abort_args"}
          /\ fileIO' \in {i, NoCore}
          /\ fileIO' = i =>
               phase' = "request" /\ mHandlingSyscall' = TRUE /\ isLive' = isLive
      BY <1>4, SyscallRequestEffect
    <2>2. CASE fileIO' = NoCore
      BY <1>3, <2>1, <2>2
    <2>3. CASE fileIO' = i
      <3>1. isLive'[i] /\ IsRunning(rt, i)
        BY <1>1, <2>1, <2>3 DEF IsNextStopEvent, StopEvents
      <3>2. SyscallGoesToCaller'
        BY <1>1, <1>4, <2>1, <2>3, <3>1
           DEF SyscallGoesToCaller, SetCurrentCpu, ReportStopReason
      <3>3. PlanKept'
        BY <2>1, <2>3 DEF PlanKept
      <3> QED
        BY <1>2, <2>1, <2>3, <3>2, <3>3
           DEF IInv, NoStopOverwritten, RunsWhatWasAsked
    <2> QED
      BY <2>1, <2>2, <2>3
  <1>5. CASE BackToClient /\ fileIO' = NoCore
    BY <1>3, <1>5 DEF BackToClient
  <1>6. CASE phase' = "abort_stop" /\ fileIO' = NoCore
    BY <1>3, <1>6
  <1> QED
    BY <1>1, <1>4, <1>5, <1>6

\* A halt and its report end in a quiet state.
LEMMA HaltAndReportInv ==
  ASSUME ReasonIsReported, NEW sig, NEW handling, HaltAndReport(sig, handling)
  PROVE  IInv'
  <1>1. ReasonIsReported'
    BY DEF HaltAndReport, ReasonIsReported, runVars
  <1>2. fileIO' = NoCore
    BY DEF HaltAndReport
  <1>3. phase' \in {"request", "abort_halt"}
    BY DEF HaltAndReport, BackToClient
  <1> QED
    BY <1>1, <1>2, <1>3, QuietStep

\* doCoreActions, under the same conditions as processStopEvents: it starts
\* the target only when there is no event to process.
LEMMA DoCoreActionsInv ==
  ASSUME StateTypeOK, ReasonIsReported,
         NEW rt, NEW handling,
         \A j \in Cores : IsRunning(rt, j) => isLive[j],
         resumeType' = rt, prepared' = rt,
         DoCoreActions(rt, handling)
  PROVE  IInv'
  <1>1. CASE HaltAndReport("INT", handling)
    BY <1>1, HaltAndReportInv
  <1>2. CASE \E inStream : ProcessStopEvent(rt, stopReason, stopReported, handling, inStream)
    <2>1. stopReason \in [Cores -> ResumeRes] /\ stopReported \in [Cores -> BOOLEAN]
      BY DEF StateTypeOK
    <2>2. \A j \in Cores : stopReason[j] = "NONE" => stopReported[j]
      BY DEF ReasonIsReported
    <2> QED
      BY <1>2, <2>1, <2>2, ProcessInv
  <1>3. CASE /\ StopEvents(rt, stopReason, stopReported) = {}
             /\ fileIO' = NoCore
             /\ UNCHANGED <<runVars, lifeVars>>
             /\ phase' \in {"wait", "abort_resume"}
    <2>1. \A j \in Cores : IsRunning(rt, j) => stopReported[j]
      BY <1>3 DEF ReasonIsReported, StopEvents
    <2>2. stopReason' = stopReason /\ stopReported' = stopReported /\ isLive' = isLive
      BY <1>3 DEF runVars, lifeVars
    <2>3. ReasonIsReported'
      BY <2>2 DEF ReasonIsReported
    <2>4. NoStopOverwritten' /\ RunsWhatWasAsked'
      BY <2>1, <2>2 DEF NoStopOverwritten, RunsWhatWasAsked
    <2>5. SyscallGoesToCaller' /\ PlanKept'
      BY <1>3 DEF SyscallGoesToCaller, PlanKept
    <2> QED
      BY <2>3, <2>4, <2>5 DEF IInv
  <1> QED
    BY <1>1, <1>2, <1>3 DEF DoCoreActions

-----------------------------------------------------------------------------
\* The resume types rspVCont works out resume only live cores.
LEMMA ActionTypeLive == \A letter, live : ActionType(letter, live) # "NONE" => live
  BY DEF ActionType

\* rspVCont: refused, refused half way, or carried out.
LEMMA VContInv == TypeOK /\ IInv /\ RspVCont => IInv'
  <1> SUFFICES ASSUME TypeOK, IInv, RspVCont PROVE IInv'
    OBVIOUS
  <1> USE DEF TypeOK
  <1>1. phase = "request" /\ fileIO = NoCore
    BY DEF RspVCont, Receive
  <1>2. ReasonIsReported
    BY DEF IInv
  <1>3. PICK actions \in VContPackets :
          LET letter(i) == getCoreAction(actions, i + 1)
              Refused(i) == letter(i) \notin {"NUL", "c", "C", "s", "S"}
              plan == [i \in Cores |->
                          IF \E j \in 0 .. i : Refused(j) THEN resumeType[i]
                          ELSE ActionType(letter(i), isLive[i])]
          IN  \/ phase' = "abort_hex" /\ UNCHANGED coreState
              \/ UNCHANGED <<coreState, phase>>
              \/ UNCHANGED <<runVars, lifeVars, sysVars, prepared, targetVars,
                             linkVars, phase>>
              \/ /\ \A i \in Cores : ~Refused(i)
                 /\ resumeType' = plan
                 /\ prepared' = plan
                 /\ DoCoreActions(plan, mHandlingSyscall)
    BY DEF RspVCont
  <1> DEFINE letter(i) == getCoreAction(actions, i + 1)
             Refused(i) == letter(i) \notin {"NUL", "c", "C", "s", "S"}
             plan == [i \in Cores |->
                        IF \E j \in 0 .. i : Refused(j) THEN resumeType[i]
                        ELSE ActionType(letter(i), isLive[i])]
  <1>4. ASSUME \A i \in Cores : ~Refused(i)
        PROVE  \A i \in Cores : IsRunning(plan, i) => isLive[i]
    <2> TAKE i \in Cores
    <2>1. \A j \in 0 .. i : j \in Cores
      BY GdbServerAssumption DEF Cores
    <2>2. plan[i] = ActionType(letter(i), isLive[i])
      BY <1>4, <2>1
    <2> HIDE DEF plan, letter, Refused
    <2> QED
      BY <2>2, ActionTypeLive DEF IsRunning
  <1> HIDE DEF letter, Refused, plan
  <1>5. CASE /\ UNCHANGED <<runVars, targetVars, linkVars>>
             /\ phase' \in {phase, "abort_hex"}
    <2>1. ReasonIsReported'
      BY <1>2, <1>5 DEF ReasonIsReported, runVars
    <2> QED
      BY <1>1, <1>2, <1>5, <2>1, QuietStep DEF targetVars, linkVars
  <1>6. CASE /\ \A i \in Cores : ~Refused(i)
             /\ resumeType' = plan
             /\ prepared' = plan
             /\ DoCoreActions(plan, mHandlingSyscall)
    BY <1>2, <1>4, <1>6, DoCoreActionsInv
  <1> QED
    BY <1>3, <1>5, <1>6 DEF letter, Refused, plan, coreState

\* rspSyscallReply resumes what was prepared before the call.
LEMMA SyscallReplyInv == TypeOK /\ IInv /\ RspSyscallReply => IInv'
  <1> SUFFICES ASSUME TypeOK, IInv, RspSyscallReply PROVE IInv'
    OBVIOUS
  <1>1. fileIO # NoCore /\ resumeType' = resumeType /\ prepared' = prepared
    BY DEF RspSyscallReply, Receive, planVars
  <1>2. /\ prepared = resumeType
        /\ \A j \in Cores : IsRunning(resumeType, j) => isLive[j]
        /\ ReasonIsReported
    BY <1>1 DEF IInv, PlanKept
  <1>3. CASE DoCoreActions(resumeType, FALSE)
    BY <1>1, <1>2, <1>3, DoCoreActionsInv DEF TypeOK
  <1>4. CASE BackToClient /\ fileIO' = NoCore /\ UNCHANGED runVars
    <2>1. ReasonIsReported'
      BY <1>2, <1>4 DEF ReasonIsReported, runVars
    <2>2. phase' = "request"
      BY <1>4 DEF BackToClient
    <2> QED
      BY <1>4, <2>1, <2>2, QuietStep
  <1> QED
    BY <1>3, <1>4 DEF RspSyscallReply

\* The wait loop.
LEMMA WaitInv == TypeOK /\ IInv /\ Wait => IInv'
  <1> SUFFICES ASSUME TypeOK, IInv, Wait PROVE IInv'
    OBVIOUS
  <1>1. phase = "wait" /\ resumeType' = resumeType /\ prepared' = prepared
    BY DEF Wait, Tick, CycleTick, WaitBreak, WaitAgain, WaitTimedOut, WaitEvent, WaitFault,
           vars, planVars
  <1>2. /\ ReasonIsReported
        /\ prepared = resumeType
        /\ \A j \in Cores : IsRunning(resumeType, j) => isLive[j]
        /\ \A j \in Cores : IsRunning(resumeType, j) => stopReported[j]
        /\ fileIO = NoCore
    BY <1>1 DEF IInv, RunsWhatWasAsked, NoStopOverwritten, PlanKept
  <1>3. CASE Tick \/ CycleTick \/ WaitAgain
    <2>1. UNCHANGED <<runVars, isLive, fileIO, phase, planVars>>
      BY <1>3 DEF Tick, CycleTick, WaitAgain, vars, lifeVars, linkVars
    <2> QED
      BY <1>1, <1>2, <2>1
         DEF IInv, ReasonIsReported, NoStopOverwritten, RunsWhatWasAsked,
             SyscallGoesToCaller, PlanKept, runVars, planVars
  <1>4. CASE WaitBreak \/ WaitTimedOut
    BY <1>2, <1>4, HaltAndReportInv DEF WaitBreak, WaitTimedOut
  <1>5. CASE WaitEvent
    <2> DEFINE ran == {i \in Cores : IsRunning(resumeType, i)}
               sr(results) == [i \in Cores |-> IF i \in ran THEN results[i]
                                                           ELSE stopReason[i]]
               rep(results) == [i \in Cores |-> IF i \in ran THEN results[i] = "NONE"
                                                            ELSE stopReported[i]]
    <2>1. PICK results \in [Cores -> StopResults \cup {"NONE"}] :
            \/ ProcessStopEvent(resumeType, sr(results), rep(results),
                                mHandlingSyscall, breakInFlight)
            \/ /\ phase' \in {"abort_pending", "abort_noEvent"}
               /\ UNCHANGED <<runVars, linkVars>>
      BY <1>5 DEF WaitEvent
    <2>2. sr(results) \in [Cores -> ResumeRes]
      BY GdbServerAssumption DEF TypeOK, StateTypeOK, ResumeRes
    <2>3. rep(results) \in [Cores -> BOOLEAN]
      BY DEF TypeOK, StateTypeOK
    <2>4. \A j \in Cores : sr(results)[j] = "NONE" => rep(results)[j]
      BY <1>2 DEF ReasonIsReported
    <2> HIDE DEF sr, rep
    <2>5. CASE ProcessStopEvent(resumeType, sr(results), rep(results),
                                mHandlingSyscall, breakInFlight)
      BY <1>1, <1>2, <2>2, <2>3, <2>4, <2>5, ProcessInv DEF TypeOK
    <2>6. CASE /\ phase' \in {"abort_pending", "abort_noEvent"}
               /\ UNCHANGED <<runVars, linkVars>>
      <3>1. ReasonIsReported' /\ fileIO' = NoCore
        BY <1>2, <2>6 DEF ReasonIsReported, runVars, linkVars
      <3> QED
        BY <2>6, <3>1, QuietStep
    <2> QED
      BY <2>1, <2>5, <2>6
  <1>6. CASE WaitFault
    <2>1. ReasonIsReported' /\ fileIO' = NoCore /\ phase' \in {"abort_wait", "abort_results"}
      BY <1>2, <1>6 DEF WaitFault, ReasonIsReported, runVars, linkVars
    <2> QED
      BY <2>1, QuietStep
  <1> QED
    BY <1>3, <1>4, <1>5, <1>6 DEF Wait

-----------------------------------------------------------------------------
\* A step that leaves alone everything the invariant speaks of keeps it.
LEMMA UnchangedInv ==
  ASSUME IInv, UNCHANGED <<runVars, isLive, mHandlingSyscall, planVars, currentCpu,
                           fileIO, phase>>
  PROVE  IInv'
  BY DEF IInv, ReasonIsReported, NoStopOverwritten, RunsWhatWasAsked,
         SyscallGoesToCaller, PlanKept, runVars, planVars

\* The packets that do not resume the target.
LEMMA RequestInv == TypeOK /\ IInv /\ RspClientRequest => IInv'
  <1> SUFFICES ASSUME TypeOK, IInv, RspClientRequest PROVE IInv'
    OBVIOUS
  <1>1. CASE RspVCont
    BY <1>1, VContInv
  <1>2. CASE RspSyscallReply
    BY <1>2, SyscallReplyInv
  <1>3. CASE RspAccess
    BY <1>3, UnchangedInv
       DEF RspAccess, coreState, lifeVars, sysVars, targetVars, linkVars
  <1>4. ASSUME fileIO = NoCore, phase = "request", UNCHANGED fileIO,
               phase' \in Phases \ {"wait"}, UNCHANGED runVars
        PROVE  IInv'
    <2>1. ReasonIsReported'
      BY <1>4 DEF IInv, ReasonIsReported, runVars
    <2> QED
      BY <1>4, <2>1, QuietStep
  <1>5. CASE RspOther \/ RspQuery \/ RspCommand \/ RspSetCommand \/ RspShowCommand
             \/ RspThreadInfo \/ RspLastSignal \/ RspSingleCycle \/ RspQueryCurrent
             \/ RspQuerySupported \/ RspStartNoAckMode \/ RspDetach \/ MonitorExit
             \/ MonitorTimeout \/ MonitorKillCoreOnExit
    <2> USE DEF RspOther, RspQuery, RspCommand, RspSetCommand, RspShowCommand,
                RspThreadInfo, RspLastSignal, RspSingleCycle, RspQueryCurrent,
                RspQuerySupported, RspStartNoAckMode, RspDetach, MonitorExit,
                MonitorTimeout, MonitorKillCoreOnExit
    <2>1. fileIO = NoCore /\ phase = "request"
      BY <1>5 DEF Receive
    <2>2. UNCHANGED coreState
      BY <1>5
    <2>3. phase' \in {"request", "connect", "exited", "abort_query", "abort_index",
                      "abort_flag"}
      BY <1>5, <2>1
    <2> QED
      BY <1>4, <2>1, <2>2, <2>3
         DEF coreState, targetVars, linkVars, Phases, Aborts
  <1>6. CASE RspSelect \/ RspVKill
    <2>1. fileIO = NoCore /\ phase = "request"
      BY <1>6 DEF RspSelect, RspVKill, Receive
    <2>2. UNCHANGED <<fileIO, runVars>>
      BY <1>6 DEF RspSelect, RspVKill, targetVars, linkVars
    <2>3. phase' \in {"request", "connect", "exited", "abort_hex"}
      BY <1>6, <2>1 DEF RspSelect, RspVKill
    <2> QED
      BY <1>4, <2>1, <2>2, <2>3 DEF Phases, Aborts
  <1>7. CASE MonitorReset
    <2>1. fileIO = NoCore /\ phase = "request"
      BY <1>7 DEF MonitorReset, Receive
    <2>2. UNCHANGED fileIO /\ phase' \in {"request", "abort_reset"}
      BY <1>7, <2>1 DEF MonitorReset, targetVars, linkVars
    <2>3. ReasonIsReported'
      BY <1>7 DEF MonitorReset, CoreManagerReset, ReasonIsReported
    <2> QED
      BY <2>1, <2>2, <2>3, QuietStep
  <1> QED
    BY <1>1, <1>2, <1>3, <1>5, <1>6, <1>7 DEF RspClientRequest

\* The connection and the client: a client that is lost takes the system
\* call it was serving with it.
LEMMA LinkInv == TypeOK /\ IInv /\ Link => IInv'
  <1> SUFFICES ASSUME TypeOK, IInv, Link PROVE IInv'
    OBVIOUS
  <1>1. CASE RspLost
    <2>1. ReasonIsReported'
      BY <1>1 DEF RspLost, IInv, ReasonIsReported, runVars
    <2> QED
      BY <1>1, <2>1, QuietStep DEF RspLost
  <1>2. CASE RspConnect \/ RspConnectRetry
    <2>1. phase = "connect" /\ fileIO = NoCore
      BY <1>2 DEF RspConnect, RspConnectRetry, IInv, PlanKept
    <2>2. UNCHANGED fileIO /\ phase' \in {"request", "connect"}
      BY <1>2, <2>1 DEF RspConnect, RspConnectRetry, targetVars, linkVars
    <2>3. ReasonIsReported'
      BY <1>2 DEF RspConnect, RspConnectRetry, CoreManagerReset, ReasonIsReported
    <2> QED
      BY <2>1, <2>2, <2>3, QuietStep
  <1>3. CASE RspConnectFails
    <2>1. fileIO' = NoCore /\ phase' = "failed" /\ ReasonIsReported'
      BY <1>3 DEF RspConnectFails, IInv, PlanKept, ReasonIsReported, coreState,
                  linkVars, runVars
    <2> QED
      BY <2>1, QuietStep
  <1>4. CASE ClientBreak \/ ClientVanishes
    BY <1>4, UnchangedInv
       DEF ClientBreak, ClientVanishes, coreState, lifeVars, sysVars, targetVars,
           linkVars
  <1> QED
    BY <1>1, <1>2, <1>3, <1>4 DEF Link

\* A step of the server keeps the invariant.
LEMMA NextInv == TypeOK /\ IInv /\ [Next]_vars => IInv'
  <1> SUFFICES ASSUME TypeOK, IInv, [Next]_vars PROVE IInv'
    OBVIOUS
  <1>1. CASE UNCHANGED vars
    BY <1>1, UnchangedInv DEF vars, lifeVars, sysVars, targetVars, linkVars
  <1>2. CASE Terminated
    BY <1>1, <1>2 DEF Terminated
  <1> QED
    BY <1>1, <1>2, WaitInv, RequestInv, LinkInv DEF Next

\* The state of the cores, the prepared target and the system call being
\* served agree in every state the server reaches, with any number of cores,
\* any packets and any failures of the target.
THEOREM Agreement == Spec => []IInv
  <1>1. Init => IInv
    BY DEF Init, IInv, ReasonIsReported, NoStopOverwritten, RunsWhatWasAsked,
           SyscallGoesToCaller, PlanKept
  <1> QED
    BY <1>1, NextInv, TypeCorrect, PTL DEF Spec

\* The fatal error "stopped, but already had a stop event pending" of
\* doCoreActions is unreachable: the wait loop is entered only when no core
\* that takes part has an unreported stop.
THEOREM NoStopIsOverwritten == Spec => []NoStopOverwritten
  <1>1. IInv => NoStopOverwritten
    BY DEF IInv
  <1> QED
    BY <1>1, Agreement, PTL

\* The target runs what the client asked for, and no dead core, whether it
\* was resumed by rspVCont or by rspSyscallReply.
THEOREM OnlyAskedCoresRun == Spec => []RunsWhatWasAsked
  <1>1. IInv => RunsWhatWasAsked
    BY DEF IInv
  <1> QED
    BY <1>1, Agreement, PTL

\* rspSyscallReply writes the result of a system call to the core that made
\* the call.
THEOREM ResultGoesToCaller == Spec => []SyscallGoesToCaller
  <1>1. IInv => SyscallGoesToCaller
    BY DEF IInv
  <1> QED
    BY <1>1, Agreement, PTL

-----------------------------------------------------------------------------
\* A report leaves the client with the selected core.
LEMMA ReportSelection ==
  ASSUME NEW sig, NEW cpu \in Nat, ReportException(sig, cpu), currentCpu' = cpu
  PROVE  SelectionKnown'
  BY DEF ReportException, NamedPid, SelectionKnown

LEMMA HaltAndReportSelection ==
  ASSUME StateTypeOK, NEW sig, NEW handling, HaltAndReport(sig, handling)
  PROVE  SelectionKnown'
  <1>1. currentCpu \in Nat /\ currentCpu' = currentCpu
    BY DEF HaltAndReport, StateTypeOK
  <1>2. CASE ReportException(sig, currentCpu)
    BY <1>1, <1>2, ReportSelection
  <1>3. CASE phase' = "abort_halt"
    BY <1>3 DEF SelectionKnown
  <1> QED
    BY <1>2, <1>3 DEF HaltAndReport

\* Whatever processStopEvents puts out, the client knows the core that is
\* selected, or serves its call, or is told of an exit.
LEMMA ProcessSelection ==
  ASSUME NEW rt, NEW sr, NEW rep, NEW handling, NEW inStream,
         ProcessStopEvent(rt, sr, rep, handling, inStream)
  PROVE  SelectionKnown'
  <1>1. PICK i \in Cores :
          /\ SetCurrentCpu(i)
          /\ \/ RspSyscallRequest(i, handling)
             \/ ReportException(StopSignal(sr[i]), i)
             \/ phase' = "abort_stop"
    BY DEF ProcessStopEvent
  <1>2. i \in Nat /\ i # NoCore /\ currentCpu' = i
    BY <1>1, CoresFacts DEF SetCurrentCpu
  <1>3. CASE ReportException(StopSignal(sr[i]), i)
    BY <1>2, <1>3, ReportSelection
  <1>4. CASE RspSyscallRequest(i, handling)
    <2>1. CASE phase' \in Aborts
      BY <2>1 DEF Aborts, SelectionKnown
    <2>2. CASE \E outcome \in SyscallOutcomes(mHaveSyscallSupport') :
                 /\ SyscallPacket(outcome, i)
                 /\ fileIO' = IF outcome = "file" THEN i ELSE NoCore
      <3>1. PICK outcome : /\ SyscallPacket(outcome, i)
                           /\ fileIO' = IF outcome = "file" THEN i ELSE NoCore
        BY <2>2
      <3>2. CASE outcome = "file"
        BY <1>2, <3>1, <3>2 DEF SelectionKnown
      <3>3. CASE outcome = "exit"
        BY <3>1, <3>3 DEF SyscallPacket, SelectionKnown
      <3>4. CASE outcome \notin {"file", "exit"}
        <4>1. ReportException("TRAP", i)
          BY <3>1, <3>4 DEF SyscallPacket
        <4> QED
          BY <1>2, <4>1, ReportSelection
      <3> QED
        BY <3>2, <3>3, <3>4
    <2> QED
      BY <1>4, <2>1, <2>2 DEF RspSyscallRequest, Aborts
  <1>5. CASE phase' = "abort_stop"
    BY <1>5 DEF SelectionKnown
  <1> QED
    BY <1>1, <1>3, <1>4, <1>5

LEMMA DoCoreActionsSelection ==
  ASSUME StateTypeOK, NEW rt, NEW handling, DoCoreActions(rt, handling)
  PROVE  SelectionKnown'
  <1>1. \/ HaltAndReport("INT", handling)
        \/ \E inStream : ProcessStopEvent(rt, stopReason, stopReported, handling, inStream)
        \/ phase' \in {"wait", "abort_resume"}
    BY DEF DoCoreActions
  <1>2. CASE phase' \in {"wait", "abort_resume"}
    BY <1>2 DEF SelectionKnown
  <1> QED
    BY <1>1, <1>2, HaltAndReportSelection, ProcessSelection

\* A process that the client names in an Hg that is answered OK is the one
\* that is selected: no number above the largest int gets there.
LEMMA NamedIsSelected ==
  ASSUME NEW m \in Ptids, NEW text \in PtidTexts, ~decodeAborts(text),
         decodes(m, text), crystalizes(decode(m, text)), AskedPid(text) # 0
  PROVE  crystalize(decode(m, text), PID_DEFAULT, TID_DEFAULT).pid = AskedPid(text)
  <1>1. text.form # "tid" /\ text.pid.kind = "hex" /\ AskedPid(text) = text.pid.val
    BY DEF AskedPid
  <1>2. text.pid.val \in Nat /\ text.pid.val < IntMod /\ text.pid.val # 0
    <2>1. text.pid.val \in Nat
      BY DEF PtidTexts, Fields
    <2>2. ~(text.pid.val >= IntMod)
      BY <1>1 DEF decodeAborts, tooLong
    <2> QED
      BY <1>1, <2>1, <2>2, MaxIntAssumption DEF IntMod
  <1>3. decode(m, text).pid = ToInt(text.pid.val)
    BY <1>1 DEF decode, ReadPtid, decodeField
  <1>4. text.pid.val % IntMod = text.pid.val
    BY <1>2, MaxIntAssumption DEF IntMod
  <1>5. ToInt(text.pid.val) = IF text.pid.val > MaxInt THEN text.pid.val - IntMod
                                                      ELSE text.pid.val
    BY <1>4 DEF ToInt
  <1>6. ToInt(text.pid.val) > 0 \/ ToInt(text.pid.val) = PTID_ANY
    BY <1>3 DEF crystalizes, validate, validField
  <1>7. ToInt(text.pid.val) = text.pid.val /\ ToInt(text.pid.val) # PTID_ANY
    BY <1>2, <1>5, <1>6, MaxIntAssumption DEF IntMod, PTID_ANY
  <1> QED
    BY <1>1, <1>3, <1>7 DEF crystalize

\* Hg keeps the client and the server in agreement on the selected core.
LEMMA SelectSelection == TypeOK /\ SelectionKnown /\ RspSelect => SelectionKnown'
  <1> SUFFICES ASSUME TypeOK, SelectionKnown, RspSelect PROVE SelectionKnown'
    OBVIOUS
  <1>1. phase = "request" /\ fileIO = NoCore
    BY DEF RspSelect, Receive
  <1>2. PICK text \in HgTexts :
          LET read == decode(mPtid, text)
          IN  \/ phase' = "abort_hex"
              \/ /\ ~decodeAborts(text)
                 /\ decodes(mPtid, text) /\ crystalizes(read)
                 /\ mPtid' = crystalize(read, PID_DEFAULT, TID_DEFAULT)
                 /\ currentCpu' = CoreOf(mPtid')
                 /\ reply' = [kind |-> "OK", sig |-> "NONE", pid |-> 0,
                              thread |-> AskedPid(text)]
              \/ Answer("E01") /\ UNCHANGED currentCpu
    BY DEF RspSelect
  <1>3. CASE phase' = "abort_hex"
    BY <1>3 DEF SelectionKnown
  <1>4. CASE Answer("E01") /\ UNCHANGED currentCpu
    BY <1>1, <1>4 DEF Answer, SelectionKnown
  <1>5. CASE /\ ~decodeAborts(text)
             /\ decodes(mPtid, text) /\ crystalizes(decode(mPtid, text))
             /\ mPtid' = crystalize(decode(mPtid, text), PID_DEFAULT, TID_DEFAULT)
             /\ currentCpu' = CoreOf(mPtid')
             /\ reply' = [kind |-> "OK", sig |-> "NONE", pid |-> 0,
                          thread |-> AskedPid(text)]
    <2>1. mPtid \in Ptids /\ text \in PtidTexts
      BY GdbServerAssumption DEF TypeOK, ConfTypeOK
    <2>2. AskedPid(text) # 0 => mPtid'.pid = AskedPid(text)
      BY <1>5, <2>1, NamedIsSelected
    <2> QED
      BY <1>5, <2>2 DEF CoreOf, SelectionKnown
  <1> QED
    BY <1>2, <1>3, <1>4, <1>5

\* A step of the server keeps the client's and the server's selection the
\* same.
LEMMA SelectionNext == TypeOK /\ SelectionKnown /\ [Next]_vars => SelectionKnown'
  <1> SUFFICES ASSUME TypeOK, SelectionKnown, [Next]_vars PROVE SelectionKnown'
    OBVIOUS
  <1>1. StateTypeOK /\ currentCpu \in Nat
    BY DEF TypeOK, StateTypeOK
  <1>2. ASSUME currentCpu' = currentCpu, fileIO' = fileIO,
               phase' = "request" => phase = "request",
               reply'.thread = reply.thread
        PROVE  SelectionKnown'
    BY <1>2 DEF SelectionKnown
  <1>3. CASE UNCHANGED vars \/ Terminated
    BY <1>2, <1>3 DEF Terminated, vars, targetVars, linkVars
  <1>4. CASE Wait
    <2>1. CASE WaitBreak \/ WaitTimedOut
      BY <1>1, <2>1, HaltAndReportSelection DEF WaitBreak, WaitTimedOut
    <2>2. CASE WaitEvent
      <3>1. \/ \E sr, rep : ProcessStopEvent(resumeType, sr, rep, mHandlingSyscall,
                                             breakInFlight)
            \/ phase' \in {"abort_pending", "abort_noEvent"}
        BY <2>2 DEF WaitEvent
      <3>2. CASE phase' \in {"abort_pending", "abort_noEvent"}
        BY <3>2 DEF SelectionKnown
      <3> QED
        BY <3>1, <3>2, ProcessSelection
    <2>3. CASE WaitFault
      BY <2>3 DEF WaitFault, SelectionKnown
    <2>4. CASE Tick \/ CycleTick \/ WaitAgain
      BY <1>2, <2>4 DEF Tick, CycleTick, WaitAgain, vars, targetVars, linkVars
    <2> QED
      BY <1>4, <2>1, <2>2, <2>3, <2>4 DEF Wait
  <1>5. CASE RspVCont
    <2>1. \/ phase' = "abort_hex"
          \/ Answer("E01") /\ UNCHANGED <<targetVars, linkVars, phase>>
          \/ \E rt : DoCoreActions(rt, mHandlingSyscall)
      BY <1>5 DEF RspVCont, coreState
    <2>2. CASE phase' = "abort_hex"
      BY <2>2 DEF SelectionKnown
    <2>3. CASE Answer("E01") /\ UNCHANGED <<targetVars, linkVars, phase>>
      BY <1>2, <2>3 DEF Answer, targetVars, linkVars
    <2> QED
      BY <1>1, <2>1, <2>2, <2>3, DoCoreActionsSelection
  <1>6. CASE RspSyscallReply
    <2>1. \/ DoCoreActions(resumeType, FALSE)
          \/ ReportException("INT", currentCpu) /\ UNCHANGED currentCpu
      BY <1>6 DEF RspSyscallReply
    <2> QED
      BY <1>1, <2>1, DoCoreActionsSelection, ReportSelection
  <1>7. CASE RspLastSignal \/ RspSingleCycle
    <2>1. UNCHANGED currentCpu
      BY <1>7 DEF RspLastSignal, RspSingleCycle, coreState, targetVars
    <2>2. (\E sig : ReportException(sig, currentCpu)) \/ phase' \in Aborts
      BY <1>7 DEF RspLastSignal, RspSingleCycle, Aborts
    <2>3. CASE phase' \in Aborts
      BY <2>3 DEF Aborts, SelectionKnown
    <2> QED
      BY <1>1, <2>1, <2>2, <2>3, ReportSelection
  <1>8. CASE RspAccess \/ RspOther \/ RspQuery \/ RspCommand \/ RspSetCommand
             \/ RspShowCommand \/ RspThreadInfo \/ RspQueryCurrent
             \/ RspQuerySupported \/ RspStartNoAckMode \/ RspDetach \/ MonitorExit
             \/ MonitorTimeout \/ MonitorKillCoreOnExit
    <2> USE DEF RspAccess, RspOther, RspQuery, RspCommand, RspSetCommand,
                RspShowCommand, RspThreadInfo, RspQueryCurrent, RspQuerySupported,
                RspStartNoAckMode, RspDetach, MonitorExit, MonitorTimeout,
                MonitorKillCoreOnExit
    <2>1. UNCHANGED coreState /\ phase = "request"
      BY <1>8 DEF Receive
    <2>2. reply'.thread = reply.thread
      BY <1>8 DEF RspWriteNextThreadInfo, Answer
    <2> QED
      BY <1>2, <2>1, <2>2 DEF coreState, targetVars, linkVars
  <1>9. CASE RspVKill \/ MonitorReset
    <2>1. UNCHANGED <<targetVars, linkVars>> /\ phase = "request"
      BY <1>9 DEF RspVKill, MonitorReset, Receive
    <2>2. reply'.thread = reply.thread
      BY <1>9 DEF RspVKill, MonitorReset, Answer
    <2> QED
      BY <1>2, <2>1, <2>2 DEF targetVars, linkVars
  <1>10. CASE Link
    <2>1. CASE RspConnect
      BY <2>1 DEF RspConnect, SelectionKnown
    <2>2. CASE RspLost \/ RspConnectRetry \/ RspConnectFails
      BY <2>2 DEF RspLost, RspConnectRetry, RspConnectFails, SelectionKnown
    <2>3. CASE ClientBreak \/ ClientVanishes
      BY <1>2, <2>3 DEF ClientBreak, ClientVanishes, coreState, targetVars, linkVars
    <2> QED
      BY <1>10, <2>1, <2>2, <2>3 DEF Link
  <1> QED
    BY <1>3, <1>4, <1>5, <1>6, <1>7, <1>8, <1>9, <1>10, SelectSelection
       DEF Next, RspClientRequest

\* What the client takes to be the selected core is the core that the
\* server reads and writes, with any number of cores, any width of int and
\* whatever happened in between.
THEOREM SelectionAgreed == Spec => []SelectionKnown
  <1>1. Init => SelectionKnown
    BY DEF Init, SelectionKnown
  <1> QED
    BY <1>1, SelectionNext, TypeCorrect, PTL DEF Spec

-----------------------------------------------------------------------------
\* An int stays what it is on its way through hex digits.
LEMMA ToIntSame == \A v \in Ints : ToInt(v) = v
  <1> TAKE v \in Ints
  <1>1. v \in Int /\ -MaxInt - 1 <= v /\ v <= MaxInt /\ MaxInt \in Nat
    BY MaxIntAssumption DEF Ints
  <1>2. CASE v >= 0
    <2>1. v % IntMod = v
      BY <1>1, <1>2 DEF IntMod
    <2> QED
      BY <1>1, <2>1 DEF ToInt
  <1>3. CASE v < 0
    <2>1. v % IntMod = v + IntMod
      BY <1>1, <1>3 DEF IntMod
    <2> QED
      BY <1>1, <1>3, <2>1 DEF ToInt, IntMod
  <1> QED
    BY <1>1, <1>2, <1>3

\* SyscallReplyPacket::parse makes of a reply of GDB what GDB means by it.
LEMMA GdbReplyRead ==
  ASSUME NEW p \in FPacketsType, IsGdbReply(p)
  PROVE  valid(p) /\ retcode(p) = Meaning(p)
  <1>1. p.ret.kind = "hex" /\ parseValue(p.ret) = p.ret.val
    BY ToIntSame DEF IsGdbReply, parseValue
  <1>2. CASE p.err.kind = "absent"
    BY <1>1, <1>2 DEF valid, retcode, errno, Meaning
  <1>3. CASE p.err.kind = "hex"
    <2>1. p.err.val \in Ints /\ p.err.val \in Nat
      BY <1>3, MaxIntAssumption DEF IsGdbReply, Ints
    <2>2. errno(p) = p.err.val
      BY <1>3, <2>1, ToIntSame DEF errno, parseValue
    <2>3. p.err.val > 0 => p.ret.val = -1
      BY <1>3 DEF IsGdbReply
    <2>4. p.mark # "junk"
      BY <1>3 DEF IsGdbReply
    <2> QED
      BY <1>1, <1>3, <2>1, <2>2, <2>3, <2>4 DEF valid, retcode, Meaning
  <1> QED
    BY <1>2, <1>3 DEF IsGdbReply

\* A step of the server keeps the results where they belong.
LEMMA ResultNext ==
  TypeOK /\ IInv /\ ResultReachesCaller /\ [Next]_vars => ResultReachesCaller'
  <1> SUFFICES ASSUME TypeOK, IInv, ResultReachesCaller, [Next]_vars
               PROVE  ResultReachesCaller'
    OBVIOUS
  <1>1. CASE UNCHANGED <<r10, meant>>
    BY <1>1 DEF ResultReachesCaller
  <1>2. CASE RspSyscallReply
    <2>1. fileIO \in Cores /\ currentCpu = fileIO
      BY <1>2 DEF RspSyscallReply, Receive, TypeOK, StateTypeOK, IInv, SyscallGoesToCaller
    <2>2. PICK p \in FPackets :
            /\ r10' = IF valid(p) /\ retcode(p) # -1
                      THEN [r10 EXCEPT ![fileIO] = retcode(p)] ELSE r10
            /\ meant' = [meant EXCEPT ![fileIO] =
                            IF IsGdbReply(p) THEN Meaning(p) ELSE NoResult]
      BY <1>2, <2>1 DEF RspSyscallReply
    <2>3. IsGdbReply(p) => valid(p) /\ retcode(p) = Meaning(p)
      BY GdbReplyRead, GdbServerAssumption
    <2>4. r10 \in [Cores -> Ints] /\ meant \in [Cores -> Ints]
      BY DEF TypeOK, ConfTypeOK
    <2> SUFFICES ASSUME NEW i \in Cores, meant'[i] # NoResult PROVE r10'[i] = meant'[i]
      BY DEF ResultReachesCaller
    <2>5. CASE i = fileIO
      BY <2>1, <2>2, <2>3, <2>4, <2>5 DEF NoResult
    <2>6. CASE i # fileIO
      BY <2>2, <2>4, <2>6 DEF ResultReachesCaller
    <2> QED
      BY <2>5, <2>6
  <1>3. CASE UNCHANGED vars \/ Terminated \/ Wait \/ Link
    BY <1>1, <1>3
       DEF vars, confVars, Terminated, Wait, Tick, CycleTick, WaitBreak, WaitAgain,
           WaitTimedOut, WaitEvent, WaitFault, Link, RspLost, RspConnect, RspConnectRetry,
           RspConnectFails, ClientBreak, ClientVanishes
  <1>4. CASE RspClientRequest /\ ~RspSyscallReply
    BY <1>1, <1>4
       DEF confVars, RspClientRequest, RspVCont, RspSelect, RspAccess, RspOther,
           RspQuery, RspCommand, RspSetCommand, RspShowCommand, RspThreadInfo,
           RspLastSignal, RspSingleCycle, RspQueryCurrent, RspQuerySupported,
           RspStartNoAckMode, RspVKill, RspDetach, MonitorReset, MonitorExit,
           MonitorTimeout, MonitorKillCoreOnExit
  <1> QED
    BY <1>2, <1>3, <1>4 DEF Next

\* The result of a system call gets to register 10 of the core that made the
\* call, and to no other core, with any number of cores, any width of int
\* and whichever stops, losses of the client and failures of the target
\* come in between.
THEOREM ResultsReachCallers == Spec => []ResultReachesCaller
  <1>1. Init => ResultReachesCaller
    BY DEF Init, ResultReachesCaller
  <1> QED
    BY <1>1, ResultNext, Agreement, TypeCorrect, PTL DEF Spec
=============================================================================
