-------------------------- MODULE GdbServer_proofs --------------------------
(***************************************************************************)
(* Proofs about GdbServer for any number of cores, any packets, any        *)
(* results of the target and any of its failures.                          *)
(***************************************************************************)
EXTENDS GdbServer, TLAPS

\* Cores are numbered from zero, and there is at least one.
LEMMA CoresFacts == Cores \subseteq Nat /\ NoCore \notin Cores /\ 0 \in Cores
  BY GdbServerAssumption DEF Cores, NoCore

\* A reduction to the width of an unsigned int stays in its range.
LEMMA ModRange == \A n \in Int, m \in Nat \ {0} : n % m \in 0 .. m - 1
  BY SMT

\* What a hex field decodes to is an int.
LEMMA DecodeFieldInt == \A f \in Fields : decodeField(f) \in Ints
  <1> TAKE f \in Fields
  <1>1. f.val \in Nat /\ IntMod \in Nat \ {0}
    BY MaxIntAssumption DEF Fields, IntMod
  <1>2. f.val % IntMod \in 0 .. IntMod - 1
    <2>1. f.val \in Int
      BY <1>1
    <2> QED
      BY <1>1, <2>1, ModRange, Zenon
  <1>3. ToInt(f.val) \in Ints
    BY <1>2, MaxIntAssumption DEF ToInt, IntMod, Ints
  <1>4. {PTID_ANY, PTID_ALL, PTID_INV} \subseteq Ints
    BY MaxIntAssumption DEF PTID_ANY, PTID_ALL, PTID_INV, Ints
  <1> QED
    BY <1>3, <1>4 DEF decodeField

\* A number of any size becomes an int.
LEMMA ToIntInt == \A n \in Int : ToInt(n) \in Ints
  <1> TAKE n \in Int
  <1>1. IntMod \in Nat \ {0}
    BY MaxIntAssumption DEF IntMod
  <1>2. n % IntMod \in 0 .. IntMod - 1
    BY <1>1, ModRange, Zenon
  <1> QED
    BY <1>2, MaxIntAssumption DEF ToInt, IntMod, Ints

\* The result of a well formed reply to a system call is an int, also if it
\* is the negation of an errno.
LEMMA RetcodeInt == \A p \in FPacketsType : valid(p) => retcode(p) \in Ints
  <1> TAKE p \in FPacketsType
  <1>1. parseValue(p.ret) \in Ints /\ parseValue(p.err) \in Ints
    BY ToIntInt DEF FPacketsType, Numbers, parseValue
  <1>2. 0 \in Ints
    BY MaxIntAssumption DEF Ints
  <1>3. errno(p) \in Ints
    BY <1>1, <1>2 DEF errno
  <1>4. errno(p) > 0 => -errno(p) \in Ints
    BY <1>3, MaxIntAssumption DEF Ints
  <1> QED
    BY <1>1, <1>4 DEF retcode

\* What GDB means by a reply is an int.
LEMMA MeaningInt == \A p \in FPacketsType : IsGdbReply(p) => Meaning(p) \in Ints
  BY MaxIntAssumption DEF FPacketsType, Numbers, IsGdbReply, Meaning, Ints

\* Ptid::decode keeps an identifier an identifier.
LEMMA DecodePtid == \A m \in Ptids, text \in PtidTexts : decode(m, text) \in Ptids
  <1> TAKE m \in Ptids, text \in PtidTexts
  <1>1. decodeField(text.pid) \in Ints /\ decodeField(text.tid) \in Ints
    BY DecodeFieldInt DEF PtidTexts
  <1>2. PTID_ALL \in Ints
    BY MaxIntAssumption DEF PTID_ALL, Ints
  <1> QED
    BY <1>1, <1>2 DEF decode, ReadPtid, Ptids

\* Ptid::crystalize yields a concrete process: Hg never selects a core
\* below zero, whatever the text was.
LEMMA CrystalizePtid ==
  ASSUME NEW m \in Ptids, crystalizes(m)
  PROVE  /\ crystalize(m, PID_DEFAULT, TID_DEFAULT) \in Ptids
         /\ crystalize(m, PID_DEFAULT, TID_DEFAULT).pid >= 1
  BY MaxIntAssumption
     DEF crystalizes, crystalize, validate, validField, Ptids, Ints,
         PTID_ANY, PTID_ALL, PTID_INV, PID_DEFAULT, TID_DEFAULT

-----------------------------------------------------------------------------
\* The packets put out are replies.
LEMMA AnswerType ==
  ASSUME reply \in Replies, NEW kind \in ReplyKinds, Answer(kind)
  PROVE  reply' \in Replies
  BY DEF Answer, Replies, TargetSignal

LEMMA NamedPidInt == \A cpu \in Nat : NamedPid(cpu) \in Int
  BY DEF NamedPid

LEMMA ReportType ==
  ASSUME NEW sig \in TargetSignal, NEW cpu \in Nat, ReportException(sig, cpu)
  PROVE  reply' \in Replies
  BY NamedPidInt DEF ReportException, Replies, ReplyKinds

LEMMA PutPktType ==
  ASSUME NEW remembered \in BOOLEAN, NEW inStream \in BOOLEAN,
         PutPkt(remembered, inStream)
  PROVE  mHavePendingBreak' \in BOOLEAN /\ breakInFlight' \in BOOLEAN
  BY DEF PutPkt

LEMMA KillType ==
  ASSUME isLive \in [Cores -> BOOLEAN], mLiveCores \in 0 .. UintMod - 1,
         NEW i \in Cores, KillCoreNum(i)
  PROVE  isLive' \in [Cores -> BOOLEAN] /\ mLiveCores' \in 0 .. UintMod - 1
  <1>1. isLive' \in [Cores -> BOOLEAN]
    BY DEF KillCoreNum
  <1>2. mLiveCores - 1 \in Int /\ UintMod \in Nat \ {0}
    BY GdbServerAssumption
  <1>3. (mLiveCores - 1) % UintMod \in 0 .. UintMod - 1
    BY <1>2, ModRange, Zenon
  <1> QED
    BY <1>1, <1>3 DEF KillCoreNum

\* rspSyscallRequest assigns values of the right types.
LEMMA SyscallRequestType ==
  ASSUME StateTypeOK, NEW i \in Cores, NEW handling \in BOOLEAN,
         RspSyscallRequest(i, handling)
  PROVE  /\ isLive' \in [Cores -> BOOLEAN]
         /\ mLiveCores' \in 0 .. UintMod - 1
         /\ mHandlingSyscall' \in BOOLEAN
         /\ mHaveSyscallArgLocs' \in BOOLEAN
         /\ mHaveSyscallSupport' \in BOOLEAN
         /\ mCycleStamp' \in 0 .. CycleMod - 1
         /\ elapsed' \in Nat
         /\ cycles' \in Nat
         /\ fileIO' \in Cores \cup {NoCore}
         /\ phase' \in Phases
         /\ reply' \in Replies
  <1>1. CASE handling /\ phase' = "abort_nested" /\ ClocksStop
             /\ mHandlingSyscall' = handling /\ fileIO' = NoCore
             /\ UNCHANGED <<mHaveSyscallArgLocs, mHaveSyscallSupport, lifeVars, reply>>
    BY <1>1 DEF StateTypeOK, ClocksStop, lifeVars, Phases, Aborts
  <1>2. CASE /\ ~handling
             /\ BackToClient
             /\ mHaveSyscallArgLocs' = TRUE
             /\ mHaveSyscallSupport' \in IF mHaveSyscallArgLocs
                                         THEN {mHaveSyscallSupport} ELSE SupportAnswers
             /\ \E outcome \in SyscallOutcomes(mHaveSyscallSupport') :
                  /\ SyscallPacket(outcome, i)
                  /\ mHandlingSyscall' = HandlingAfter(outcome)
                  /\ fileIO' = IF outcome = "file" THEN i ELSE NoCore
                  /\ IF outcome = "exit" THEN KillCoreNum(i) ELSE UNCHANGED lifeVars
    <2>1. PICK outcome \in SyscallOutcomes(mHaveSyscallSupport') :
                  /\ SyscallPacket(outcome, i)
                  /\ mHandlingSyscall' = HandlingAfter(outcome)
                  /\ fileIO' = IF outcome = "file" THEN i ELSE NoCore
                  /\ IF outcome = "exit" THEN KillCoreNum(i) ELSE UNCHANGED lifeVars
      BY <1>2
    <2>2. isLive' \in [Cores -> BOOLEAN] /\ mLiveCores' \in 0 .. UintMod - 1
      BY <2>1, KillType DEF StateTypeOK, lifeVars
    <2>3. reply' \in Replies
      <3>1. i \in Nat
        BY CoresFacts
      <3>2. CASE outcome = "file"
        BY <2>1, <3>2, AnswerType DEF SyscallPacket, ReplyKinds, StateTypeOK
      <3>3. CASE outcome = "exit"
        BY <2>1, <3>1, <3>3, NamedPidInt
           DEF SyscallPacket, Replies, ReplyKinds, TargetSignal
      <3>4. CASE outcome \notin {"file", "exit"}
        BY <2>1, <3>1, <3>4, ReportType DEF SyscallPacket, TargetSignal
      <3> QED
        BY <3>2, <3>3, <3>4
    <2>4. mHaveSyscallSupport' \in BOOLEAN
      BY <1>2, GdbServerAssumption DEF StateTypeOK
    <2>5. mHandlingSyscall' \in BOOLEAN
      BY <2>1 DEF HandlingAfter
    <2> QED
      BY <1>2, <2>1, <2>2, <2>3, <2>4, <2>5 
         DEF StateTypeOK, BackToClient, ClocksStop, Phases
  <1>3. CASE /\ mHaveSyscallArgLocs' = TRUE
             /\ mHaveSyscallSupport' \in (IF mHaveSyscallArgLocs
                                          THEN {mHaveSyscallSupport}
                                          ELSE SupportAnswers) \cap {TRUE}
             /\ phase' = "abort_args"
             /\ ClocksStop
             /\ mHandlingSyscall' = TRUE
             /\ fileIO' = NoCore
             /\ UNCHANGED <<lifeVars, reply>>
    BY <1>3 DEF StateTypeOK, ClocksStop, lifeVars, Phases, Aborts
  <1> QED
    BY <1>1, <1>2, <1>3 DEF RspSyscallRequest

\* processStopEvents keeps the state well typed.
LEMMA ProcessType ==
  ASSUME StateTypeOK,
         NEW rt, NEW sr \in [Cores -> ResumeRes], NEW rep \in [Cores -> BOOLEAN],
         NEW handling \in BOOLEAN, NEW inStream \in BOOLEAN,
         ProcessStopEvent(rt, sr, rep, handling, inStream)
  PROVE  StateTypeOK'
  <1>1. PICK i \in Cores :
          /\ IsNextStopEvent(i, rt, sr, rep)
          /\ stopReason' = sr
          /\ stopReported' = ReportStopReason(rep, i)
          /\ SetCurrentCpu(i)
          /\ PutPkt(mHavePendingBreak, inStream)
          /\ \/ /\ sr[i] = "SYSCALL"
                /\ RspSyscallRequest(i, handling)
             \/ /\ sr[i] \in {"INTERRUPTED", "STEPPED", "LOCKSTEP"}
                /\ ReportException(StopSignal(sr[i]), i)
                /\ BackToClient
                /\ mHandlingSyscall' = handling
                /\ fileIO' = NoCore
                /\ UNCHANGED <<mHaveSyscallArgLocs, mHaveSyscallSupport, lifeVars>>
             \/ /\ sr[i] \in {"SUCCESS", "FAILURE", "TIMEOUT"}
                /\ phase' = "abort_stop"
                /\ ClocksStop
                /\ mHandlingSyscall' = handling
                /\ fileIO' = NoCore
                /\ UNCHANGED <<mHaveSyscallArgLocs, mHaveSyscallSupport, lifeVars,
                               reply>>
    BY DEF ProcessStopEvent
  <1>2. stopReason' \in [Cores -> ResumeRes] /\ stopReported' \in [Cores -> BOOLEAN]
    BY <1>1 DEF ReportStopReason
  <1>3. currentCpu' \in Nat
    BY <1>1, CoresFacts DEF SetCurrentCpu
  <1>4. mHavePendingBreak' \in BOOLEAN /\ breakInFlight' \in BOOLEAN
    BY <1>1, PutPktType DEF StateTypeOK
  <1>5. CASE sr[i] = "SYSCALL" /\ RspSyscallRequest(i, handling)
    BY <1>2, <1>3, <1>4, <1>5, SyscallRequestType DEF StateTypeOK
  <1>6. CASE /\ ReportException(StopSignal(sr[i]), i)
             /\ BackToClient
             /\ mHandlingSyscall' = handling
             /\ fileIO' = NoCore
             /\ UNCHANGED <<mHaveSyscallArgLocs, mHaveSyscallSupport, lifeVars>>
    <2>1. reply' \in Replies
      BY <1>6, CoresFacts, ReportType DEF StopSignal, TargetSignal
    <2> QED
      BY <1>2, <1>3, <1>4, <1>6, <2>1
         DEF StateTypeOK, BackToClient, ClocksStop, lifeVars, Phases
  <1>7. CASE /\ phase' = "abort_stop"
             /\ ClocksStop
             /\ mHandlingSyscall' = handling
             /\ fileIO' = NoCore
             /\ UNCHANGED <<mHaveSyscallArgLocs, mHaveSyscallSupport, lifeVars, reply>>
    BY <1>2, <1>3, <1>4, <1>7
       DEF StateTypeOK, ClocksStop, lifeVars, Phases, Aborts
  <1> QED
    BY <1>1, <1>5, <1>6, <1>7

\* A halt and its report keep the state well typed, given the link's part.
LEMMA HaltAndReportType ==
  ASSUME StateTypeOK, NEW sig \in TargetSignal, NEW handling \in BOOLEAN,
         HaltAndReport(sig, handling),
         mHavePendingBreak' \in BOOLEAN, breakInFlight' \in BOOLEAN
  PROVE  StateTypeOK'
  <1>1. CASE ReportException(sig, currentCpu) /\ BackToClient
    <2>1. reply' \in Replies
      BY <1>1, ReportType DEF StateTypeOK
    <2> QED
      BY <1>1, <2>1 DEF HaltAndReport, StateTypeOK, BackToClient, ClocksStop,
                        runVars, lifeVars, Phases
  <1>2. CASE phase' = "abort_halt" /\ UNCHANGED <<reply, clockVars>>
    BY <1>2 DEF HaltAndReport, StateTypeOK, runVars, lifeVars, clockVars, Phases, Aborts
  <1> QED
    BY <1>1, <1>2 DEF HaltAndReport

\* doCoreActions keeps the state well typed.
LEMMA DoCoreActionsType ==
  ASSUME StateTypeOK, NEW rt, NEW handling \in BOOLEAN, DoCoreActions(rt, handling)
  PROVE  StateTypeOK'
  <1>1. PICK arrival \in BreakArrivals :
          \/ /\ HaveBreak(arrival)
             /\ PutPkt(FALSE, StillInStream(arrival))
             /\ HaltAndReport("INT", handling)
          \/ /\ ~HaveBreak(arrival)
             /\ ProcessStopEvent(rt, stopReason, stopReported, handling,
                                 StillInStream(arrival))
          \/ /\ ~HaveBreak(arrival)
             /\ StopEvents(rt, stopReason, stopReported) = {}
             /\ TimeStamp
             /\ mHandlingSyscall' = handling
             /\ fileIO' = NoCore
             /\ mHavePendingBreak' = FALSE
             /\ breakInFlight' = (arrival = "late")
             /\ UNCHANGED <<runVars, lifeVars, mHaveSyscallArgLocs,
                            mHaveSyscallSupport, currentCpu, reply>>
             /\ \/ phase' = "wait"
                \/ "resume" \in TargetFaults /\ phase' = "abort_resume"
    BY DEF DoCoreActions
  <1>2. StillInStream(arrival) \in BOOLEAN
    BY DEF StillInStream
  <1>3. CASE /\ PutPkt(FALSE, StillInStream(arrival))
             /\ HaltAndReport("INT", handling)
    <2>1. mHavePendingBreak' \in BOOLEAN /\ breakInFlight' \in BOOLEAN
      BY <1>2, <1>3, PutPktType
    <2> QED
      BY <1>3, <2>1, HaltAndReportType DEF TargetSignal
  <1>4. CASE ProcessStopEvent(rt, stopReason, stopReported, handling,
                              StillInStream(arrival))
    <2>1. stopReason \in [Cores -> ResumeRes] /\ stopReported \in [Cores -> BOOLEAN]
      BY DEF StateTypeOK
    <2> QED
      BY <1>2, <1>4, <2>1, ProcessType
  <1>5. CASE /\ TimeStamp
             /\ mHandlingSyscall' = handling
             /\ fileIO' = NoCore
             /\ mHavePendingBreak' = FALSE
             /\ breakInFlight' = (arrival = "late")
             /\ UNCHANGED <<runVars, lifeVars, mHaveSyscallArgLocs,
                            mHaveSyscallSupport, currentCpu, reply>>
             /\ \/ phase' = "wait"
                \/ "resume" \in TargetFaults /\ phase' = "abort_resume"
    BY <1>5, GdbServerAssumption
       DEF StateTypeOK, TimeStamp, runVars, lifeVars, Phases, Aborts
  <1> QED
    BY <1>1, <1>3, <1>4, <1>5

\* The resume types rspVCont works out are resume types.
LEMMA ActionTypeType == \A letter, live : ActionType(letter, live) \in ResumeType
  BY DEF ActionType, ResumeType

\* The reset of the core manager.
LEMMA ResetType ==
  ASSUME CoreManagerReset
  PROVE  /\ stopReason' \in [Cores -> ResumeRes]
         /\ resumeType' \in [Cores -> ResumeType]
         /\ stopReported' \in [Cores -> BOOLEAN]
         /\ isLive' \in [Cores -> BOOLEAN]
         /\ mLiveCores' \in 0 .. UintMod - 1
  BY GdbServerAssumption DEF CoreManagerReset, ResumeRes, ResumeType

\* The groups of variables in UNCHANGED.
LEMMA UnchangedState ==
  ASSUME StateTypeOK, UNCHANGED <<runVars, lifeVars, sysVars, targetVars, linkVars>>,
         phase' \in Phases, reply' \in Replies
  PROVE  StateTypeOK'
  BY DEF StateTypeOK, runVars, lifeVars, sysVars, targetVars, linkVars

-----------------------------------------------------------------------------
\* rspVCont keeps TypeOK.
LEMMA VContType == TypeOK /\ RspVCont => TypeOK'
  <1> SUFFICES ASSUME TypeOK, RspVCont PROVE TypeOK'
    OBVIOUS
  <1> USE DEF TypeOK
  <1>1. ConfTypeOK'
    BY DEF RspVCont, ConfTypeOK, confVars
  <1>2. PICK actions \in VContPackets :
          LET letter(i) == getCoreAction(actions, i + 1)
              Refused(i) == letter(i) \notin {"NUL", "c", "C", "s", "S"}
              plan == [i \in Cores |->
                          IF \E j \in 0 .. i : Refused(j) THEN resumeType[i]
                          ELSE ActionType(letter(i), isLive[i])]
          IN  \/ /\ phase' = "abort_hex"
                 /\ UNCHANGED <<coreState, reply>>
              \/ /\ Answer("E01")
                 /\ UNCHANGED <<coreState, phase>>
              \/ /\ \E i \in Cores : Refused(i)
                 /\ resumeType' = plan
                 /\ Answer("E01")
                 /\ UNCHANGED <<runVars, lifeVars, sysVars, prepared, targetVars,
                                linkVars, phase>>
              \/ /\ \A i \in Cores : ~Refused(i)
                 /\ resumeType' = plan
                 /\ prepared' = plan
                 /\ DoCoreActions(plan, mHandlingSyscall)
    BY DEF RspVCont
  <1> DEFINE letter(i) == getCoreAction(actions, i + 1)
             Refused(i) == letter(i) \notin {"NUL", "c", "C", "s", "S"}
             plan == [i \in Cores |->
                        IF \E j \in 0 .. i : Refused(j) THEN resumeType[i]
                        ELSE ActionType(letter(i), isLive[i])]
  <1>3. plan \in [Cores -> ResumeType]
    BY ActionTypeType DEF PlanTypeOK
  <1> HIDE DEF letter, Refused, plan
  <1>4. CASE Answer("E01") /\ UNCHANGED <<coreState, phase>>
    <2>1. reply' \in Replies
      BY <1>4, AnswerType DEF ReplyKinds, StateTypeOK
    <2>2. StateTypeOK'
      BY <1>4, <2>1, UnchangedState DEF coreState, StateTypeOK
    <2> QED
      BY <1>1, <1>4, <2>2 DEF PlanTypeOK, coreState, planVars
  <1>5. CASE /\ resumeType' = plan
             /\ Answer("E01")
             /\ UNCHANGED <<runVars, lifeVars, sysVars, prepared, targetVars,
                            linkVars, phase>>
    <2>1. reply' \in Replies
      BY <1>5, AnswerType DEF ReplyKinds, StateTypeOK
    <2>2. StateTypeOK'
      BY <1>5, <2>1, UnchangedState DEF StateTypeOK
    <2> QED
      BY <1>1, <1>3, <1>5, <2>2 DEF PlanTypeOK
  <1>6. CASE /\ resumeType' = plan
             /\ prepared' = plan
             /\ DoCoreActions(plan, mHandlingSyscall)
    <2>1. StateTypeOK'
      BY <1>6, DoCoreActionsType DEF StateTypeOK
    <2> QED
      BY <1>1, <1>3, <1>6, <2>1 DEF PlanTypeOK
  <1>7. CASE phase' = "abort_hex" /\ UNCHANGED <<coreState, reply>>
    <2>1. StateTypeOK'
      BY <1>7, UnchangedState DEF coreState, StateTypeOK, Phases, Aborts
    <2> QED
      BY <1>1, <1>7, <2>1 DEF PlanTypeOK, coreState, planVars
  <1> QED
    BY <1>2, <1>4, <1>5, <1>6, <1>7 DEF letter, Refused, plan

\* rspSyscallReply keeps TypeOK.
LEMMA SyscallReplyType == TypeOK /\ RspSyscallReply => TypeOK'
  <1> SUFFICES ASSUME TypeOK, RspSyscallReply PROVE TypeOK'
    OBVIOUS
  <1> USE DEF TypeOK
  <1>1. ConfTypeOK' /\ PlanTypeOK'
    <2>0. meant' \in [Cores -> Ints]
      <3>1. PICK p \in FPackets :
              meant' = [meant EXCEPT ![fileIO] =
                           IF IsGdbReply(p) THEN Meaning(p) ELSE NoResult]
        BY DEF RspSyscallReply
      <3>2. IsGdbReply(p) => Meaning(p) \in Ints
        BY MeaningInt, GdbServerAssumption
      <3>3. NoResult \in Ints
        BY MaxIntAssumption DEF NoResult, Ints
      <3> QED
        BY <3>1, <3>2, <3>3 DEF ConfTypeOK
    <2>1. r10' \in [Cores -> Ints]
      <3>1. PICK p \in FPackets :
              r10' = IF valid(p) /\ retcode(p) # -1
                     THEN [r10 EXCEPT ![currentCpu] = retcode(p)] ELSE r10
        BY DEF RspSyscallReply
      <3>2. valid(p) => retcode(p) \in Ints
        BY RetcodeInt, GdbServerAssumption
      <3> QED
        BY <3>1, <3>2 DEF ConfTypeOK
    <2> QED
      BY <2>0, <2>1 DEF RspSyscallReply, ConfTypeOK, PlanTypeOK, planVars
  <1>2. CASE DoCoreActions(resumeType, FALSE)
    BY <1>1, <1>2, DoCoreActionsType
  <1>3. CASE /\ mHandlingSyscall' = FALSE
             /\ BackToClient
             /\ ReportException("INT", currentCpu)
             /\ mHavePendingBreak' = FALSE
             /\ breakInFlight' = FALSE
             /\ fileIO' = NoCore
             /\ UNCHANGED <<runVars, lifeVars, mHaveSyscallArgLocs,
                            mHaveSyscallSupport, currentCpu>>
    <2>1. reply' \in Replies
      BY <1>3, ReportType DEF StateTypeOK, TargetSignal
    <2>2. StateTypeOK'
      BY <1>3, <2>1 DEF StateTypeOK, BackToClient, ClocksStop,
                        runVars, lifeVars, Phases
    <2> QED
      BY <1>1, <2>2
  <1> QED
    BY <1>2, <1>3 DEF RspSyscallReply

\* The steps of the wait loop keep TypeOK.
LEMMA WaitType == TypeOK /\ Wait => TypeOK'
  <1> SUFFICES ASSUME TypeOK, Wait PROVE TypeOK'
    OBVIOUS
  <1> USE DEF TypeOK
  <1>1. ConfTypeOK' /\ PlanTypeOK'
    BY DEF Wait, Tick, CycleTick, WaitBreak, WaitAgain, WaitTimedOut, WaitEvent,
           WaitFault, vars, ConfTypeOK, confVars, PlanTypeOK, planVars
  <1>2. CASE Tick \/ CycleTick
    BY <1>1, <1>2 DEF Tick, CycleTick, StateTypeOK, runVars, lifeVars, sysVars, linkVars
  <1>3. CASE WaitBreak
    BY <1>1, <1>3, HaltAndReportType DEF WaitBreak, StateTypeOK, TargetSignal
  <1>4. CASE WaitAgain
    BY <1>1, <1>4 DEF WaitAgain, vars, StateTypeOK, runVars, lifeVars, sysVars,
                      targetVars, linkVars
  <1>5. CASE WaitTimedOut
    <2>1. mHavePendingBreak' \in BOOLEAN /\ breakInFlight' \in BOOLEAN
      BY <1>5, PutPktType DEF WaitTimedOut
    <2> QED
      BY <1>1, <1>5, <2>1, HaltAndReportType DEF WaitTimedOut, StateTypeOK, TargetSignal
  <1>6. CASE WaitEvent
    <2> DEFINE ran == {i \in Cores : IsRunning(resumeType, i)}
               sr(results) == [i \in Cores |-> IF i \in ran THEN results[i]
                                                           ELSE stopReason[i]]
               rep(results) == [i \in Cores |-> IF i \in ran THEN results[i] = "NONE"
                                                            ELSE stopReported[i]]
    <2>1. PICK results \in [Cores -> StopResults \cup {"NONE"}] :
            \/ /\ phase' = "abort_pending"
               /\ UNCHANGED <<runVars, lifeVars, sysVars, targetVars, linkVars, reply>>
            \/ ProcessStopEvent(resumeType, sr(results), rep(results),
                                mHandlingSyscall, breakInFlight)
            \/ /\ phase' = "abort_noEvent"
               /\ UNCHANGED <<runVars, lifeVars, sysVars, targetVars, linkVars, reply>>
      BY <1>6 DEF WaitEvent
    <2>2. sr(results) \in [Cores -> ResumeRes]
      BY GdbServerAssumption DEF StateTypeOK, ResumeRes
    <2>3. rep(results) \in [Cores -> BOOLEAN]
      BY DEF StateTypeOK
    <2> HIDE DEF sr, rep
    <2>4. CASE ProcessStopEvent(resumeType, sr(results), rep(results),
                                mHandlingSyscall, breakInFlight)
      <3>1. mHandlingSyscall \in BOOLEAN /\ breakInFlight \in BOOLEAN
        BY DEF StateTypeOK
      <3>2. StateTypeOK'
        BY <2>2, <2>3, <2>4, <3>1, ProcessType
      <3> QED
        BY <1>1, <3>2
    <2>5. CASE /\ phase' \in {"abort_pending", "abort_noEvent"}
               /\ UNCHANGED <<runVars, lifeVars, sysVars, targetVars, linkVars, reply>>
      BY <1>1, <2>5, UnchangedState DEF StateTypeOK, Phases, Aborts
    <2> QED
      BY <2>1, <2>4, <2>5
  <1>7. CASE WaitFault
    <2>1. phase' \in Phases
      BY <1>7 DEF WaitFault, Phases, Aborts
    <2> QED
      BY <1>1, <1>7, <2>1, UnchangedState DEF WaitFault, StateTypeOK
  <1> QED
    BY <1>2, <1>3, <1>4, <1>5, <1>6, <1>7 DEF Wait

\* The other packets keep TypeOK.
LEMMA RequestType == TypeOK /\ RspClientRequest => TypeOK'
  <1> SUFFICES ASSUME TypeOK, RspClientRequest PROVE TypeOK'
    OBVIOUS
  <1> USE DEF TypeOK
  <1>1. CASE RspVCont
    BY <1>1, VContType
  <1>2. CASE RspSyscallReply
    BY <1>2, SyscallReplyType
  <1>3. CASE \/ RspAccess \/ RspOther \/ RspQuery
             \/ RspCommand \/ RspSetCommand \/ RspShowCommand
    <2>1. /\ (\E kind \in ReplyKinds : Answer(kind)) \/ UNCHANGED reply
          /\ UNCHANGED phase \/ phase' = "abort_flag"
          /\ UNCHANGED <<coreState, confVars, peerGone>>
      BY <1>3 DEF RspAccess, RspOther, RspQuery, RspCommand, RspSetCommand,
                  RspShowCommand, ReplyKinds
    <2>2. reply' \in Replies
      BY <2>1, AnswerType DEF StateTypeOK
    <2>3. phase' \in Phases
      BY <2>1 DEF StateTypeOK, Phases, Aborts
    <2>4. StateTypeOK'
      BY <2>1, <2>2, <2>3, UnchangedState DEF coreState
    <2> QED
      BY <2>1, <2>4 DEF coreState, PlanTypeOK, planVars, ConfTypeOK, confVars
  <1>4. CASE RspLastSignal \/ RspSingleCycle
    <2>1. reply' \in Replies /\ phase' \in Phases
      BY <1>4, ReportType DEF RspLastSignal, RspSingleCycle, StateTypeOK,
                              TargetSignal, Phases, Aborts
    <2>2. StateTypeOK'
      BY <1>4, <2>1, UnchangedState DEF RspLastSignal, RspSingleCycle, coreState
    <2> QED
      BY <1>4, <2>2 DEF RspLastSignal, RspSingleCycle, coreState, PlanTypeOK,
                        planVars, ConfTypeOK, confVars
  <1>5. CASE RspSelect
    <2>1. PICK text \in HgTexts :
            LET read == decode(mPtid, text)
            IN  \/ /\ phase' = "abort_hex"
                   /\ UNCHANGED <<mPtid, currentCpu, reply>>
                \/ /\ crystalizes(read)
                   /\ mPtid' = crystalize(read, PID_DEFAULT, TID_DEFAULT)
                   /\ currentCpu' = CoreOf(mPtid')
                   /\ reply' = [kind |-> "OK", sig |-> "NONE", pid |-> 0,
                                thread |-> AskedPid(text)]
                   /\ UNCHANGED phase
                \/ /\ mPtid' = read
                   /\ Answer("E01")
                   /\ UNCHANGED <<currentCpu, phase>>
      BY <1>5 DEF RspSelect
    <2> DEFINE read == decode(mPtid, text)
    <2>2. read \in Ptids
      BY DecodePtid, GdbServerAssumption DEF ConfTypeOK
    <2>3. crystalizes(read) =>
                /\ crystalize(read, PID_DEFAULT, TID_DEFAULT) \in Ptids
                /\ crystalize(read, PID_DEFAULT, TID_DEFAULT).pid >= 1
      BY <2>2, CrystalizePtid
    <2>4. AskedPid(text) \in Nat
      BY GdbServerAssumption DEF AskedPid, PtidTexts, Fields
    <2> HIDE DEF read
    <2>5. mPtid' \in Ptids
      BY <2>1, <2>2, <2>3 DEF read, ConfTypeOK
    <2>6. \/ UNCHANGED currentCpu
          \/ mPtid'.pid >= 1 /\ currentCpu' = mPtid'.pid - 1
      BY <2>1, <2>3 DEF read, CoreOf
    <2>7. currentCpu' \in Nat
      BY <2>5, <2>6 DEF StateTypeOK, Ptids, Ints
    <2>8. reply' \in Replies
      BY <2>1, <2>4, AnswerType DEF StateTypeOK, Replies, ReplyKinds, TargetSignal
    <2>9. phase' \in Phases
      BY <2>1 DEF StateTypeOK, Phases, Aborts
    <2> QED
      BY <1>5, <2>5, <2>7, <2>8, <2>9
         DEF RspSelect, StateTypeOK, PlanTypeOK, ConfTypeOK, runVars, lifeVars,
             sysVars, planVars, clockVars, linkVars
  <1>6. CASE RspQueryCurrent
    <2>1. reply' \in Replies
      <3>1. mPtid.pid \in Int /\ reply \in Replies
        BY DEF ConfTypeOK, Ptids, Ints, StateTypeOK
      <3> QED
        BY <1>6, <3>1, AnswerType DEF RspQueryCurrent, Replies, ReplyKinds, TargetSignal
    <2>2. StateTypeOK'
      BY <1>6, <2>1, UnchangedState DEF RspQueryCurrent, coreState, StateTypeOK
    <2> QED
      BY <1>6, <2>2 DEF RspQueryCurrent, coreState, PlanTypeOK, planVars,
                        ConfTypeOK, confVars
  <1>7. CASE \/ RspQuerySupported \/ RspStartNoAckMode \/ MonitorTimeout
             \/ MonitorKillCoreOnExit
    <2>1. reply' \in Replies
      BY <1>7, AnswerType DEF RspQuerySupported, RspStartNoAckMode, MonitorTimeout,
                              MonitorKillCoreOnExit, ReplyKinds, StateTypeOK
    <2>2. UNCHANGED coreState /\ UNCHANGED phase
      BY <1>7 DEF RspQuerySupported, RspStartNoAckMode, MonitorTimeout,
                  MonitorKillCoreOnExit
    <2>3. StateTypeOK' /\ PlanTypeOK'
      BY <2>1, <2>2, UnchangedState DEF coreState, StateTypeOK, PlanTypeOK, planVars
    <2>4. mTimeout' \in Timeouts
      <3>1. CASE MonitorTimeout
        <4>1. PICK n \in Nat : mTimeout' \in {realTimeout(n), cycleTimeout(n)}
          BY <3>1, GdbServerAssumption DEF MonitorTimeout
        <4> QED
          BY <4>1 DEF Timeouts, realTimeout, cycleTimeout
      <3>2. CASE UNCHANGED mTimeout
        BY <3>2 DEF ConfTypeOK
      <3> QED
        BY <1>7, <3>1, <3>2 DEF RspQuerySupported, RspStartNoAckMode,
                                MonitorKillCoreOnExit
    <2>5. ConfTypeOK'
      BY <1>7, <2>4
         DEF RspQuerySupported, RspStartNoAckMode, MonitorTimeout,
             MonitorKillCoreOnExit, ConfTypeOK
    <2> QED
      BY <2>3, <2>5
  <1>8. CASE RspVKill
    <2>1. reply' \in Replies
      BY <1>8, AnswerType DEF RspVKill, ReplyKinds, StateTypeOK
    <2>2. phase' \in Phases
      BY <1>8 DEF RspVKill, StateTypeOK, Phases, Aborts
    <2>3. isLive' \in [Cores -> BOOLEAN] /\ mLiveCores' \in 0 .. UintMod - 1
      BY <1>8, KillType DEF RspVKill, StateTypeOK, lifeVars
    <2> QED
      BY <1>8, <2>1, <2>2, <2>3
         DEF RspVKill, StateTypeOK, PlanTypeOK, ConfTypeOK, runVars, sysVars,
             planVars, targetVars, linkVars, confVars
  <1>9. CASE RspDetach \/ MonitorExit
    <2>1. reply' \in Replies
      BY <1>9, AnswerType DEF RspDetach, MonitorExit, ReplyKinds, StateTypeOK
    <2>2. phase' \in Phases
      BY <1>9 DEF RspDetach, MonitorExit, Phases
    <2>3. StateTypeOK'
      BY <1>9, <2>1, <2>2, UnchangedState DEF RspDetach, MonitorExit, coreState
    <2> QED
      BY <1>9, <2>3 DEF RspDetach, MonitorExit, coreState, PlanTypeOK, planVars,
                        ConfTypeOK, confVars
  <1>10. CASE MonitorReset
    <2>1. reply' \in Replies
      BY <1>10, AnswerType DEF MonitorReset, ReplyKinds, StateTypeOK
    <2>2. phase' \in Phases
      BY <1>10 DEF MonitorReset, Phases, Aborts, StateTypeOK
    <2> QED
      BY <1>10, <2>1, <2>2, ResetType
         DEF MonitorReset, StateTypeOK, PlanTypeOK, ConfTypeOK, sysVars,
             targetVars, linkVars, confVars
  <1>11. CASE RspThreadInfo
    <2>1. PICK next \in 0 .. UintMod - 1, before \in Seq(Nat) :
            RspWriteNextThreadInfo(next, before)
      <3>1. 1 \in 0 .. UintMod - 1
        BY GdbServerAssumption
      <3>2. <<>> \in Seq(Nat) /\ mNextProcess \in 0 .. UintMod - 1 /\ listed \in Seq(Nat)
        BY DEF ConfTypeOK
      <3> QED
        BY <1>11, <3>1, <3>2 DEF RspThreadInfo
    <2>2. PICK p \in next .. UintMod - 1 :
            /\ mNextProcess' = (p + 1) % UintMod
            /\ \/ /\ reply' = [kind |-> "m", sig |-> "NONE", pid |-> p,
                               thread |-> reply.thread]
                  /\ listed' = Append(before, p)
               \/ /\ Answer("l")
                  /\ listed' = before
      BY <2>1 DEF RspWriteNextThreadInfo
    <2>3. p \in Nat /\ p + 1 \in Int /\ UintMod \in Nat \ {0}
      BY <2>1, GdbServerAssumption
    <2>4. mNextProcess' \in 0 .. UintMod - 1
      <3>1. (p + 1) % UintMod \in 0 .. UintMod - 1
        BY <2>3, ModRange, Zenon
      <3> QED
        BY <2>2, <3>1
    <2>5. listed' \in Seq(Nat)
      BY <2>2, <2>3
    <2>6. reply' \in Replies
      BY <2>2, <2>3, AnswerType DEF StateTypeOK, Replies, ReplyKinds, TargetSignal
    <2>7. StateTypeOK' /\ PlanTypeOK'
      BY <1>11, <2>6, UnchangedState
         DEF RspThreadInfo, coreState, StateTypeOK, PlanTypeOK, planVars
    <2> QED
      BY <1>11, <2>4, <2>5, <2>7 DEF RspThreadInfo, ConfTypeOK
  <1> QED
    BY <1>1, <1>2, <1>3, <1>4, <1>5, <1>6, <1>7, <1>8, <1>9, <1>10, <1>11
       DEF RspClientRequest

\* Connecting, losing the client and its breaks keep TypeOK.
LEMMA LinkType == TypeOK /\ Link => TypeOK'
  <1> SUFFICES ASSUME TypeOK, Link PROVE TypeOK'
    OBVIOUS
  <1> USE DEF TypeOK, StateTypeOK, PlanTypeOK, ConfTypeOK, Phases, runVars, lifeVars,
              sysVars, planVars, targetVars, linkVars, confVars, coreState
  <1>1. CASE RspLost
    BY <1>1 DEF RspLost
  <1>2. CASE RspConnect
    <2>1. reply' \in Replies
      BY <1>2 DEF RspConnect, Replies, ReplyKinds, TargetSignal
    <2> QED
      BY <1>2, <2>1, ResetType DEF RspConnect
  <1>3. CASE RspConnectRetry
    BY <1>3, ResetType DEF RspConnectRetry
  <1>4. CASE RspConnectFails
    BY <1>4 DEF RspConnectFails
  <1>5. CASE ClientBreak
    BY <1>5 DEF ClientBreak
  <1>6. CASE ClientVanishes
    BY <1>6 DEF ClientVanishes
  <1> QED
    BY <1>1, <1>2, <1>3, <1>4, <1>5, <1>6 DEF Link

\* Every state the server reaches is well typed, with any number of cores,
\* any packets and any failures of the target; in particular Hg never hands
\* a negative core to the target and the count of live cores stays within
\* an unsigned int.
THEOREM TypeCorrect == Spec => []TypeOK
  <1>1. Init => TypeOK
    <2> SUFFICES ASSUME Init PROVE TypeOK
      OBVIOUS
    <2>1. mLiveCores \in 0 .. UintMod - 1
      BY GdbServerAssumption DEF Init
    <2>2. mPtid \in Ptids
      BY MaxIntAssumption DEF Init, Ptids, Ints, PID_DEFAULT, TID_DEFAULT
    <2>3. phase \in Phases
      BY DEF Init, Phases
    <2>4. reply \in Replies
      BY DEF Init, Replies, ReplyKinds, TargetSignal
    <2>5. PlanTypeOK
      BY DEF Init, PlanTypeOK, ResumeType
    <2>6. ConfTypeOK
      <3>1. 1 \in 0 .. UintMod - 1 /\ 0 \in Ints
        BY GdbServerAssumption, MaxIntAssumption DEF Ints
      <3>2. r10 \in [Cores -> Ints] /\ meant \in [Cores -> Ints]
        BY <3>1 DEF Init
      <3>3. mNextProcess \in 0 .. UintMod - 1
        BY <3>1 DEF Init
      <3>4. listed \in Seq(Nat)
        BY DEF Init
      <3>5. mTimeout \in Timeouts
        BY DEF Init, Timeouts, noTimeout
      <3> QED
        BY <2>2, <3>2, <3>3, <3>4, <3>5 DEF Init, ConfTypeOK
    <2>7. 0 \in 0 .. CycleMod - 1
      BY CycleModAssumption
    <2>8. StateTypeOK
      BY <2>1, <2>3, <2>4, <2>7 DEF Init, StateTypeOK, ResumeRes
    <2> QED
      BY <2>5, <2>6, <2>8 DEF TypeOK
  <1>2. TypeOK /\ [Next]_vars => TypeOK'
    <2> SUFFICES ASSUME TypeOK, [Next]_vars PROVE TypeOK'
      OBVIOUS
    <2>1. CASE UNCHANGED vars
      BY <2>1 DEF vars, TypeOK, StateTypeOK, PlanTypeOK, ConfTypeOK, runVars,
                  lifeVars, sysVars, planVars, targetVars, linkVars, confVars
    <2>2. CASE Terminated
      BY <2>1, <2>2 DEF Terminated
    <2> QED
      BY <2>1, <2>2, WaitType, RequestType, LinkType DEF Next
  <1> QED
    BY <1>1, <1>2, PTL DEF Spec
=============================================================================
