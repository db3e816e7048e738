---------------------- MODULE GdbServer_session_proofs ----------------------
(***************************************************************************)
(* What a client can rely on during a session with GdbServer: that an      *)
(* enumeration of the threads is complete, and that the server does not    *)
(* end under a target and a client that keep to the rules.                 *)
(***************************************************************************)
EXTENDS GdbServer_step_proofs, FiniteSetTheorems

\* The cores that count as gone, the others before process n, and the
\* processes in a list.
Gone == {i \in Cores : mKillCoreOnExit /\ ~isLive[i]}
Below(n) == {i \in Cores \ Gone : i + 1 < n}
Names(list) == {list[k] : k \in DOMAIN list}

\* The part of the list that the client has got in the middle of an
\* enumeration: each process before mNextProcess that is not gone, once.
Listing(list, next) ==
    /\ next \in 1 .. NumCores + 1
    /\ list \in Seq(Nat)
    /\ Names(list) = {i + 1 : i \in Below(next)}
    /\ Len(list) = Cardinality(Below(next))

ListedSoFar == (phase = "request" /\ reply.kind = "m") => Listing(listed, mNextProcess)

-----------------------------------------------------------------------------
LEMMA NamesAppend ==
  ASSUME NEW s \in Seq(Nat), NEW p \in Nat
  PROVE  Names(Append(s, p)) = Names(s) \cup {p}
  <1> DEFINE t == Append(s, p)
  <1>1. /\ Len(t) = Len(s) + 1 /\ DOMAIN t = 1 .. Len(s) + 1
        /\ \A k \in 1 .. Len(s) : t[k] = s[k]
        /\ t[Len(s) + 1] = p
    OBVIOUS
  <1>2. DOMAIN s = 1 .. Len(s) /\ Len(s) \in Nat
    OBVIOUS
  <1> HIDE DEF t
  <1>3. Names(t) \subseteq Names(s) \cup {p}
    BY <1>1, <1>2 DEF Names
  <1>4. Names(s) \subseteq Names(t)
    BY <1>1, <1>2 DEF Names
  <1>5. p \in Names(t)
    BY <1>1, <1>2 DEF Names
  <1> QED
    BY <1>3, <1>4, <1>5 DEF t

\* The cores are finitely many.
LEMMA BelowFinite == \A n : IsFiniteSet(Below(n))
  <1>1. IsFiniteSet(Cores)
    BY FS_Interval, GdbServerAssumption DEF Cores
  <1> QED
    BY <1>1, FS_Subset DEF Below

\* Nothing is listed before the first process.
LEMMA ListingEmpty == Listing(<<>>, 1)
  <1>1. Below(1) = {}
    <2> SUFFICES ASSUME NEW i \in Below(1) PROVE FALSE
      OBVIOUS
    <2>1. i \in Nat /\ i + 1 < 1
      BY CoresFacts DEF Below
    <2> QED
      BY <2>1
  <1>2. Cardinality(Below(1)) = 0
    BY <1>1, FS_EmptySet
  <1>3. Names(<<>>) = {}
    BY DEF Names
  <1> QED
    BY <1>1, <1>2, <1>3, GdbServerAssumption DEF Listing

\* rspWriteNextThreadInfo adds the next process that is not gone, or ends
\* the list when there is none.
LEMMA NextListed ==
  ASSUME NEW before, NEW next, Listing(before, next),
         RspWriteNextThreadInfo(next, before),
         UNCHANGED <<isLive, mKillCoreOnExit>>
  PROVE  /\ reply'.kind \in {"m", "l"}
         /\ reply'.kind = "m" => Listing(listed, mNextProcess)'
         /\ reply'.kind = "l" => /\ Names(listed') = {i + 1 : i \in Cores \ Gone}
                                 /\ Len(listed') = Cardinality(Cores \ Gone)
  <1>1. PICK p \in next .. UintMod - 1 :
          /\ ~SkippedProcess(p)
          /\ \A q \in next .. p - 1 : SkippedProcess(q)
          /\ mNextProcess' = (p + 1) % UintMod
          /\ \/ /\ p - 1 \in Cores
                /\ reply' = [kind |-> "m", sig |-> "NONE", pid |-> p, thread |-> reply.thread]
                /\ listed' = Append(before, p)
             \/ /\ p - 1 \notin Cores
                /\ Answer("l")
                /\ listed' = before
    BY DEF RspWriteNextThreadInfo
  <1>2. /\ NumCores \in Nat /\ UintMod \in Nat /\ UintMod > NumCores + 1
        /\ next \in 1 .. NumCores + 1 /\ p \in Nat /\ p >= next
    BY <1>1, GdbServerAssumption DEF Listing
  <1>3. Gone' = Gone /\ \A n : Below(n)' = Below(n)
    BY DEF Gone, Below
  <1>4. \A i \in Cores \ Gone : i + 1 < p => i + 1 < next
    <2> SUFFICES ASSUME NEW i \in Cores \ Gone, i + 1 < p, ~(i + 1 < next) PROVE FALSE
      OBVIOUS
    <2>1. i \in Int /\ i + 1 \in next .. p - 1 /\ (i + 1) - 1 = i
      BY <1>2, CoresFacts
    <2>2. SkippedProcess(i + 1)
      BY <1>1, <2>1
    <2> QED
      BY <2>1, <2>2 DEF SkippedProcess, Gone
  <1>5. CASE /\ p - 1 \in Cores
             /\ reply' = [kind |-> "m", sig |-> "NONE", pid |-> p, thread |-> reply.thread]
             /\ listed' = Append(before, p)
    <2>1. p \in 1 .. NumCores
      BY <1>2, <1>5 DEF Cores
    <2>2. mNextProcess' = p + 1
      <3>1. p + 1 \in Nat /\ UintMod \in Nat \ {0} /\ p + 1 < UintMod
        BY <1>2, <2>1
      <3>2. (p + 1) % UintMod = p + 1
        BY <3>1, ModBound
      <3> QED
        BY <1>1, <3>2
    <2>3. p - 1 \notin Below(next) /\ p - 1 \in Cores \ Gone
      BY <1>1, <1>2, <1>5 DEF Below, SkippedProcess, Gone
    <2>4. Below(p + 1) = Below(next) \cup {p - 1}
      <3>1. ASSUME NEW i \in Below(p + 1) PROVE i \in Below(next) \cup {p - 1}
        <4>1. i \in Cores \ Gone /\ i + 1 < p + 1 /\ i \in Nat
          BY CoresFacts DEF Below
        <4>2. CASE i + 1 < p
          BY <1>4, <4>1, <4>2 DEF Below
        <4>3. CASE i = p - 1
          BY <4>3
        <4> QED
          BY <1>2, <4>1, <4>2, <4>3
      <3>2. ASSUME NEW i \in Below(next) PROVE i \in Below(p + 1)
        <4>1. i \in Cores \ Gone /\ i + 1 < next /\ i \in Nat
          BY CoresFacts DEF Below
        <4>2. i + 1 < p + 1
          BY <1>2, <4>1
        <4> QED
          BY <4>1, <4>2 DEF Below
      <3>3. p - 1 \in Below(p + 1)
        BY <1>2, <2>3 DEF Below
      <3> QED
        BY <3>1, <3>2, <3>3
    <2>5. Cardinality(Below(p + 1)) = Cardinality(Below(next)) + 1
      BY <2>3, <2>4, BelowFinite, FS_AddElement
    <2>6. Len(listed') = Len(before) + 1 /\ listed' \in Seq(Nat)
      BY <1>2, <1>5 DEF Listing
    <2>7. Names(listed') = {i + 1 : i \in Below(p + 1)}
      <3>1. Names(listed') = Names(before) \cup {p}
        BY <1>2, <1>5, NamesAppend DEF Listing
      <3>2. {i + 1 : i \in Below(p + 1)} = {i + 1 : i \in Below(next)} \cup {p}
        BY <1>2, <2>4
      <3> QED
        BY <3>1, <3>2 DEF Listing
    <2>8. Listing(listed', p + 1)
      BY <1>2, <2>1, <2>5, <2>6, <2>7 DEF Listing
    <2> QED
      BY <1>3, <1>5, <2>2, <2>8 DEF Listing
  <1>6. CASE p - 1 \notin Cores /\ Answer("l") /\ listed' = before
    <2>1. p > NumCores
      BY <1>2, <1>6 DEF Cores
    <2>2. Below(next) = Cores \ Gone
      BY <1>2, <1>4, <2>1, GdbServerAssumption DEF Below, Cores
    <2> QED
      BY <1>6, <2>2 DEF Listing, Answer
  <1> QED
    BY <1>1, <1>5, <1>6

-----------------------------------------------------------------------------
\* The invariant is about the client's list, the live cores and the last
\* packet: a step that leaves them alone, or answers something else, keeps
\* it.
LEMMA NotListing ==
  ASSUME phase' # "request" \/ reply'.kind \notin {"m", "l"}
  PROVE  ListedSoFar' /\ ThreadsListed'
  BY DEF ListedSoFar, ThreadsListed

LEMMA SameListing ==
  ASSUME ListedSoFar, ThreadsListed,
         UNCHANGED <<phase, reply, isLive, mKillCoreOnExit, mNextProcess, listed>>
  PROVE  ListedSoFar' /\ ThreadsListed'
  BY DEF ListedSoFar, ThreadsListed, Listing, Below, Names, Gone

\* doCoreActions ends with a stop reply or without the client having the
\* floor.
LEMMA DoCoreActionsReply ==
  ASSUME StateTypeOK, NEW rt, NEW handling, DoCoreActions(rt, handling)
  PROVE  phase' # "request" \/ reply'.kind \in {"stop", "exit", "file"}
  <1>1. CASE HaltAndReport("INT", handling)
    BY <1>1 DEF HaltAndReport, ReportException
  <1>2. CASE \E inStream : ProcessStopEvent(rt, stopReason, stopReported, handling, inStream)
    <2>1. stopReported \in [Cores -> BOOLEAN]
      BY DEF StateTypeOK
    <2>2. phase' \in Aborts \/ reply'.kind \in {"stop", "exit", "file"}
      BY <1>2, <2>1, ProcessReports
    <2> QED
      BY <2>2 DEF Aborts
  <1>3. CASE phase' \in {"wait", "abort_resume"}
    BY <1>3
  <1> QED
    BY <1>1, <1>2, <1>3 DEF DoCoreActions

\* So does the wait loop.
LEMMA WaitReply ==
  ASSUME TypeOK, Wait
  PROVE  phase' # "request" \/ reply'.kind \in {"stop", "exit", "file"}
  <1>1. CASE Tick \/ CycleTick \/ WaitAgain \/ WaitFault
    BY <1>1 DEF Tick, CycleTick, WaitAgain, WaitFault, vars
  <1>2. CASE WaitBreak \/ WaitTimedOut
    <2>1. PICK sig : HaltAndReport(sig, mHandlingSyscall)
      BY <1>2 DEF WaitBreak, WaitTimedOut
    <2> QED
      BY <2>1 DEF HaltAndReport, ReportException
  <1>3. CASE WaitEvent
    <2> DEFINE ran == {j \in Cores : IsRunning(resumeType, j)}
               sr(results) == [j \in Cores |-> IF j \in ran THEN results[j]
                                                           ELSE stopReason[j]]
               rep(results) == [j \in Cores |-> IF j \in ran THEN results[j] = "NONE"
                                                            ELSE stopReported[j]]
    <2>1. PICK results \in [Cores -> StopResults \cup {"NONE"}] :
            \/ ProcessStopEvent(resumeType, sr(results), rep(results),
                                mHandlingSyscall, breakInFlight)
            \/ phase' \in {"abort_pending", "abort_noEvent"}
      BY <1>3 DEF WaitEvent
    <2>2. rep(results) \in [Cores -> BOOLEAN]
      BY DEF TypeOK, StateTypeOK
    <2> HIDE DEF sr, rep
    <2>3. \/ phase' \in Aborts \cup {"abort_pending", "abort_noEvent"}
          \/ reply'.kind \in {"stop", "exit", "file"}
      BY <2>1, <2>2, ProcessReports
    <2> QED
      BY <2>3 DEF Aborts
  <1> QED
    BY <1>1, <1>2, <1>3 DEF Wait

\* A step of the server keeps the list complete.
LEMMA ThreadsNext ==
  ASSUME TypeOK, ListedSoFar, ThreadsListed, [Next]_vars
  PROVE  ListedSoFar' /\ ThreadsListed'
  <1>1. CASE UNCHANGED vars \/ Terminated \/ ClientVanishes
    BY <1>1, SameListing DEF Terminated, ClientVanishes, vars, coreState, lifeVars, confVars
  <1>2. CASE Wait
    BY <1>2, WaitReply, NotListing
  <1>3. CASE RspVCont \/ RspSyscallReply
    <2>1. \/ Answer("E01")
          \/ phase' = "abort_hex"
          \/ ReportException("INT", currentCpu)
          \/ \E rt, handling : DoCoreActions(rt, handling)
      BY <1>3 DEF RspVCont, RspSyscallReply
    <2>2. CASE Answer("E01") \/ ReportException("INT", currentCpu)
      BY <2>2, NotListing DEF Answer, ReportException
    <2>3. CASE \E rt, handling : DoCoreActions(rt, handling)
      BY <2>3, DoCoreActionsReply, NotListing DEF TypeOK
    <2>4. CASE phase' = "abort_hex"
      BY <2>4, NotListing
    <2> QED
      BY <2>1, <2>2, <2>3, <2>4
  <1>4. CASE RspThreadInfo
    <2>1. /\ phase = "request" /\ UNCHANGED <<phase, isLive, mKillCoreOnExit>>
          /\ \/ RspWriteNextThreadInfo(1, <<>>)
             \/ reply.kind = "m" /\ RspWriteNextThreadInfo(mNextProcess, listed)
      BY <1>4 DEF RspThreadInfo, Receive, coreState, lifeVars
    <2>2. \E before, next : Listing(before, next) /\ RspWriteNextThreadInfo(next, before)
      BY <2>1, ListingEmpty DEF ListedSoFar
    <2>3. /\ reply'.kind \in {"m", "l"}
          /\ reply'.kind = "m" => Listing(listed, mNextProcess)'
          /\ reply'.kind = "l" => /\ Names(listed') = {i + 1 : i \in Cores \ Gone}
                                  /\ Len(listed') = Cardinality(Cores \ Gone)
      BY <2>1, <2>2, NextListed
    <2> QED
      BY <2>1, <2>3 DEF ListedSoFar, ThreadsListed, Names, Gone
  <1>5. CASE RspClientRequest /\ ~RspVCont /\ ~RspSyscallReply /\ ~RspThreadInfo
    <2>1. phase' # "request" \/ reply'.kind \notin {"m", "l"}
      BY <1>5
         DEF RspClientRequest, RspAccess, RspOther, RspQuery, RspCommand, RspSetCommand,
             RspShowCommand, RspLastSignal, RspSingleCycle, RspSelect,
             RspQueryCurrent, RspQuerySupported, RspStartNoAckMode, RspVKill, RspDetach,
             MonitorReset, MonitorExit, MonitorTimeout, MonitorKillCoreOnExit, Answer,
             ReportException
    <2> QED
      BY <2>1, NotListing
  <1>6. CASE Link /\ ~ClientVanishes
    <2>1. phase' # "request" \/ reply'.kind \notin {"m", "l"}
      BY <1>6 DEF Link, RspLost, RspConnect, RspConnectRetry, RspConnectFails, ClientBreak,
                  Answer
    <2> QED
      BY <2>1, NotListing
  <1> QED
    BY <1>1, <1>2, <1>3, <1>4, <1>5, <1>6 DEF Next

\* An enumeration with qfThreadInfo and qsThreadInfo names every core once,
\* without those that are gone, with any number of cores, whichever of them
\* exited or were killed, and whatever was sent between two enumerations.
THEOREM EnumerationComplete == Spec => []ThreadsListed
  <1>1. Init => ListedSoFar /\ ThreadsListed
    BY DEF Init, ListedSoFar, ThreadsListed
  <1>2. TypeOK /\ (ListedSoFar /\ ThreadsListed) /\ [Next]_vars =>
          (ListedSoFar /\ ThreadsListed)'
    BY ThreadsNext
  <1> QED
    BY <1>1, <1>2, TypeCorrect, PTL DEF Spec

-----------------------------------------------------------------------------
\* The rules: the target does what ITarget.h says and stops for reasons
\* processStopEvents knows, all system calls are ones the server knows, and
\* the client stays, does not ask with '?', sets no trace flag and sends no
\* number that is too long.
RulesKept ==
    /\ TargetFaults = {}
    /\ StopResults \subseteq {"INTERRUPTED", "STEPPED", "LOCKSTEP", "SYSCALL"}
    /\ Syscalls \subseteq {"file", "exit"}
    /\ SupportAnswers \subseteq {TRUE}
    /\ Requests \cap {"?", "set", "vanish"} = {}
    /\ \A actions \in VContPackets : ~parseAborts(actions)
    /\ \A text \in HgTexts : ~decodeAborts(text)
    /\ \A pid \in KillPids : pid < UintMod

\* The reasons processStopEvents knows.
KnownReasons == {"NONE", "INTERRUPTED", "STEPPED", "LOCKSTEP", "SYSCALL"}

\* What the absence of aborts rests on: the flag for a system call under way
\* is set only while the client serves one, the target answered that it has
\* a system call interface, and no core has stopped for an unknown reason.
CallsServed ==
    /\ mHandlingSyscall => fileIO # NoCore
    /\ mHaveSyscallArgLocs => mHaveSyscallSupport
    /\ \A i \in Cores : stopReason[i] \in KnownReasons
    /\ ~peerGone

AbortInv == NoAbort /\ CallsServed

\* rspSyscallRequest when no call is under way.
LEMMA SyscallRequestServed ==
  ASSUME RulesKept, CallsServed, NEW i \in Cores, RspSyscallRequest(i, FALSE)
  PROVE  /\ phase' = "request"
         /\ mHandlingSyscall' => fileIO' # NoCore
         /\ mHaveSyscallArgLocs' => mHaveSyscallSupport'
  <1>1. /\ phase' = "request"
        /\ mHaveSyscallSupport' \in IF mHaveSyscallArgLocs
                                    THEN {mHaveSyscallSupport} ELSE SupportAnswers
        /\ \E outcome \in SyscallOutcomes(mHaveSyscallSupport') :
            /\ mHandlingSyscall' = HandlingAfter(outcome)
            /\ fileIO' = IF outcome = "file" THEN i ELSE NoCore
    BY DEF RspSyscallRequest, BackToClient, RulesKept
  <1>2. mHaveSyscallSupport'
    BY <1>1 DEF CallsServed, RulesKept
  <1>3. PICK outcome \in {"file", "exit"} :
            /\ mHandlingSyscall' = HandlingAfter(outcome)
            /\ fileIO' = IF outcome = "file" THEN i ELSE NoCore
    BY <1>1, <1>2 DEF SyscallOutcomes, RulesKept
  <1>4. mHandlingSyscall' => fileIO' # NoCore
    BY <1>3, CoresFacts DEF HandlingAfter
  <1> QED
    BY <1>1, <1>2, <1>4

\* processStopEvents when no call is under way.
LEMMA ProcessServed ==
  ASSUME RulesKept, CallsServed, NEW rt, NEW sr, NEW rep, NEW inStream,
         \A j \in Cores : sr[j] \in KnownReasons,
         ProcessStopEvent(rt, sr, rep, FALSE, inStream), UNCHANGED peerGone
  PROVE  AbortInv'
  <1>1. PICK c \in Cores :
          /\ stopReason' = sr
          /\ \/ RspSyscallRequest(c, FALSE)
             \/ /\ BackToClient
                /\ mHandlingSyscall' = FALSE
                /\ UNCHANGED <<mHaveSyscallArgLocs, mHaveSyscallSupport>>
             \/ sr[c] \in {"SUCCESS", "FAILURE", "TIMEOUT"}
    BY DEF ProcessStopEvent
  <1>2. sr[c] \notin {"SUCCESS", "FAILURE", "TIMEOUT"}
    BY DEF KnownReasons
  <1>3. /\ phase' = "request"
        /\ mHandlingSyscall' => fileIO' # NoCore
        /\ mHaveSyscallArgLocs' => mHaveSyscallSupport'
    <2>1. CASE RspSyscallRequest(c, FALSE)
      BY <2>1, SyscallRequestServed
    <2>2. CASE /\ BackToClient
               /\ mHandlingSyscall' = FALSE
               /\ UNCHANGED <<mHaveSyscallArgLocs, mHaveSyscallSupport>>
      BY <2>2 DEF BackToClient, CallsServed
    <2> QED
      BY <1>1, <1>2, <2>1, <2>2
  <1> QED
    BY <1>1, <1>3 DEF AbortInv, NoAbort, Aborts, CallsServed

\* A halt and its report when no call is under way.
LEMMA HaltServed ==
  ASSUME RulesKept, CallsServed, NEW sig, HaltAndReport(sig, FALSE), UNCHANGED peerGone
  PROVE  AbortInv'
  <1>1. /\ phase' = "request"
        /\ mHandlingSyscall' = FALSE
        /\ UNCHANGED <<stopReason, mHaveSyscallArgLocs, mHaveSyscallSupport>>
    BY DEF HaltAndReport, BackToClient, RulesKept, runVars
  <1> QED
    BY <1>1 DEF AbortInv, NoAbort, Aborts, CallsServed

\* doCoreActions when no call is under way.
LEMMA DoCoreActionsServed ==
  ASSUME RulesKept, CallsServed, NEW rt, DoCoreActions(rt, FALSE), UNCHANGED peerGone
  PROVE  AbortInv'
  <1>1. CASE HaltAndReport("INT", FALSE)
    BY <1>1, HaltServed
  <1>2. CASE \E inStream : ProcessStopEvent(rt, stopReason, stopReported, FALSE, inStream)
    <2>1. \A j \in Cores : stopReason[j] \in KnownReasons
      BY DEF CallsServed
    <2> QED
      BY <1>2, <2>1, ProcessServed
  <1>3. CASE /\ mHandlingSyscall' = FALSE
             /\ UNCHANGED <<runVars, mHaveSyscallArgLocs, mHaveSyscallSupport>>
             /\ phase' = "wait" \/ "resume" \in TargetFaults
    BY <1>3 DEF AbortInv, NoAbort, Aborts, CallsServed, RulesKept, runVars
  <1> QED
    BY <1>1, <1>2, <1>3 DEF DoCoreActions

\* The wait loop: no call is under way while the target runs.
LEMMA WaitServed ==
  ASSUME RulesKept, TypeOK, IInv, AbortInv, Wait
  PROVE  AbortInv'
  <1>1. phase = "wait" /\ peerGone' = peerGone
    BY DEF Wait, Tick, CycleTick, WaitBreak, WaitAgain, WaitTimedOut, WaitEvent, WaitFault,
           vars
  <1>2. mHandlingSyscall = FALSE
    <2>1. fileIO = NoCore
      BY <1>1 DEF IInv, PlanKept
    <2> QED
      BY <2>1 DEF AbortInv, CallsServed, TypeOK, StateTypeOK
  <1>3. CASE Tick \/ CycleTick \/ WaitAgain
    <2>1. UNCHANGED <<phase, peerGone, fileIO, sysVars, runVars>>
      BY <1>1, <1>3 DEF Tick, CycleTick, WaitAgain, vars, linkVars
    <2> QED
      BY <2>1 DEF AbortInv, NoAbort, CallsServed, sysVars, runVars
  <1>4. CASE WaitBreak \/ WaitTimedOut
    <2>1. \E sig : HaltAndReport(sig, FALSE)
      BY <1>2, <1>4 DEF WaitBreak, WaitTimedOut
    <2> QED
      BY <1>1, <2>1, HaltServed DEF AbortInv
  <1>5. CASE WaitEvent
    <2> DEFINE ran == {j \in Cores : IsRunning(resumeType, j)}
               sr(results) == [j \in Cores |-> IF j \in ran THEN results[j]
                                                           ELSE stopReason[j]]
               rep(results) == [j \in Cores |-> IF j \in ran THEN results[j] = "NONE"
                                                            ELSE stopReported[j]]
    <2>1. PICK results \in [Cores -> StopResults \cup {"NONE"}] :
            /\ \E i \in ran : results[i] # "NONE"
            /\ \/ \E i \in ran : ~stopReported[i]
               \/ ProcessStopEvent(resumeType, sr(results), rep(results), FALSE,
                                   breakInFlight)
               \/ StopEvents(resumeType, sr(results), rep(results)) = {}
      BY <1>2, <1>5 DEF WaitEvent, RulesKept
    <2>2. ~\E i \in ran : ~stopReported[i]
      BY <1>1 DEF IInv, NoStopOverwritten
    <2>3. StopEvents(resumeType, sr(results), rep(results)) # {}
      BY <2>1 DEF StopEvents
    <2>4. \A j \in Cores : sr(results)[j] \in KnownReasons
      BY DEF AbortInv, CallsServed, RulesKept, KnownReasons
    <2> HIDE DEF ran, sr, rep
    <2> QED
      BY <1>1, <2>1, <2>2, <2>3, <2>4, ProcessServed DEF AbortInv
  <1>6. CASE WaitFault
    BY <1>6 DEF WaitFault, RulesKept
  <1> QED
    BY <1>3, <1>4, <1>5, <1>6 DEF Wait

\* The packets.
LEMMA RequestServed ==
  ASSUME RulesKept, TypeOK, IInv, AbortInv, RspClientRequest
  PROVE  AbortInv'
  <1>1. phase = "request" /\ peerGone' = peerGone
    BY DEF RspClientRequest, RspVCont, RspSyscallReply, RspAccess, RspOther,
           RspQuery, RspCommand, RspSetCommand,
           RspShowCommand, RspThreadInfo, RspLastSignal, RspSingleCycle, RspSelect,
           RspQueryCurrent, RspQuerySupported, RspStartNoAckMode, RspVKill, RspDetach,
           MonitorExit, MonitorTimeout, MonitorKillCoreOnExit, MonitorReset, Receive
  <1>2. CASE RspVCont
    <2>1. mHandlingSyscall = FALSE
      BY <1>2 DEF RspVCont, Receive, AbortInv, CallsServed, TypeOK, StateTypeOK
    <2>2. \/ UNCHANGED <<runVars, sysVars, linkVars, phase>>
          \/ \E rt : DoCoreActions(rt, FALSE)
      BY <1>2, <2>1 DEF RspVCont, RulesKept, coreState
    <2>3. CASE UNCHANGED <<runVars, sysVars, linkVars, phase>>
      BY <1>1, <2>3 DEF AbortInv, NoAbort, CallsServed, runVars, sysVars, linkVars
    <2> QED
      BY <1>1, <2>2, <2>3, DoCoreActionsServed DEF AbortInv
  <1>3. CASE RspSyscallReply
    <2>1. \/ /\ mHandlingSyscall' = FALSE /\ BackToClient
             /\ UNCHANGED <<runVars, mHaveSyscallArgLocs, mHaveSyscallSupport>>
          \/ DoCoreActions(resumeType, FALSE)
      BY <1>3 DEF RspSyscallReply
    <2>2. CASE /\ mHandlingSyscall' = FALSE /\ BackToClient
               /\ UNCHANGED <<runVars, mHaveSyscallArgLocs, mHaveSyscallSupport>>
      BY <1>1, <2>2 DEF AbortInv, NoAbort, Aborts, CallsServed, BackToClient, runVars
    <2> QED
      BY <1>1, <2>1, <2>2, DoCoreActionsServed DEF AbortInv
  <1>4. CASE MonitorReset
    <2>1. /\ phase' = "request" /\ UNCHANGED <<sysVars, linkVars>>
          /\ \A i \in Cores : stopReason'[i] = "INTERRUPTED"
      BY <1>1, <1>4 DEF MonitorReset, CoreManagerReset, RulesKept
    <2> QED
      BY <1>1, <2>1
         DEF AbortInv, NoAbort, Aborts, CallsServed, KnownReasons, sysVars, linkVars
  <1>5. CASE ~RspVCont /\ ~RspSyscallReply /\ ~MonitorReset
    <2>1. ~RspLastSignal /\ ~RspSetCommand
      BY DEF RspLastSignal, RspSetCommand, Receive, RulesKept
    <2>3. CASE RspVKill
      <3>1. phase' # "abort_hex"
        <4>1. \A pid \in KillPids : pid \in Nat /\ ~(pid >= UintMod)
          BY GdbServerAssumption DEF RulesKept
        <4> QED
          BY <2>3, <4>1, <1>1 DEF RspVKill
      <3> QED
        BY <1>1, <2>3, <3>1
           DEF RspVKill, AbortInv, NoAbort, Aborts, CallsServed, runVars, sysVars, linkVars
    <2>4. CASE RspSelect
      BY <1>1, <2>4
         DEF RspSelect, RulesKept, AbortInv, NoAbort, Aborts, CallsServed, runVars,
             sysVars, linkVars
    <2>2. CASE ~RspVKill /\ ~RspSelect
      <3>1. /\ phase' \in {"request", "connect", "exited"}
            /\ UNCHANGED <<runVars, sysVars, linkVars>>
        BY <1>1, <1>5, <2>1, <2>2
           DEF RspClientRequest, RspAccess, RspOther, RspQuery, RspCommand,
               RspShowCommand, RspThreadInfo, RspSingleCycle,
               RspQueryCurrent, RspQuerySupported, RspStartNoAckMode, RspDetach,
               MonitorExit, MonitorTimeout, MonitorKillCoreOnExit, coreState
      <3> QED
        BY <1>1, <3>1
           DEF AbortInv, NoAbort, Aborts, CallsServed, runVars, sysVars, linkVars
    <2> QED
      BY <2>2, <2>3, <2>4
  <1> QED
    BY <1>2, <1>3, <1>4, <1>5

\* The connection.
LEMMA LinkServed ==
  ASSUME RulesKept, TypeOK, IInv, AbortInv, Link
  PROVE  AbortInv'
  <1>1. ~RspLost /\ ~ClientVanishes
    BY DEF RspLost, ClientVanishes, RulesKept, AbortInv, CallsServed
  <1>2. CASE RspConnect \/ RspConnectRetry
    <2>1. /\ phase' \in {"request", "connect"} /\ UNCHANGED <<sysVars, linkVars>>
          /\ \A i \in Cores : stopReason'[i] = "INTERRUPTED"
          /\ ~peerGone'
      BY <1>2 DEF RspConnect, RspConnectRetry, CoreManagerReset, AbortInv, CallsServed
    <2> QED
      BY <2>1 DEF AbortInv, NoAbort, Aborts, CallsServed, KnownReasons, sysVars, linkVars
  <1>3. CASE RspConnectFails \/ ClientBreak
    <2>1. /\ phase' \in {"failed", "wait"}
          /\ UNCHANGED <<runVars, sysVars, fileIO, peerGone>>
      BY <1>3 DEF RspConnectFails, ClientBreak, coreState, linkVars
    <2> QED
      BY <2>1 DEF AbortInv, NoAbort, Aborts, CallsServed, runVars, sysVars
  <1> QED
    BY <1>1, <1>2, <1>3 DEF Link

\* With a target that obeys ITarget.h and stops for known reasons, and a
\* client that stays, does not ask with '?', sets no trace flag and sends no
\* number of more than eight digits, none of the fatal errors and asserts is
\* reached, with any number of cores and any other packets.
THEOREM NoAbortUnderRules == RulesKept => (Spec => []NoAbort)
  <1> SUFFICES ASSUME RulesKept PROVE Spec => []NoAbort
    OBVIOUS
  <1>1. Init => AbortInv
    BY DEF Init, AbortInv, NoAbort, Aborts, CallsServed, KnownReasons
  <1>2. TypeOK /\ IInv /\ AbortInv /\ [Next]_vars => AbortInv'
    <2> SUFFICES ASSUME TypeOK, IInv, AbortInv, [Next]_vars PROVE AbortInv'
      OBVIOUS
    <2>1. CASE UNCHANGED vars \/ Terminated
      BY <2>1 DEF Terminated, vars, AbortInv, NoAbort, CallsServed, runVars, sysVars,
                  linkVars
    <2> QED
      BY <2>1, WaitServed, RequestServed, LinkServed DEF Next
  <1>3. AbortInv => NoAbort
    BY DEF AbortInv
  <1> QED
    BY <1>1, <1>2, <1>3, TypeCorrect, Agreement, PTL DEF Spec
=============================================================================
