---------------------------- MODULE GoalTurn_proofs ----------------------------
(***************************************************************************)
(* Theorems about GoalTurn, for every limit, budget, set of calls and set   *)
(* of faults.                                                               *)
(*                                                                          *)
(* TypeCorrect comes first: one lemma per record type and per operator that *)
(* builds a record, then one lemma per group of actions.  The ledger comes  *)
(* second: Effect sorts the steps by what they do to the session and to the *)
(* count of turns; each kind keeps LedgerInv and is a step of TurnLedger,   *)
(* and every action is shown to be of some kind.  What is said of a quiet   *)
(* session there rests on ExactProbes.                                      *)
(* The status comes third (ClearInv); then what the engine's threads have   *)
(* seen of a turn (SeenInv), and last the goals that are parked.            *)
(***************************************************************************)
EXTENDS GoalTurn, TLAPS

LEMMA AcquiredType ==
    ASSUME NEW r \in Runtimes
    PROVE  Acquired(r) \in Runtimes
<1>1. r.gen + 1 \in Nat BY DEF Runtimes
<1>2. "running" \in Phases BY DEF Phases
<1> QED BY <1>1, <1>2, Zenon DEF Runtimes, Acquired

LEMMA CountedType ==
    ASSUME NEW r \in Runtimes
    PROVE  Counted(r) \in Runtimes
<1>1. r.turns + 1 \in Nat BY DEF Runtimes
<1> QED BY <1>1, Zenon DEF Runtimes, Counted

LEMMA ReleasedType ==
    ASSUME NEW r \in Runtimes
    PROVE  Released(r) \in Runtimes
BY DEF Runtimes, Released, Phases, None

LEMMA InitialRecords == FreeOp \in Operations /\ IdleThread \in EngineThreads /\ NewRuntime \in Runtimes /\ NoTool \in ToolCalls
<1>1. FreeOp \in Operations BY DEF FreeOp, Operations, Labels, None
<1>2. IdleThread \in EngineThreads BY DEF IdleThread, EngineThreads, ThreadLabels, Phases, None
<1>3. NewRuntime \in Runtimes BY DEF NewRuntime, Runtimes, Phases, None
<1>4. NoTool \in ToolCalls BY <1>3 DEF NoTool, ToolCalls
<1> QED BY <1>1, <1>2, <1>3, <1>4

LEMMA StatusType ==
    ASSUME goal \in Goals, NEW s \in Statuses, SetStatus(s)
    PROVE  goal' \in Goals
BY DEF SetStatus, Goals

LEMMA StepOpType ==
    ASSUME op \in Operations, NEW l \in Labels, StepOp(l)
    PROVE  op' \in Operations
BY DEF StepOp, Operations

LEMMA EndOpType ==
    ASSUME op \in Operations, eng \in [Threads -> EngineThreads], EndOp
    PROVE  op' \in Operations /\ eng' \in [Threads -> EngineThreads]
BY InitialRecords DEF EndOp

LEMMA StepThreadType ==
    ASSUME eng \in [Threads -> EngineThreads], NEW t \in Threads, NEW l \in ThreadLabels, StepThread(t, l)
    PROVE  eng' \in [Threads -> EngineThreads]
BY DEF StepThread, EngineThreads

LEMMA EndThreadType ==
    ASSUME eng \in [Threads -> EngineThreads], NEW t \in Threads, EndThread(t)
    PROVE  eng' \in [Threads -> EngineThreads]
BY InitialRecords DEF EndThread

LEMMA ProceedType ==
    ASSUME eng \in [Threads -> EngineThreads], NEW t \in Threads, NEW l \in ThreadLabels, NEW b \in BOOLEAN, Proceed(t, l, b)
    PROVE  eng' \in [Threads -> EngineThreads]
<1>1. [IdleThread EXCEPT !.at = l, !.final = b] \in EngineThreads BY InitialRecords, Zenon DEF EngineThreads
<1> QED BY <1>1 DEF Proceed

LEMMA AbortType ==
    ASSUME host \in Sessions, Abort
    PROVE  host' \in Sessions
<1>1. PICK kept \in Kept :
        host' = IF host.work = None THEN [host EXCEPT !.inbox = kept]
                ELSE [host EXCEPT !.inbox = kept, !.work = None,
                                  !.outcome = "interrupted", !.retrying = FALSE]
  BY DEF Abort
<1>2. kept \in SUBSET Nat
  BY DEF Kept, Sessions
<1>3. None \in Nat /\ "interrupted" \in Outcomes
  BY DEF None, Outcomes
<1>4. [host EXCEPT !.inbox = kept] \in Sessions
  BY <1>2, Zenon DEF Sessions
<1>5. [host EXCEPT !.inbox = kept, !.work = None,
                   !.outcome = "interrupted", !.retrying = FALSE] \in Sessions
  BY <1>2, <1>3, Zenon DEF Sessions
<1> QED
  BY <1>1, <1>4, <1>5, Zenon

LEMMA FaultType ==
    ASSUME used \in [calls : Nat, faults : Nat], NEW f, Fault(f)
    PROVE  used' \in [calls : Nat, faults : Nat]
BY DEF Fault

LEMMA CallType ==
    ASSUME used \in [calls : Nat, faults : Nat], NEW f, OwnerCall(f)
    PROVE  used' \in [calls : Nat, faults : Nat]
BY DEF OwnerCall

LEMMA BeginType ==
    ASSUME NEW l \in Labels, NEW b \in BOOLEAN, Begin(l, b)
    PROVE  op' \in Operations
<1>1. [FreeOp EXCEPT !.at = l, !.by = "owner", !.force = b] \in Operations BY InitialRecords, Zenon DEF Operations
<1> QED BY <1>1 DEF Begin

LEMMA InitTyped == Init => TypeOK
<1> SUFFICES ASSUME Init PROVE TypeOK
  OBVIOUS
<1>1. goal \in Goals
  BY DEF Init, Goals, Statuses
<1>2. op \in Operations
  <2>1. "create" \in Labels /\ "start" \in Threads \cup {"none", "start", "owner"}
    BY DEF Labels
  <2> QED BY <2>1, InitialRecords, Zenon DEF Init, Operations
<1>3. host \in Sessions
  BY DEF Init, Sessions, Outcomes, None
<1> QED
  BY <1>1, <1>2, <1>3, InitialRecords DEF Init, TypeOK, None

LEMMA TurnTyped == TypeOK /\ TurnStep => TypeOK'
<1> SUFFICES ASSUME TypeOK, TurnStep PROVE TypeOK'
  OBVIOUS
<1> USE DEF TypeOK
<1>1. CASE CreateWorker
  <2>1. op.at = "create" /\ UNCHANGED <<checking, stopped, tool, host, wire, told, used>>
    BY <1>1 DEF CreateWorker
  <2>2. CASE StepOp("assign") /\ UNCHANGED <<goal, rt, eng>>
    BY <2>1, <2>2, StepOpType DEF Labels
  <2>3. CASE SetStatus("blocked") /\ rt' = [rt EXCEPT !.phase = "idle"] /\ EndOp
    <3>1. rt' \in Runtimes
      BY <2>3 DEF Runtimes, Phases
    <3> QED
      BY <2>1, <2>3, <3>1, StatusType, EndOpType DEF Statuses
  <2> QED
    BY <1>1, <2>2, <2>3 DEF CreateWorker
<1>2. CASE AssignWorker
  <2>1. rt' \in Runtimes
    BY <1>2, AcquiredType DEF AssignWorker, Runtimes
  <2>2. op' \in Operations
    BY <1>2, <2>1 DEF AssignWorker, Operations, Runtimes, Labels
  <2> QED
    BY <1>2, <2>1, <2>2 DEF AssignWorker, Goals
<1>3. CASE ReadGuard
  BY <1>3, StepOpType, EndOpType DEF ReadGuard, Labels
<1>4. CASE ProbeIdle
  BY <1>4, StepOpType, EndOpType DEF ProbeIdle, Labels
<1>5. CASE AcquireTurn
  <2>1. CASE MayContinue /\ ~LeaseHeld
    <3>1. rt' \in Runtimes
      BY <1>5, <2>1, AcquiredType, CountedType DEF AcquireTurn
    <3>2. op' \in Operations
      BY <1>5, <2>1, <3>1 DEF AcquireTurn, Operations, Runtimes, Labels
    <3> QED
      BY <1>5, <2>1, <3>1, <3>2 DEF AcquireTurn
  <2>2. CASE ~(MayContinue /\ ~LeaseHeld)
    BY <1>5, <2>2, EndOpType DEF AcquireTurn
  <2> QED
    BY <2>1, <2>2
<1>6. CASE PrepareFails
  BY <1>6, StepOpType DEF PrepareFails, Labels
<1>7. CASE DispatchIntent
  BY <1>7, StepOpType, EndOpType, ReleasedType DEF DispatchIntent, Labels
<1>8. CASE SendPrompt
  <2>1. op' \in Operations
    BY <1>8, StepOpType DEF SendPrompt, Labels
  <2>2. host' \in Sessions /\ wire' \subseteq Nat
    BY <1>8 DEF SendPrompt, Sessions, Operations
  <2>3. used' \in [calls : Nat, faults : Nat]
    BY <1>8, FaultType DEF SendPrompt
  <2> QED
    BY <1>8, <2>1, <2>2, <2>3 DEF SendPrompt
<1>9. CASE VerifyLate
  BY <1>9, StepOpType DEF VerifyLate, Labels
<1>10. CASE AcceptDispatch
  <2>1. rt' \in Runtimes
    BY <1>10 DEF AcceptDispatch, Runtimes, Operations
  <2> QED
    BY <1>10, <2>1, EndOpType DEF AcceptDispatch
<1>11. CASE RecordFailure
  <2>1. rt' \in Runtimes
    <3>1. \A n \in Nat, p \in Phases :
            [Released(rt) EXCEPT !.fails = n, !.phase = p] \in Runtimes
      BY ReleasedType, Zenon DEF Runtimes
    <3>2. rt.fails + 1 \in Nat /\ {"idle", "waiting_retry"} \subseteq Phases
      BY DEF Runtimes, Phases
    <3>3. CASE rt.run # op.run
      BY <1>11, <3>3 DEF RecordFailure
    <3>4. CASE rt.run = op.run
      <4>1. PICK p \in {"idle", "waiting_retry"} :
              rt' = [Released(rt) EXCEPT !.fails = rt.fails + 1, !.phase = p]
        BY <1>11, <3>4 DEF RecordFailure
      <4> QED
        BY <3>1, <3>2, <4>1
    <3> QED
      BY <3>3, <3>4
  <2>2. goal' \in Goals
    BY <1>11, StatusType DEF RecordFailure, Statuses
  <2> QED
    BY <1>11, <2>1, <2>2, EndOpType DEF RecordFailure
<1> QED
  BY <1>1, <1>2, <1>3, <1>4, <1>5, <1>6, <1>7, <1>8, <1>9, <1>10, <1>11 DEF TurnStep

LEMMA OwnerTyped == TypeOK /\ (OwnerStep \/ OwnerOpStep) => TypeOK'
<1> SUFFICES ASSUME TypeOK, OwnerStep \/ OwnerOpStep PROVE TypeOK'
  OBVIOUS
<1> USE DEF TypeOK
<1>1. CASE PauseBegin
  BY <1>1, CallType, BeginType DEF PauseBegin, Labels
<1>2. CASE Resume
  BY <1>2, CallType, BeginType, StatusType DEF Resume, Labels, Statuses
<1>3. CASE Retry
  <2>1. rt' \in Runtimes
    BY <1>3, ReleasedType, Zenon DEF Retry, Runtimes
  <2> QED
    BY <1>3, <2>1, CallType, BeginType, StatusType DEF Retry, Labels, Statuses
<1>4. CASE NudgeBegin
  BY <1>4, CallType, BeginType DEF NudgeBegin, Labels
<1>5. CASE SetInteractive
  BY <1>5, CallType DEF SetInteractive, Goals
<1>6. CASE Clear
  <2>1. rt' \in Runtimes
    BY <1>6, InitialRecords DEF Clear, Runtimes, Phases
  <2> QED
    BY <1>6, <2>1, CallType, BeginType, StatusType DEF Clear, Labels, Statuses
<1>7. ASSUME NEW call, NEW status \in Statuses, ForceStatus(call, status) PROVE TypeOK'
  BY <1>7, CallType, ReleasedType, StatusType DEF ForceStatus
<1>8. CASE PauseCommit
  BY <1>8, ReleasedType, StepOpType, StatusType DEF PauseCommit, Labels, Statuses
<1>9. CASE AbortWorker
  BY <1>9, AbortType, EndOpType DEF AbortWorker
<1>10. CASE NudgeReset
  <2>1. rt' \in Runtimes
    <3>1. "idle" \in Phases /\ None \in Nat
      BY DEF Phases, None
    <3>2. [rt EXCEPT !.phase = "idle", !.run = None] \in Runtimes
      BY <3>1, Zenon DEF Runtimes
    <3> QED
      BY <1>10, <3>2 DEF NudgeReset
  <2> QED
    BY <1>10, <2>1, EndOpType, StepOpType DEF NudgeReset, Labels
<1>11. "complete" \in Statuses /\ "blocked" \in Statuses
  BY DEF Statuses
<1>12. CASE HaltBegin
  BY <1>12, CallType, BeginType DEF HaltBegin, Labels
<1>13. CASE HaltWorker
  BY <1>13, AbortType, StepOpType DEF HaltWorker, Labels
<1>14. CASE HaltRelease
  BY <1>14, ReleasedType, EndOpType DEF HaltRelease
<1> QED
  BY <1>1, <1>2, <1>3, <1>4, <1>5, <1>6, <1>7, <1>8, <1>9, <1>10, <1>11, <1>12, <1>13, <1>14
  DEF OwnerStep, OwnerOpStep

LEMMA ChargedType ==
    ASSUME NEW r \in Runtimes, NEW n \in Nat, NEW p \in Phases
    PROVE  [Released(r) EXCEPT !.fails = n, !.phase = p] \in Runtimes
BY ReleasedType, Zenon DEF Runtimes

LEMMA PhaseType ==
    ASSUME NEW r \in Runtimes, NEW p \in Phases
    PROVE  [r EXCEPT !.phase = p] \in Runtimes
BY Zenon DEF Runtimes

LEMMA SettledType ==
    ASSUME NEW r \in Runtimes
    PROVE  /\ \A b, c \in BOOLEAN : [r EXCEPT !.retrying = b, !.stuck = c] \in Runtimes
           /\ \A n \in Nat : [r EXCEPT !.fails = n, !.stuck = FALSE] \in Runtimes
           /\ [Released(r) EXCEPT !.retrying = FALSE, !.stuck = FALSE] \in Runtimes
BY ReleasedType, Zenon DEF Runtimes

LEMMA UnsettledType ==
    ASSUME eng \in [Threads -> EngineThreads], NEW t \in Threads, Unsettled(t)
    PROVE  eng' \in [Threads -> EngineThreads]
BY StepThreadType, EndThreadType DEF Unsettled, ThreadLabels

LEMMA ThreadTyped ==
    ASSUME NEW t \in Threads
    PROVE  TypeOK /\ ThreadStep(t) => TypeOK'
<1> SUFFICES ASSUME TypeOK, ThreadStep(t) PROVE TypeOK'
  OBVIOUS
<1> USE DEF TypeOK
<1>1. CASE ReadRun(t)
  <2>1. [eng[t] EXCEPT !.at = "look", !.gen = rt.gen, !.run = rt.run] \in EngineThreads
    <3>1. rt.gen \in Nat /\ rt.run \in Nat /\ "look" \in ThreadLabels
      BY DEF Runtimes, ThreadLabels
    <3> QED
      BY <3>1, Zenon DEF EngineThreads
  <2>2. eng' = [eng EXCEPT ![t] = [eng[t] EXCEPT !.at = "look", !.gen = rt.gen, !.run = rt.run]]
    BY <1>1 DEF ReadRun
  <2> QED
    BY <1>1, <2>1, <2>2 DEF ReadRun
<1>2. CASE ReadExecution(t)
  <2>1. PICK saw \in Projections(eng[t].run) :
          eng' = [eng EXCEPT ![t].saw = saw, ![t].misled = saw \in Outcomes /\ ~HostIdle,
                             ![t].at = IF saw \in Outcomes THEN "inspect" ELSE "settle"]
    BY <1>2 DEF ReadExecution
  <2> DEFINE m == saw \in Outcomes /\ ~HostIdle
             l == IF saw \in Outcomes THEN "inspect" ELSE "settle"
  <2>2. /\ saw \in Outcomes \cup {"retry", "busy", "foreign", "incomplete"}
        /\ m \in BOOLEAN /\ l \in ThreadLabels
    BY DEF Projections, Sessions, Outcomes, ThreadLabels
  <2>3. eng' = [eng EXCEPT ![t] = [eng[t] EXCEPT !.saw = saw, !.misled = m, !.at = l]]
    BY <2>1
  <2> HIDE DEF m, l
  <2>4. [eng[t] EXCEPT !.saw = saw, !.misled = m, !.at = l] \in EngineThreads
    BY <2>2, Zenon DEF EngineThreads
  <2> QED
    BY <1>2, <2>3, <2>4 DEF ReadExecution
<1>2a. CASE InspectTurn(t)
  <2>1. CASE StepThread(t, "settle")
    BY <1>2a, <2>1, StepThreadType DEF InspectTurn, ThreadLabels
  <2>2. CASE eng' = [eng EXCEPT ![t].at = "settle", ![t].misled = @ /\ eng[t].run \notin host.calls,
                       ![t].saw = IF eng[t].run \in host.calls THEN "incomplete" ELSE @]
    <3> DEFINE m == eng[t].misled /\ eng[t].run \notin host.calls
               w == IF eng[t].run \in host.calls THEN "incomplete" ELSE eng[t].saw
    <3>1. /\ w \in Outcomes \cup {"retry", "busy", "foreign", "incomplete"}
          /\ m \in BOOLEAN /\ "settle" \in ThreadLabels
      BY DEF EngineThreads, ThreadLabels
    <3>2. eng' = [eng EXCEPT ![t] = [eng[t] EXCEPT !.at = "settle", !.misled = m, !.saw = w]]
      BY <2>2
    <3> HIDE DEF m, w
    <3>3. [eng[t] EXCEPT !.at = "settle", !.misled = m, !.saw = w] \in EngineThreads
      BY <3>1, Zenon DEF EngineThreads
    <3> QED
      BY <1>2a, <3>2, <3>3 DEF InspectTurn
  <2> QED
    BY <1>2a, <2>1, <2>2 DEF InspectTurn
<1>3. CASE SettleStale(t)
  BY <1>3, UnsettledType DEF SettleStale, Settling
<1>4. CASE SettleRetry(t)
  <2>1. goal' \in Goals
    BY <1>4, StatusType DEF SettleRetry, Statuses
  <2>2. rt' \in Runtimes
    <3>1. rt.fails + 1 \in Nat
      BY DEF Runtimes
    <3>2. \/ rt' = [rt EXCEPT !.retrying = TRUE, !.stuck = FALSE]
          \/ rt' = [rt EXCEPT !.fails = rt.fails + 1, !.stuck = FALSE]
      BY <1>4 DEF SettleRetry
    <3> QED
      BY <3>1, <3>2, SettledType
  <2> QED
    BY <1>4, <2>1, <2>2, UnsettledType DEF SettleRetry, Settling
<1>5. CASE SettleBlocked(t)
  <2>1. rt' \in Runtimes
    BY <1>5, SettledType DEF SettleBlocked, NeedsOwner
  <2>2. eng' \in [Threads -> EngineThreads]
    BY <1>5, UnsettledType, StepThreadType DEF SettleBlocked, ThreadLabels
  <2> QED
    BY <1>5, <2>1, <2>2 DEF SettleBlocked, Settling
<1>6. CASE SettleFailed(t)
  BY <1>6, SettledType, StepThreadType DEF SettleFailed, Settling, ThreadLabels
<1>7. CASE SettleInterrupted(t)
  BY <1>7, SettledType, EndThreadType, StatusType DEF SettleInterrupted, Settling, Statuses
<1>8. CASE SettleSucceeded(t)
  BY <1>8, SettledType, EndThreadType, ProceedType DEF SettleSucceeded, Settling,
     ThreadLabels
<1>9. CASE ChargeFailure(t)
  <2>1. goal' \in Goals
    BY <1>9, StatusType DEF ChargeFailure, Statuses
  <2>2. rt' \in Runtimes
    <3>1. rt.fails + 1 \in Nat /\ {"idle", "waiting_retry"} \subseteq Phases
      BY DEF Runtimes, Phases
    <3>2. CASE SameTurn(t) /\ rt.phase = "running"
      <4>1. PICK p \in {"idle", "waiting_retry"} :
              rt' = [Released(rt) EXCEPT !.fails = rt.fails + 1, !.phase = p]
        BY <1>9, <3>2 DEF ChargeFailure
      <4> QED
        BY <3>1, <4>1, ChargedType
    <3>3. CASE ~(SameTurn(t) /\ rt.phase = "running")
      BY <1>9, <3>3 DEF ChargeFailure
    <3> QED
      BY <3>2, <3>3
  <2> QED
    BY <1>9, <2>1, <2>2, EndThreadType DEF ChargeFailure
<1>10. CASE AfterTurn(t)
  <2>1. [eng[t] EXCEPT !.at = "compactStart", !.phase = rt.phase] \in EngineThreads
    <3>1. rt.phase \in Phases /\ "compactStart" \in ThreadLabels
      BY DEF Runtimes, ThreadLabels
    <3> QED
      BY <3>1, Zenon DEF EngineThreads
  <2>2. \/ EndThread(t) \/ Proceed(t, "gate", TRUE) \/ StepThread(t, "stop")
        \/ StepThread(t, "budget") \/ StepThread(t, "gate")
        \/ eng' = [eng EXCEPT ![t] = [eng[t] EXCEPT !.at = "compactStart", !.phase = rt.phase]]
    BY <1>10 DEF AfterTurn
  <2>3. eng' \in [Threads -> EngineThreads]
    BY <2>1, <2>2, EndThreadType, StepThreadType, ProceedType DEF ThreadLabels
  <2> QED
    BY <1>10, <2>3 DEF AfterTurn
<1>11. CASE StopAtLimit(t)
  <2>1. rt' \in Runtimes
    BY <1>11 DEF StopAtLimit, Runtimes
  <2> QED
    BY <1>11, <2>1, EndThreadType, StatusType DEF StopAtLimit, Statuses
<1>12. CASE StopAtBudget(t)
  BY <1>12, EndThreadType, StatusType DEF StopAtBudget, Statuses
<1>13. CASE CompactStart(t)
  <2>1. rt' \in Runtimes
    BY <1>13, PhaseType DEF CompactStart, Phases
  <2> QED
    BY <1>13, <2>1, StepThreadType DEF CompactStart, ThreadLabels
<1>14. CASE Compact(t)
  BY <1>14, StepThreadType DEF Compact, ThreadLabels
<1>15. CASE CompactEnd(t)
  <2>1. rt' \in Runtimes
    <3>1. eng[t].phase \in Phases
      BY DEF EngineThreads
    <3> QED
      BY <1>15, <3>1, PhaseType DEF CompactEnd
  <2> QED
    BY <1>15, <2>1, EndThreadType DEF CompactEnd
<1>16. CASE ContinueGoal(t)
  <2>1. (eng[t].final \/ TurnLimit) \in BOOLEAN
    BY DEF EngineThreads
  <2>2. eng' \in [Threads -> EngineThreads]
    BY <1>16, <2>1, EndThreadType, ProceedType DEF ContinueGoal, ThreadLabels
  <2> QED
    BY <1>16, <2>2 DEF ContinueGoal
<1>17. CASE StartTurn(t)
  <2>1. [FreeOp EXCEPT !.at = "guard", !.by = t, !.final = eng[t].final] \in Operations
    <3>1. eng[t].final \in BOOLEAN /\ "guard" \in Labels
      BY DEF EngineThreads, Labels
    <3> QED
      BY <3>1, InitialRecords, Zenon DEF Operations
  <2>2. op' \in Operations
    BY <1>17, <2>1 DEF StartTurn, FreeOp
  <2>3. eng' \in [Threads -> EngineThreads]
    BY <1>17, ProceedType DEF StartTurn, ThreadLabels
  <2> QED
    BY <1>17, <2>2, <2>3 DEF StartTurn
<1> QED
  BY <1>1, <1>2, <1>3, <1>4, <1>5, <1>6, <1>7, <1>8, <1>9, <1>10, <1>11, <1>12,
     <1>13, <1>14, <1>15, <1>16, <1>17, <1>2a DEF ThreadStep

LEMMA SweepTyped == TypeOK /\ (ReceiveEvent \/ SweepStep) => TypeOK'
<1> SUFFICES ASSUME TypeOK, ReceiveEvent \/ SweepStep PROVE TypeOK'
  OBVIOUS
<1> USE DEF TypeOK
<1> DEFINE T == "sweep"
<1>0. T \in Threads /\ "event" \in Threads
  BY DEF Threads
<1>1. CASE ReceiveEvent
  <2>1. [eng["event"] EXCEPT !.at = "observe", !.manual = goal.manual] \in EngineThreads
    <3>1. goal.manual \in BOOLEAN /\ "observe" \in ThreadLabels
      BY DEF Goals, ThreadLabels
    <3> QED
      BY <1>0, <3>1, Zenon DEF EngineThreads
  <2>2. eng' = [eng EXCEPT !["event"] = [eng["event"] EXCEPT !.at = "observe", !.manual = goal.manual]]
    BY <1>1 DEF ReceiveEvent
  <2> QED
    BY <1>0, <1>1, <2>1, <2>2 DEF ReceiveEvent
<1>2. CASE SweepStart
  <2>1. [eng[T] EXCEPT !.at = "account", !.phase = rt.phase,
                      !.manual = goal.manual, !.began = rt.run] \in EngineThreads
    <3>1. goal.manual \in BOOLEAN /\ rt.phase \in Phases /\ rt.run \in Nat /\ "account" \in ThreadLabels
      BY DEF Goals, Runtimes, ThreadLabels
    <3> QED
      BY <1>0, <3>1, Zenon DEF EngineThreads
  <2>2. \/ StepThread(T, "leak")
        \/ eng' = [eng EXCEPT ![T] = [eng[T] EXCEPT !.at = "account", !.phase = rt.phase,
                                                    !.manual = goal.manual,
                                                    !.began = rt.run]]
    BY <1>2 DEF SweepStart
  <2>3. eng' \in [Threads -> EngineThreads]
    BY <1>0, <2>1, <2>2, StepThreadType DEF ThreadLabels
  <2> QED
    BY <1>2, <2>3 DEF SweepStart
<1>3. CASE ClearLeak
  BY <1>0, <1>3, ReleasedType, EndThreadType DEF ClearLeak
<1>4. CASE Account
  <2>1. goal' \in Goals
    BY <1>4 DEF Account, accountTailUsage, Goals
  <2> QED
    BY <1>0, <1>4, <2>1, StepThreadType DEF Account, accountTailUsage, ThreadLabels
<1>5. CASE HaltSpend
  BY <1>0, <1>5, AbortType, StepThreadType DEF HaltSpend, ThreadLabels
<1>6. CASE LimitSpend
  <2>1. CASE goal.status = "active"
    BY <1>0, <1>6, <2>1, ReleasedType, StatusType, EndThreadType DEF LimitSpend, Statuses
  <2>2. CASE goal.status = "budget_limited"
    BY <1>0, <1>6, <2>2, EndThreadType DEF LimitSpend
  <2>3. CASE goal.status \notin {"active", "budget_limited"}
    BY <1>0, <1>6, <2>3, StepThreadType DEF LimitSpend, ThreadLabels
  <2> QED
    BY <2>1, <2>2, <2>3
<1>7. CASE Choose
  <2>1. \/ Proceed(T, "retryReady", FALSE) \/ StepThread(T, "observe")
        \/ Proceed(T, "gate", FALSE) \/ EndThread(T)
    BY <1>7 DEF Choose
  <2>2. eng' \in [Threads -> EngineThreads]
    BY <1>0, <2>1, EndThreadType, StepThreadType, ProceedType DEF ThreadLabels
  <2> QED
    BY <1>7, <2>2 DEF Choose
<1>8. CASE RetryReady
  BY <1>0, <1>8, PhaseType, StepThreadType DEF RetryReady, ThreadLabels, Phases
<1>9. CASE WatchStuck
  BY <1>0, <1>9, EndThreadType DEF WatchStuck, Runtimes
<1> QED
  BY <1>1, <1>2, <1>3, <1>4, <1>5, <1>6, <1>7, <1>8, <1>9 DEF SweepStep

LEMMA ToolTyped ==
    TypeOK /\ (ToolStep \/ \E call \in WorkerCalls : ToolBegin(call)) => TypeOK'
<1> SUFFICES ASSUME TypeOK, ToolStep \/ \E call \in WorkerCalls : ToolBegin(call)
             PROVE  TypeOK'
  OBVIOUS
<1> USE DEF TypeOK
<1>1. ASSUME NEW call \in WorkerCalls, ToolBegin(call) PROVE TypeOK'
  <2>1. call \in {"complete", "block", "progress", "notify"}
    BY WorkerCallsAssumption
  <2>2. tool' \in ToolCalls
    BY <1>1, <2>1 DEF ToolBegin, ToolCalls
  <2> QED
    BY <1>1, <2>2 DEF ToolBegin
<1>2. CASE ChecksStart
  <2>1. [tool EXCEPT !.at = "checks"] \in ToolCalls
    BY <1>2 DEF ChecksStart, ToolCalls, NoTool
  <2> QED
    BY <1>2, <2>1, InitialRecords DEF ChecksStart
<1>3. CASE ChecksEnd
  <2>1. \A v \in {"persist", "reject"} : [tool EXCEPT !.at = v] \in ToolCalls
    BY <1>3 DEF ChecksEnd, ToolCalls, NoTool
  <2> QED
    BY <1>3, <2>1 DEF ChecksEnd
<1>4. CASE RejectCompletion
  <2>1. rt.rejections + 1 \in Nat
    BY DEF Runtimes
  <2>2. [rt EXCEPT !.rejections = rt.rejections + 1, !.forced = FALSE, !.free = TRUE] \in Runtimes
    BY <2>1, Zenon DEF Runtimes
  <2>3. \A n \in Nat : [Released(rt) EXCEPT !.rejections = n, !.forced = FALSE, !.free = FALSE] \in Runtimes
    BY ReleasedType, Zenon DEF Runtimes
  <2>4. Released(rt).rejections + 1 \in Nat
    BY ReleasedType DEF Runtimes
  <2>5. \/ rt' = rt
        \/ rt' = [Released(rt) EXCEPT !.rejections = Released(rt).rejections + 1,
                                      !.forced = FALSE, !.free = FALSE]
        \/ rt' = [rt EXCEPT !.rejections = rt.rejections + 1, !.forced = FALSE, !.free = TRUE]
    BY <1>4 DEF RejectCompletion
  <2>6. goal' \in Goals
    BY <1>4, StatusType DEF RejectCompletion, Statuses
  <2> QED
    BY <1>4, <2>2, <2>3, <2>4, <2>5, <2>6, InitialRecords DEF RejectCompletion
<1>5. CASE PersistTool
  <2>1. tool.snap \in Runtimes /\ tool.call \in {"complete", "block", "progress", "notify"}
    BY <1>5 DEF PersistTool, ToolCalls, NoTool
  <2>2. [tool.snap EXCEPT !.fails = 0] \in Runtimes
    BY <2>1 DEF Runtimes
  <2>3. /\ Outcome(tool.call, tool.snap).rt \in Runtimes
        /\ Outcome(tool.call, tool.snap).status \in Statuses
    BY <2>1, <2>2, ReleasedType DEF Outcome, complete_goal, block_goal, report_goal_progress, notify_owner, Statuses
  <2> QED
    BY <1>5, <2>3, StatusType, InitialRecords DEF PersistTool
<1> QED
  BY <1>1, <1>2, <1>3, <1>4, <1>5 DEF ToolStep

LEMMA EnvironmentTyped == TypeOK /\ Environment => TypeOK'
<1> SUFFICES ASSUME TypeOK, Environment PROVE TypeOK'
  OBVIOUS
<1> USE DEF TypeOK
<1>0. host.inbox \in SUBSET Nat /\ None \in Nat
  BY DEF Sessions, None
<1>1. ASSUME NEW r \in host.inbox, TurnStarts(r) PROVE TypeOK'
  <2>1. r \in Nat /\ host.inbox \ {r} \in SUBSET Nat /\ host.delivered \cup {r} \in SUBSET Nat
    BY <1>0 DEF Sessions
  <2>2. [host EXCEPT !.inbox = host.inbox \ {r}, !.work = r, !.latest = r,
                     !.delivered = host.delivered \cup {r}, !.outcome = "missing"] \in Sessions
    BY <2>1, Zenon DEF Sessions, Outcomes
  <2> QED
    BY <1>1, <2>2 DEF TurnStarts
<1>2. ASSUME NEW o \in Outcomes PROVE
        [host EXCEPT !.work = None, !.outcome = o, !.retrying = FALSE] \in Sessions
  BY <1>0, Zenon DEF Sessions
<1>3. ASSUME NEW o \in Outcomes, TurnEnds(o) PROVE TypeOK'
  BY <1>2, <1>3 DEF TurnEnds
<1>4. CASE ProviderRetries
  BY <1>4, FaultType DEF ProviderRetries, Sessions
<1>4a. CASE ToolLoop
  <2>1. host' \in Sessions
    <3>1. host.calls \cup {host.work} \in SUBSET Nat /\ host.calls \ {host.work} \in SUBSET Nat
      BY DEF Sessions
    <3>2. \A c \in SUBSET Nat : [host EXCEPT !.calls = c] \in Sessions
      BY Zenon DEF Sessions
    <3> QED
      BY <1>4a, <3>1, <3>2 DEF ToolLoop
  <2>2. used' \in [calls : Nat, faults : Nat]
    BY <1>4a, FaultType DEF ToolLoop
  <2> QED
    BY <1>4a, <2>1, <2>2 DEF ToolLoop
<1>5. CASE SessionStopped
  BY <1>2, <1>5, FaultType DEF SessionStopped, Outcomes
<1>6. CASE ForeignPrompt
  <2>1. [host EXCEPT !.latest = None] \in Sessions
    BY <1>0, Zenon DEF Sessions
  <2> QED
    BY <1>6, <2>1, FaultType DEF ForeignPrompt
<1>7. ASSUME NEW r \in wire, LateArrival(r) PROVE TypeOK'
  <2>1. host' \in Sessions
    BY <1>0, <1>7 DEF LateArrival, Sessions
  <2> QED
    BY <1>7, <2>1 DEF LateArrival
<1>8. CASE LeaseExpires
  BY <1>8 DEF LeaseExpires, Runtimes
<1>9. CASE Restart
  <2>1. host' \in Sessions
    <3>1. PICK outcome \in {"interrupted", "missing"}, kept \in Kept :
            host' = IF host.work = None THEN [host EXCEPT !.inbox = kept]
                    ELSE [host EXCEPT !.inbox = kept, !.work = None,
                                      !.outcome = outcome, !.retrying = FALSE]
      BY <1>9 DEF Restart
    <3>2. kept \in SUBSET Nat /\ outcome \in Outcomes
      BY <1>0 DEF Kept, Outcomes
    <3>3. [host EXCEPT !.inbox = kept] \in Sessions
      BY <3>2, Zenon DEF Sessions
    <3>4. [host EXCEPT !.inbox = kept, !.work = None,
                       !.outcome = outcome, !.retrying = FALSE] \in Sessions
      BY <1>0, <3>2, Zenon DEF Sessions
    <3> QED
      BY <3>1, <3>3, <3>4, Zenon
  <2>2. goal' \in Goals
    <3>1. (goal.worker \/ goal.status = "active") \in BOOLEAN
      BY DEF Goals
    <3>2. [goal EXCEPT !.worker = goal.worker \/ goal.status = "active"] \in Goals
      BY <3>1, Zenon DEF Goals
    <3> QED
      BY <1>9, <3>2 DEF Restart
  <2> QED
    BY <1>9, <2>1, <2>2, FaultType, InitialRecords DEF Restart
<1> QED
  BY <1>1, <1>3, <1>4, <1>5, <1>6, <1>7, <1>8, <1>9, <1>4a DEF Environment

LEMMA NextTyped == TypeOK /\ [Next]_vars => TypeOK'
<1> SUFFICES ASSUME TypeOK, [Next]_vars PROVE TypeOK'
  OBVIOUS
<1>1. CASE UNCHANGED vars
  BY <1>1 DEF vars, TypeOK
<1>2. CASE Next
  BY <1>2, TurnTyped, OwnerTyped, ThreadTyped, SweepTyped, ToolTyped,
     EnvironmentTyped DEF Next
<1> QED
  BY <1>1, <1>2

\* Every variable keeps its type, whatever the limits, the faults and the calls.
THEOREM TypeCorrect == Spec => []TypeOK
<1> QED
  BY InitTyped, NextTyped, PTL DEF Spec
-----------------------------------------------------------------------------
(* The ledger: what the session holds, and what a step may do to it.        *)

Sent == host.delivered \cup Session \cup wire

\* An operation that has looked at the session and found it quiet.
HasLooked(o) ==
    o.at \in {"acquire", "intent", "send", "reset"} \/ (o.at = "guard" /\ o.force)

\* The host never calls a session idle whose turn is between two tool calls, the
\* case the engine reads the transcript for.
ExactProbes == "toolCalls" \notin Faults

\* Each turn sends one prompt, after it was opened.
SentInv ==
    /\ Sent \subseteq 1 .. rt.gen
    /\ op.at \in {"create", "assign"} => rt.gen = 0
    /\ op.at \in {"intent", "send"} => op.run = rt.gen /\ rt.gen > 0 /\ rt.gen \notin Sent

\* Who has found the session quiet still finds it so: no other operation runs.
QuietInv ==
    ExactProbes =>
        /\ host.calls = {}
        /\ HasLooked(op) => Session \subseteq wire
        /\ OneTurnAtATime

LedgerInv == SentInv /\ QuietInv

Neutral ==
    \/ op' = op
    \/ op'.at \in {"free", "pause", "abort", "probe", "verify", "accept", "record", "halt", "release"}
    \/ op'.at = "guard" /\ ~op'.force

SameGen == rt'.gen = rt.gen
SameSession ==
    /\ host'.inbox = host.inbox /\ host'.work = host.work
    /\ host'.delivered = host.delivered /\ wire' = wire /\ host'.calls = host.calls

\* The session is quiet, if a probe that says so can be believed.
Quiet == ExactProbes => Session \subseteq wire

\* The kinds of steps, by their effect on the ledger.
Silent == SameGen /\ SameSession /\ Neutral
Looked == SameGen /\ SameSession /\ op'.at \in {"acquire", "reset", "guard"} /\ Quiet
Advanced ==
    /\ SameGen /\ SameSession
    /\ \/ op.at = "intent" /\ op'.at = "send" /\ op'.run = op.run
       \/ op.at = "create" /\ op'.at = "assign"
Opened ==
    /\ rt'.gen = rt.gen + 1 /\ SameSession /\ Quiet
    /\ op'.at = "intent" /\ op'.run = rt.gen + 1
Dispatched ==
    /\ SameGen /\ op.at = "send" /\ op'.at \in {"accept", "verify", "record"}
    /\ host'.work = host.work /\ host'.delivered = host.delivered /\ host'.calls = host.calls
    /\ \/ host'.inbox = host.inbox \cup {op.run} /\ wire' = wire
       \/ host'.inbox = host.inbox /\ wire' = wire \cup {op.run}
Arrived ==
    /\ SameGen /\ op' = op
    /\ \E r \in wire \ (host.delivered \cup host.inbox) : host'.inbox = host.inbox \cup {r}
    /\ host'.work = host.work /\ host'.delivered = host.delivered /\ wire' = wire
    /\ host'.calls = host.calls
Started ==
    /\ SameGen /\ op' = op /\ wire' = wire /\ host.work = None /\ host'.calls = host.calls
    /\ \E r \in host.inbox :
          /\ host'.inbox = host.inbox \ {r} /\ host'.work = r
          /\ host'.delivered = host.delivered \cup {r}
Ended ==
    /\ SameGen /\ Neutral /\ wire' = wire
    /\ host'.work = None /\ host'.inbox \in {host.inbox, {}}
    /\ host'.delivered = host.delivered /\ host'.calls = host.calls
Looped ==
    /\ SameGen /\ op' = op /\ wire' = wire /\ ~ExactProbes
    /\ host'.inbox = host.inbox /\ host'.work = host.work
    /\ host'.delivered = host.delivered

Effect ==
    \/ Silent \/ Looked \/ Advanced \/ Opened
    \/ Dispatched \/ Arrived \/ Started \/ Ended \/ Looped

LEMMA EffectKeepsSent == TypeOK /\ TypeOK' /\ SentInv /\ Effect => SentInv'
<1> SUFFICES ASSUME TypeOK, TypeOK', SentInv, Effect PROVE SentInv'
  OBVIOUS
<1>0. /\ rt.gen \in Nat /\ rt'.gen \in Nat
      /\ host.inbox \subseteq Nat /\ host.work \in Nat /\ host.delivered \subseteq Nat
      /\ wire \subseteq Nat /\ None = 0
  BY DEF TypeOK, Runtimes, Sessions, None
<1> USE <1>0 DEF SameGen, SameSession, Neutral, SentInv, Sent, Session
<1>1. CASE Silent
  BY <1>1 DEF Silent
<1>2. CASE Looked
  BY <1>2 DEF Looked
<1>3. CASE Advanced
  BY <1>3 DEF Advanced
<1>4. CASE Opened
  BY <1>4 DEF Opened
<1>5. CASE Dispatched
  BY <1>5 DEF Dispatched
<1>6. CASE Arrived
  BY <1>6 DEF Arrived
<1>7. CASE Started
  BY <1>7 DEF Started
<1>8. CASE Ended
  BY <1>8 DEF Ended
<1>9. CASE Looped
  BY <1>9 DEF Looped
<1> QED
  BY <1>1, <1>2, <1>3, <1>4, <1>5, <1>6, <1>7, <1>8, <1>9 DEF Effect

LEMMA EffectKeepsQuiet == TypeOK /\ TypeOK' /\ LedgerInv /\ Effect => QuietInv'
<1> SUFFICES ASSUME TypeOK, TypeOK', LedgerInv, Effect, ExactProbes
             PROVE  /\ host'.calls = {}
                    /\ HasLooked(op') => Session' \subseteq wire'
                    /\ OneTurnAtATime'
  BY DEF QuietInv, ExactProbes
<1>0. /\ rt.gen \in Nat /\ rt'.gen \in Nat
      /\ host.inbox \subseteq Nat /\ host.work \in Nat /\ host.delivered \subseteq Nat
      /\ wire \subseteq Nat /\ None = 0
  BY DEF TypeOK, Runtimes, Sessions, None
<1> USE <1>0 DEF SameGen, SameSession, Neutral, LedgerInv, SentInv, QuietInv, Sent, Session,
   HasLooked, OneTurnAtATime, Quiet
<1>1. CASE Silent
  BY <1>1 DEF Silent
<1>2. CASE Looked
  BY <1>2 DEF Looked
<1>3. CASE Advanced
  BY <1>3 DEF Advanced
<1>4. CASE Opened
  BY <1>4 DEF Opened
<1>5. CASE Dispatched
  BY <1>5 DEF Dispatched
<1>6. CASE Arrived
  BY <1>6 DEF Arrived
<1>7. CASE Started
  BY <1>7 DEF Started
<1>8. CASE Ended
  BY <1>8 DEF Ended
<1>9. CASE Looped
  BY <1>9 DEF Looped
<1> QED
  BY <1>1, <1>2, <1>3, <1>4, <1>5, <1>6, <1>7, <1>8, <1>9 DEF Effect

LEMMA EffectKeepsInv == TypeOK /\ TypeOK' /\ LedgerInv /\ Effect => LedgerInv'
BY EffectKeepsSent, EffectKeepsQuiet DEF LedgerInv

LEMMA EffectIsLedgerStep ==
    ASSUME ExactProbes
    PROVE  TypeOK /\ LedgerInv /\ Effect => [Ledger!Next]_(Ledger!vars)
<1> SUFFICES ASSUME TypeOK, LedgerInv, Effect PROVE [Ledger!Next]_(Ledger!vars)
  OBVIOUS
<1>0. /\ rt.gen \in Nat
      /\ host.inbox \subseteq Nat /\ host.work \in Nat /\ host.delivered \subseteq Nat
      /\ wire \subseteq Nat /\ None = 0
  BY DEF TypeOK, Runtimes, Sessions, None
<1>a. Session \subseteq wire => Ledger!Session \subseteq wire
  BY <1>0 DEF Session, Ledger!Session
<1>1. CASE Silent \/ Looked \/ Advanced
  BY <1>1 DEF Silent, Looked, Advanced, SameGen, SameSession, Ledger!vars
<1>2. CASE Opened
  BY <1>a, <1>2 DEF Opened, Quiet, SameSession, Ledger!Next, Ledger!Open
<1>3. CASE Dispatched
  <2>1. Ledger!Sendable(rt.gen)
    BY <1>0, <1>a, <1>3 DEF Dispatched, LedgerInv, SentInv, QuietInv, HasLooked, Sent, Session,
       Ledger!Sendable
  <2>2. op.run = rt.gen
    BY <1>3 DEF Dispatched, LedgerInv, SentInv
  <2> QED
    BY <1>3, <2>1, <2>2 DEF Dispatched, SameGen, Ledger!Next, Ledger!Send
<1>4. CASE Arrived
  BY <1>4 DEF Arrived, SameGen, Ledger!Next, Ledger!Arrive
<1>5. CASE Started
  BY <1>0, <1>5 DEF Started, SameGen, Ledger!Next, Ledger!Begin
<1>6. CASE Ended
  BY <1>0, <1>6 DEF Ended, SameGen, Ledger!Next, Ledger!End
<1>7. ~Looped
  BY DEF Looped
<1> QED
  BY <1>1, <1>2, <1>3, <1>4, <1>5, <1>6, <1>7 DEF Effect

LEMMA GenKept ==
    ASSUME NEW r \in Runtimes
    PROVE  Released(r).gen = r.gen /\ Counted(r).gen = r.gen /\ Acquired(r).gen = r.gen + 1
           /\ Acquired(r).run = r.gen + 1 /\ Counted(r).run = r.run
BY DEF Released, Counted, Acquired, Runtimes

LEMMA AbortEnds ==
    ASSUME TypeOK, Abort
    PROVE  /\ host'.work = None /\ host'.inbox \in {host.inbox, {}}
           /\ host'.delivered = host.delivered /\ host'.calls = host.calls
<1>1. PICK kept \in Kept :
        host' = IF host.work = None THEN [host EXCEPT !.inbox = kept]
                ELSE [host EXCEPT !.inbox = kept, !.work = None,
                                  !.outcome = "interrupted", !.retrying = FALSE]
  BY DEF Abort
<1>2. kept \in {host.inbox, {}}
  BY DEF Kept
<1>3. host \in Sessions
  BY DEF TypeOK
<1> QED
  BY <1>1, <1>2, <1>3 DEF Sessions

\* A probe that may say idle finds the session quiet, where probes are exact.
LEMMA ProbesQuiet ==
    ASSUME QuietInv, TRUE \in Probes
    PROVE  Quiet
<1> SUFFICES ASSUME ExactProbes PROVE Session \subseteq wire
  BY DEF Quiet
<1>1. ~BetweenCalls
  BY DEF QuietInv, BetweenCalls
<1>2. HostIdle
  BY <1>1 DEF Probes
<1> QED
  BY <1>2 DEF HostIdle, Session

LEMMA TurnEffect == TypeOK /\ LedgerInv /\ TurnStep => Effect
<1> SUFFICES ASSUME TypeOK, LedgerInv, TurnStep PROVE Effect
  OBVIOUS
<1>0. rt \in Runtimes /\ op \in Operations /\ host \in Sessions
  BY DEF TypeOK
<1> USE <1>0, GenKept DEF SameGen, SameSession, Neutral
<1>1. CASE CreateWorker
  <2>1. CASE StepOp("assign") /\ UNCHANGED <<goal, rt, eng>>
    BY <1>1, <2>1 DEF CreateWorker, StepOp, Operations, Advanced, Effect
  <2>2. CASE rt' = [rt EXCEPT !.phase = "idle"] /\ EndOp
    BY <1>1, <2>2 DEF CreateWorker, EndOp, FreeOp, Runtimes, Silent, Effect
  <2> QED
    BY <1>1, <2>1, <2>2 DEF CreateWorker
<1>2. CASE AssignWorker
  <2>1. rt.gen = 0 /\ Sent = {}
    BY <1>2 DEF AssignWorker, LedgerInv, SentInv
  <2>2. rt'.gen = rt.gen + 1 /\ rt'.run = rt.gen + 1
    BY <1>2, AcquiredType DEF AssignWorker, Runtimes
  <2> QED
    BY <1>2, <2>1, <2>2 DEF AssignWorker, Operations, Opened, Effect, Sent, Quiet
<1>3. CASE ReadGuard
  <2>1. CASE StepOp(IF op.force THEN "acquire" ELSE "probe")
    BY <1>3, <2>1 DEF ReadGuard, StepOp, Operations, LedgerInv, QuietInv, Quiet, HasLooked,
       Silent, Looked, Effect
  <2>2. CASE EndOp
    BY <1>3, <2>2 DEF ReadGuard, EndOp, FreeOp, Silent, Effect
  <2> QED
    BY <1>3, <2>1, <2>2 DEF ReadGuard
<1>4. CASE ProbeIdle
  <2>1. CASE TRUE \in Probes /\ StepOp("acquire")
    BY <1>4, <2>1, ProbesQuiet DEF ProbeIdle, LedgerInv, StepOp, Operations, Looked, Effect
  <2>2. CASE EndOp
    BY <1>4, <2>2 DEF ProbeIdle, EndOp, FreeOp, Silent, Effect
  <2> QED
    BY <1>4, <2>1, <2>2 DEF ProbeIdle
<1>5. CASE AcquireTurn
  <2>1. CASE MayContinue /\ ~LeaseHeld
    <3>1. rt'.gen = rt.gen + 1 /\ rt'.run = rt.gen + 1
      BY <1>5, <2>1, AcquiredType DEF AcquireTurn
    <3> QED
      BY <1>5, <2>1, <3>1 DEF AcquireTurn, Operations, LedgerInv, QuietInv, Quiet, HasLooked,
         Opened, Effect
  <2>2. CASE ~(MayContinue /\ ~LeaseHeld)
    BY <1>5, <2>2 DEF AcquireTurn, EndOp, FreeOp, Silent, Effect
  <2> QED
    BY <2>1, <2>2
<1>6. CASE PrepareFails
  BY <1>6 DEF PrepareFails, StepOp, Operations, Silent, Effect
<1>7. CASE DispatchIntent
  <2>1. CASE StepOp("send") /\ UNCHANGED <<rt, eng>>
    BY <1>7, <2>1 DEF DispatchIntent, StepOp, Operations, Advanced, Effect
  <2>2. CASE (rt' = IF rt.run = op.run THEN Released(rt) ELSE rt) /\ EndOp
    BY <1>7, <2>2 DEF DispatchIntent, EndOp, FreeOp, Silent, Effect
  <2> QED
    BY <1>7, <2>1, <2>2 DEF DispatchIntent
<1>8. CASE SendPrompt
  BY <1>8 DEF SendPrompt, StepOp, Operations, Sessions, Silent, Dispatched, Effect
<1>9. CASE VerifyLate
  BY <1>9 DEF VerifyLate, StepOp, Operations, Silent, Effect
<1>10. CASE AcceptDispatch
  <2>1. rt'.gen = rt.gen
    BY <1>10 DEF AcceptDispatch, Runtimes
  <2> QED
    BY <1>10, <2>1 DEF AcceptDispatch, EndOp, FreeOp, Silent, Effect
<1>11. CASE RecordFailure
  <2>1. rt'.gen = rt.gen
    BY <1>11, ReleasedType DEF RecordFailure, Runtimes
  <2> QED
    BY <1>11, <2>1 DEF RecordFailure, EndOp, FreeOp, Silent, Effect
<1> QED
  BY <1>1, <1>2, <1>3, <1>4, <1>5, <1>6, <1>7, <1>8, <1>9, <1>10, <1>11 DEF TurnStep

LEMMA OwnerEffect == TypeOK /\ LedgerInv /\ (OwnerStep \/ OwnerOpStep) => Effect
<1> SUFFICES ASSUME TypeOK, LedgerInv, OwnerStep \/ OwnerOpStep PROVE Effect
  OBVIOUS
<1>0. rt \in Runtimes /\ op \in Operations /\ host \in Sessions
  BY DEF TypeOK
<1> USE <1>0, GenKept DEF SameGen, SameSession, Neutral, FreeOp
<1>1. CASE PauseBegin
  BY <1>1 DEF PauseBegin, Begin, Silent, Effect
<1>2. CASE Resume
  BY <1>2 DEF Resume, Begin, Silent, Effect
<1>3. CASE Retry
  <2>1. rt'.gen = rt.gen
    BY <1>3, ReleasedType DEF Retry, Runtimes
  <2> QED
    BY <1>3, <2>1 DEF Retry, Begin, Silent, Effect
<1>4. CASE NudgeBegin
  BY <1>4, ProbesQuiet DEF NudgeBegin, Begin, LedgerInv, Looked, Effect
<1>5. CASE SetInteractive
  BY <1>5 DEF SetInteractive, Silent, Effect
<1>6. CASE Clear
  <2>1. rt'.gen = rt.gen
    BY <1>6, InitialRecords DEF Clear, Runtimes
  <2> QED
    BY <1>6, <2>1 DEF Clear, Begin, Silent, Effect
<1>7. ASSUME NEW call, NEW status, ForceStatus(call, status) PROVE Effect
  BY <1>7 DEF ForceStatus, Silent, Effect
<1>8. CASE PauseCommit
  BY <1>8 DEF PauseCommit, StepOp, Operations, Silent, Effect
<1>9. CASE AbortWorker
  BY <1>9, AbortEnds DEF AbortWorker, EndOp, Ended, Effect
<1>10. CASE NudgeReset
  <2>1. CASE MayContinue
    <3>1. rt'.gen = rt.gen
      BY <1>10, <2>1 DEF NudgeReset, Runtimes
    <3> QED
      BY <1>10, <2>1, <3>1 DEF NudgeReset, StepOp, Operations, LedgerInv, QuietInv,
         Quiet, HasLooked, Looked, Effect
  <2>2. CASE ~MayContinue
    BY <1>10, <2>2 DEF NudgeReset, EndOp, Silent, Effect
  <2> QED
    BY <2>1, <2>2
<1>11. CASE HaltBegin
  BY <1>11 DEF HaltBegin, Begin, Silent, Effect
<1>12. CASE HaltWorker
  BY <1>12, AbortEnds DEF HaltWorker, StepOp, Operations, Ended, Effect
<1>13. CASE HaltRelease
  <2>1. rt'.gen = rt.gen
    BY <1>13, ReleasedType DEF HaltRelease, Runtimes
  <2> QED
    BY <1>13, <2>1 DEF HaltRelease, EndOp, Silent, Effect
<1> QED
  BY <1>1, <1>2, <1>3, <1>4, <1>5, <1>6, <1>7, <1>8, <1>9, <1>10, <1>11, <1>12, <1>13
  DEF OwnerStep, OwnerOpStep

LEMMA ThreadEffect ==
    ASSUME NEW t \in Threads
    PROVE  TypeOK /\ LedgerInv /\ ThreadStep(t) => Effect
<1> SUFFICES ASSUME TypeOK, LedgerInv, ThreadStep(t) PROVE Effect
  OBVIOUS
<1>0. rt \in Runtimes /\ Released(rt) \in Runtimes
  BY ReleasedType DEF TypeOK
<1> USE <1>0, GenKept DEF SameGen, SameSession, Neutral, Silent, Effect
<1>1. CASE ReadRun(t)
  BY <1>1 DEF ReadRun
<1>2. CASE ReadExecution(t)
  BY <1>2 DEF ReadExecution
<1>2a. CASE InspectTurn(t)
  BY <1>2a DEF InspectTurn
<1>3. CASE SettleStale(t)
  BY <1>3 DEF SettleStale, Settling
<1>4. CASE SettleRetry(t)
  BY <1>4 DEF SettleRetry, Settling, Runtimes
<1>5. CASE SettleBlocked(t)
  BY <1>5 DEF SettleBlocked, Settling, Runtimes
<1>6. CASE SettleFailed(t)
  BY <1>6 DEF SettleFailed, Settling, Runtimes
<1>7. CASE SettleInterrupted(t)
  BY <1>7 DEF SettleInterrupted, Settling, Runtimes
<1>8. CASE SettleSucceeded(t)
  BY <1>8 DEF SettleSucceeded, Settling, Runtimes
<1>9. CASE ChargeFailure(t)
  BY <1>9 DEF ChargeFailure, Runtimes
<1>10. CASE AfterTurn(t)
  BY <1>10 DEF AfterTurn
<1>11. CASE StopAtLimit(t)
  BY <1>11 DEF StopAtLimit, Runtimes
<1>12. CASE StopAtBudget(t)
  BY <1>12 DEF StopAtBudget
<1>13. CASE CompactStart(t)
  BY <1>13 DEF CompactStart, Runtimes
<1>14. CASE Compact(t)
  BY <1>14 DEF Compact
<1>15. CASE CompactEnd(t)
  BY <1>15 DEF CompactEnd, Runtimes
<1>16. CASE ContinueGoal(t)
  BY <1>16 DEF ContinueGoal
<1>17. CASE StartTurn(t)
  BY <1>17 DEF StartTurn, FreeOp
<1> QED
  BY <1>1, <1>2, <1>3, <1>4, <1>5, <1>6, <1>7, <1>8, <1>9, <1>10, <1>11, <1>12,
     <1>13, <1>14, <1>15, <1>16, <1>17, <1>2a DEF ThreadStep

LEMMA SweepEffect == TypeOK /\ LedgerInv /\ (ReceiveEvent \/ SweepStep) => Effect
<1> SUFFICES ASSUME TypeOK, LedgerInv, ReceiveEvent \/ SweepStep PROVE Effect
  OBVIOUS
<1>0. rt \in Runtimes
  BY DEF TypeOK
<1> USE <1>0, GenKept DEF SameGen, SameSession, Neutral, Silent, Effect
<1>1. CASE ReceiveEvent
  BY <1>1 DEF ReceiveEvent
<1>2. CASE SweepStart
  BY <1>2 DEF SweepStart
<1>3. CASE ClearLeak
  BY <1>3 DEF ClearLeak
<1>4. CASE Account
  BY <1>4 DEF Account, accountTailUsage
<1>5. CASE HaltSpend
  BY <1>5, AbortEnds DEF HaltSpend, Ended
<1>6. CASE LimitSpend
  <2>1. rt' = rt \/ rt' = Released(rt)
    BY <1>6 DEF LimitSpend
  <2> QED
    BY <1>6, <2>1 DEF LimitSpend
<1>7. CASE Choose
  BY <1>7 DEF Choose
<1>8. CASE RetryReady
  BY <1>8 DEF RetryReady, Runtimes
<1>9. CASE WatchStuck
  BY <1>9 DEF WatchStuck
<1> QED
  BY <1>1, <1>2, <1>3, <1>4, <1>5, <1>6, <1>7, <1>8, <1>9 DEF SweepStep

LEMMA ToolEffect ==
    TypeOK /\ LedgerInv /\ (ToolStep \/ \E call \in WorkerCalls : ToolBegin(call)) => Effect
<1> SUFFICES ASSUME TypeOK, LedgerInv, ToolStep \/ \E call \in WorkerCalls : ToolBegin(call)
             PROVE  Effect
  OBVIOUS
<1>0. rt \in Runtimes /\ tool \in ToolCalls /\ Released(rt) \in Runtimes
  BY ReleasedType DEF TypeOK
<1> USE <1>0, GenKept DEF SameGen, SameSession, Neutral, Silent, Effect
<1>1. CASE \E call \in WorkerCalls : ToolBegin(call)
  BY <1>1 DEF ToolBegin
<1>2. CASE ChecksStart
  BY <1>2 DEF ChecksStart
<1>3. CASE ChecksEnd
  BY <1>3 DEF ChecksEnd
<1>4. CASE RejectCompletion
  <2>1. rt'.gen = rt.gen
    BY <1>4 DEF RejectCompletion, Runtimes
  <2> QED
    BY <1>4, <2>1 DEF RejectCompletion
<1>5. CASE PersistTool
  <2>1. tool.snap \in Runtimes /\ tool.call \in {"complete", "block", "progress", "notify"}
    BY <1>5 DEF PersistTool, ToolCalls, NoTool
  <2>2. Outcome(tool.call, tool.snap).rt.gen = tool.snap.gen
    BY <2>1 DEF Outcome, complete_goal, block_goal, report_goal_progress, notify_owner, Runtimes
  <2>3. rt'.gen = rt.gen
    BY <1>5, <2>2 DEF PersistTool
  <2> QED
    BY <1>5, <2>3 DEF PersistTool
<1> QED
  BY <1>1, <1>2, <1>3, <1>4, <1>5 DEF ToolStep

LEMMA EnvironmentEffect == TypeOK /\ LedgerInv /\ Environment => Effect
<1> SUFFICES ASSUME TypeOK, LedgerInv, Environment PROVE Effect
  OBVIOUS
<1>0. rt \in Runtimes /\ host \in Sessions
  BY DEF TypeOK
<1> USE <1>0 DEF SameGen, SameSession, Neutral, Effect
<1>1. ASSUME NEW r \in host.inbox, TurnStarts(r) PROVE Effect
  BY <1>1 DEF TurnStarts, Sessions, Started
<1>2. ASSUME NEW o \in Outcomes, TurnEnds(o) PROVE Effect
  BY <1>2 DEF TurnEnds, Sessions, Ended
<1>3. CASE ProviderRetries
  BY <1>3 DEF ProviderRetries, Sessions, Silent
<1>3a. CASE ToolLoop
  <2>1. ~ExactProbes
    BY <1>3a DEF ToolLoop, Fault, ExactProbes, LedgerInv, QuietInv
  <2> QED
    BY <1>3a, <2>1 DEF ToolLoop, Sessions, Looped
<1>4. CASE SessionStopped
  BY <1>4 DEF SessionStopped, Sessions, Ended
<1>5. CASE ForeignPrompt
  BY <1>5 DEF ForeignPrompt, Sessions, Silent
<1>6. ASSUME NEW r \in wire, LateArrival(r) PROVE Effect
  BY <1>6 DEF LateArrival, Sessions, Arrived
<1>7. CASE LeaseExpires
  BY <1>7 DEF LeaseExpires, Runtimes, Silent
<1>8. CASE Restart
  <2>1. PICK outcome \in {"interrupted", "missing"}, kept \in Kept :
          host' = IF host.work = None THEN [host EXCEPT !.inbox = kept]
                  ELSE [host EXCEPT !.inbox = kept, !.work = None,
                                    !.outcome = outcome, !.retrying = FALSE]
    BY <1>8 DEF Restart
  <2>2. kept \in {host.inbox, {}}
    BY DEF Kept
  <2>3. host'.work = None /\ host'.inbox \in {host.inbox, {}}
        /\ host'.delivered = host.delivered /\ host'.calls = host.calls
    BY <2>1, <2>2 DEF Sessions
  <2> QED
    BY <1>8, <2>3 DEF Restart, FreeOp, Ended
<1> QED
  BY <1>1, <1>2, <1>3, <1>4, <1>5, <1>6, <1>7, <1>8, <1>3a DEF Environment

LEMMA NextEffect == TypeOK /\ LedgerInv /\ [Next]_vars => Effect
<1> SUFFICES ASSUME TypeOK, LedgerInv, [Next]_vars PROVE Effect
  OBVIOUS
<1>1. CASE UNCHANGED vars
  BY <1>1 DEF vars, Effect, Silent, SameGen, SameSession, Neutral
<1>2. CASE Next
  BY <1>2, TurnEffect, OwnerEffect, ThreadEffect, SweepEffect, ToolEffect,
     EnvironmentEffect DEF Next
<1> QED
  BY <1>1, <1>2

LEMMA InitLedger == Init => LedgerInv /\ Ledger!Init
BY DEF Init, NewRuntime, FreeOp, LedgerInv, SentInv, QuietInv, Sent, Session, HasLooked,
   OneTurnAtATime, Ledger!Init, None

LEMMA InvAlways == Spec => [](TypeOK /\ LedgerInv)
<1>1. Init => TypeOK /\ LedgerInv
  BY InitTyped, InitLedger
<1>2. (TypeOK /\ LedgerInv) /\ [Next]_vars => (TypeOK /\ LedgerInv)'
  BY NextTyped, NextEffect, EffectKeepsInv
<1> QED
  BY <1>1, <1>2, PTL DEF Spec

\* The worker session never holds two prompts, prompts of timed-out dispatches
\* excepted, for any number of turns, owner calls, faults and restarts, as long
\* as the host does not call a session idle that is between two tool calls.
THEOREM OneTurn ==
    ASSUME ExactProbes
    PROVE  Spec => []OneTurnAtATime
<1>1. LedgerInv => OneTurnAtATime
  BY DEF LedgerInv, QuietInv
<1> QED
  BY <1>1, InvAlways, PTL

\* With the same host the goal implements TurnLedger: every step is a step of
\* the ledger or none.
THEOREM ImplementsLedger ==
    ASSUME ExactProbes
    PROVE  Spec => LedgerSpec
<1>1. Init => Ledger!Init
  BY InitLedger
<1>2. TypeOK /\ LedgerInv /\ [Next]_vars => [Ledger!Next]_(Ledger!vars)
  BY NextEffect, EffectIsLedgerStep
<1> QED
  BY <1>1, <1>2, InvAlways, PTL DEF Spec, LedgerSpec, Ledger!Spec

-----------------------------------------------------------------------------
(* The status: only Clear clears a goal, and nothing follows.               *)

\* A goal operation past its guard works on a goal that is not cleared: Clear
\* itself waits until no operation runs.
ClearInv == op.at \notin {"free", "abort", "guard"} => goal.status # "cleared"

Moves ==
    \/ goal'.status = goal.status
    \/ goal.status # "cleared" /\ goal'.status \notin {"active", "cleared"}

StatusEffect == ClearInv' /\ (Moves \/ Resume \/ Retry \/ Clear)

LEMMA TurnStatus == TypeOK /\ ClearInv /\ (TurnStep) => StatusEffect
<1> SUFFICES ASSUME TypeOK, ClearInv, TurnStep PROVE StatusEffect
  OBVIOUS
<1>0. goal \in Goals /\ op \in Operations
  BY DEF TypeOK
<1> USE <1>0 DEF StatusEffect, ClearInv, Moves, Goals, Operations, SetStatus, StepOp,
   EndOp, FreeOp, Begin
<1>1. CASE CreateWorker
  BY <1>1 DEF CreateWorker
<1>2. CASE AssignWorker
  BY <1>2 DEF AssignWorker
<1>3. CASE ReadGuard
  BY <1>3 DEF ReadGuard, MayContinue
<1>4. CASE ProbeIdle
  BY <1>4 DEF ProbeIdle
<1>5. CASE AcquireTurn
  BY <1>5 DEF AcquireTurn, MayContinue
<1>6. CASE PrepareFails
  BY <1>6 DEF PrepareFails
<1>7. CASE DispatchIntent
  BY <1>7 DEF DispatchIntent, MayContinue
<1>8. CASE SendPrompt
  BY <1>8 DEF SendPrompt
<1>9. CASE VerifyLate
  BY <1>9 DEF VerifyLate
<1>10. CASE AcceptDispatch
  BY <1>10 DEF AcceptDispatch
<1>11. CASE RecordFailure
  BY <1>11 DEF RecordFailure
<1> QED
  BY <1>1, <1>2, <1>3, <1>4, <1>5, <1>6, <1>7, <1>8, <1>9, <1>10, <1>11 DEF TurnStep

LEMMA OwnerStatus == TypeOK /\ ClearInv /\ (OwnerStep \/ OwnerOpStep) => StatusEffect
<1> SUFFICES ASSUME TypeOK, ClearInv, OwnerStep \/ OwnerOpStep PROVE StatusEffect
  OBVIOUS
<1>0. goal \in Goals /\ op \in Operations
  BY DEF TypeOK
<1> USE <1>0 DEF StatusEffect, ClearInv, Moves, Goals, Operations, SetStatus, StepOp,
   EndOp, FreeOp, Begin
<1>1. CASE PauseBegin
  BY <1>1 DEF PauseBegin
<1>2. CASE Resume
  BY <1>2 DEF Resume
<1>3. CASE Retry
  BY <1>3 DEF Retry
<1>4. CASE NudgeBegin
  BY <1>4 DEF NudgeBegin, MayContinue
<1>5. CASE SetInteractive
  BY <1>5 DEF SetInteractive
<1>6. CASE Clear
  BY <1>6 DEF Clear
<1>7. ASSUME NEW call, NEW status \in {"complete", "blocked"}, ForceStatus(call, status)
      PROVE  StatusEffect
  BY <1>7 DEF ForceStatus
<1>8. CASE PauseCommit
  BY <1>8 DEF PauseCommit
<1>9. CASE AbortWorker
  BY <1>9 DEF AbortWorker
<1>10. CASE NudgeReset
  BY <1>10 DEF NudgeReset, MayContinue
<1>11. CASE HaltBegin
  BY <1>11 DEF HaltBegin
<1>12. CASE HaltWorker
  BY <1>12 DEF HaltWorker
<1>13. CASE HaltRelease
  BY <1>13 DEF HaltRelease
<1> QED
  BY <1>1, <1>2, <1>3, <1>4, <1>5, <1>6, <1>7, <1>8, <1>9, <1>10, <1>11, <1>12, <1>13
  DEF OwnerStep, OwnerOpStep

LEMMA ThreadStatus ==
    ASSUME NEW t \in Threads
    PROVE  TypeOK /\ ClearInv /\ ThreadStep(t) => StatusEffect
<1> SUFFICES ASSUME TypeOK, ClearInv, ThreadStep(t) PROVE StatusEffect
  OBVIOUS
<1>0. goal \in Goals /\ op \in Operations
  BY DEF TypeOK
<1> USE <1>0 DEF StatusEffect, ClearInv, Moves, Goals, Operations, SetStatus, StepOp,
   EndOp, FreeOp, Begin
<1>1. CASE ReadRun(t)
  BY <1>1 DEF ReadRun
<1>2. CASE ReadExecution(t)
  BY <1>2 DEF ReadExecution
<1>2a. CASE InspectTurn(t)
  BY <1>2a DEF InspectTurn
<1>3. CASE SettleStale(t)
  BY <1>3 DEF SettleStale, Settling, SameTurn
<1>4. CASE SettleRetry(t)
  BY <1>4 DEF SettleRetry, Settling, SameTurn
<1>5. CASE SettleBlocked(t)
  BY <1>5 DEF SettleBlocked, Settling, SameTurn
<1>6. CASE SettleFailed(t)
  BY <1>6 DEF SettleFailed, Settling, SameTurn
<1>7. CASE SettleInterrupted(t)
  BY <1>7 DEF SettleInterrupted, Settling, SameTurn
<1>8. CASE SettleSucceeded(t)
  BY <1>8 DEF SettleSucceeded, Settling, SameTurn
<1>9. CASE ChargeFailure(t)
  BY <1>9 DEF ChargeFailure, SameTurn
<1>10. CASE AfterTurn(t)
  BY <1>10 DEF AfterTurn
<1>11. CASE StopAtLimit(t)
  BY <1>11 DEF StopAtLimit
<1>12. CASE StopAtBudget(t)
  BY <1>12 DEF StopAtBudget
<1>13. CASE CompactStart(t)
  BY <1>13 DEF CompactStart
<1>14. CASE Compact(t)
  BY <1>14 DEF Compact
<1>15. CASE CompactEnd(t)
  BY <1>15 DEF CompactEnd
<1>16. CASE ContinueGoal(t)
  BY <1>16 DEF ContinueGoal
<1>17. CASE StartTurn(t)
  BY <1>17 DEF StartTurn
<1> QED
  BY <1>1, <1>2, <1>3, <1>4, <1>5, <1>6, <1>7, <1>8, <1>9, <1>10, <1>11, <1>12, <1>13,
     <1>14, <1>15, <1>16, <1>17, <1>2a DEF ThreadStep

LEMMA SweepStatus == TypeOK /\ ClearInv /\ (ReceiveEvent \/ SweepStep) => StatusEffect
<1> SUFFICES ASSUME TypeOK, ClearInv, ReceiveEvent \/ SweepStep PROVE StatusEffect
  OBVIOUS
<1>0. goal \in Goals /\ op \in Operations
  BY DEF TypeOK
<1> USE <1>0 DEF StatusEffect, ClearInv, Moves, Goals, Operations, SetStatus, StepOp,
   EndOp, FreeOp, Begin
<1>1. CASE ReceiveEvent
  BY <1>1 DEF ReceiveEvent
<1>2. CASE SweepStart
  BY <1>2 DEF SweepStart
<1>3. CASE ClearLeak
  BY <1>3 DEF ClearLeak
<1>4. CASE Account
  BY <1>4 DEF Account, accountTailUsage
<1>5. CASE HaltSpend
  BY <1>5 DEF HaltSpend
<1>6. CASE LimitSpend
  BY <1>6 DEF LimitSpend
<1>7. CASE Choose
  BY <1>7 DEF Choose
<1>8. CASE RetryReady
  BY <1>8 DEF RetryReady
<1>9. CASE WatchStuck
  BY <1>9 DEF WatchStuck
<1> QED
  BY <1>1, <1>2, <1>3, <1>4, <1>5, <1>6, <1>7, <1>8, <1>9 DEF SweepStep

LEMMA BeginStatus ==
    ASSUME NEW call \in WorkerCalls
    PROVE  TypeOK /\ ClearInv /\ ToolBegin(call) => StatusEffect
BY DEF TypeOK, Goals, ToolBegin, StatusEffect, Moves, ClearInv

LEMMA ToolStatus == TypeOK /\ ClearInv /\ ToolStep => StatusEffect
<1> SUFFICES ASSUME TypeOK, ClearInv, ToolStep PROVE StatusEffect
  OBVIOUS
<1>0. goal \in Goals /\ op \in Operations
  BY DEF TypeOK
<1> USE <1>0 DEF StatusEffect, ClearInv, Moves, Goals
<1>1. CASE ChecksStart
  BY <1>1 DEF ChecksStart
<1>2. CASE ChecksEnd
  BY <1>2 DEF ChecksEnd
<1>3. CASE RejectCompletion
  BY <1>3 DEF RejectCompletion, SetStatus
<1>4. CASE PersistTool
  <2>1. tool.call \in {"complete", "block", "progress", "notify"} /\ op' = op
    BY <1>4 DEF PersistTool, TypeOK, ToolCalls, NoTool
  <2>2. goal' = goal \/ (/\ goal.status \in PublishOver(tool.call)
                        /\ goal'.status = Outcome(tool.call, tool.snap).status)
    BY <1>0, <1>4 DEF PersistTool, SetStatus, Goals
  <2>3. goal.status # "cleared" => goal'.status # "cleared"
    BY <2>1, <2>2 DEF PublishOver, Outcome, complete_goal, block_goal, report_goal_progress, notify_owner
  <2>4. Moves
    BY <2>1, <2>2 DEF PublishOver, Outcome, complete_goal, block_goal, report_goal_progress, notify_owner
  <2> QED
    BY <2>1, <2>3, <2>4
<1> QED
  BY <1>1, <1>2, <1>3, <1>4 DEF ToolStep

LEMMA EnvironmentStatus == TypeOK /\ ClearInv /\ (Environment) => StatusEffect
<1> SUFFICES ASSUME TypeOK, ClearInv, Environment PROVE StatusEffect
  OBVIOUS
<1>0. goal \in Goals /\ op \in Operations
  BY DEF TypeOK
<1> USE <1>0 DEF StatusEffect, ClearInv, Moves, Goals, Operations, SetStatus, StepOp,
   EndOp, FreeOp, Begin
<1>1. CASE \E r \in host.inbox : TurnStarts(r)
  BY <1>1 DEF TurnStarts
<1>2. CASE \E o \in Outcomes : TurnEnds(o)
  BY <1>2 DEF TurnEnds
<1>3. CASE ProviderRetries
  BY <1>3 DEF ProviderRetries
<1>3a. CASE ToolLoop
  BY <1>3a DEF ToolLoop
<1>4. CASE SessionStopped
  BY <1>4 DEF SessionStopped
<1>5. CASE ForeignPrompt
  BY <1>5 DEF ForeignPrompt
<1>6. CASE \E r \in wire : LateArrival(r)
  BY <1>6 DEF LateArrival
<1>7. CASE LeaseExpires
  BY <1>7 DEF LeaseExpires
<1>8. CASE Restart
  BY <1>8 DEF Restart
<1> QED
  BY <1>1, <1>2, <1>3, <1>4, <1>5, <1>6, <1>7, <1>8, <1>3a DEF Environment

LEMMA NextStatus == TypeOK /\ ClearInv /\ [Next]_vars => StatusEffect \/ UNCHANGED vars
BY TurnStatus, OwnerStatus, ThreadStatus, SweepStatus, BeginStatus, ToolStatus,
   EnvironmentStatus DEF Next

LEMMA ClearInvAlways == Spec => [](TypeOK /\ ClearInv)
<1>1. Init => TypeOK /\ ClearInv
  <2>1. Init => ClearInv
    BY DEF Init, ClearInv
  <2> QED
    BY <2>1, InitTyped
<1>2. (TypeOK /\ ClearInv) /\ [Next]_vars => (TypeOK /\ ClearInv)'
  <2>1. ClearInv /\ UNCHANGED vars => ClearInv'
    BY DEF ClearInv, vars
  <2> QED
    BY <2>1, NextTyped, NextStatus DEF StatusEffect
<1> QED
  BY <1>1, <1>2, PTL DEF Spec

\* A cleared goal is never brought back, whatever was in flight when it was
\* cleared.
THEOREM ClearFinal == Spec => ClearIsFinal
<1>1. TypeOK /\ ClearInv /\ [Next]_vars
        => [goal.status = "cleared" => goal'.status = "cleared"]_vars
  <2>1. goal.status = "cleared" => ~Resume /\ ~Retry
    BY DEF Resume, Retry
  <2>2. TypeOK /\ Clear => goal'.status = "cleared"
    BY DEF Clear, SetStatus, TypeOK, Goals
  <2> QED
    BY <2>1, <2>2, NextStatus DEF StatusEffect, Moves
<1> QED
  BY <1>1, ClearInvAlways, PTL DEF Spec, ClearIsFinal

\* A goal that stopped is active again only by its owner's resume or retry.
THEOREM StoppedUntilResumed == Spec => StoppedStaysStopped
<1>1. TypeOK /\ ClearInv /\ [Next]_vars
        => [goal.status # "active" /\ goal'.status = "active" => Resume \/ Retry]_vars
  <2>1. TypeOK /\ Clear => goal'.status = "cleared"
    BY DEF Clear, SetStatus, TypeOK, Goals
  <2> QED
    BY <2>1, NextStatus DEF StatusEffect, Moves
<1> QED
  BY <1>1, ClearInvAlways, PTL DEF Spec, StoppedStaysStopped

-----------------------------------------------------------------------------
(* What the engine has seen: a thread that is about to close a turn read a  *)
(* projection in which that turn was over, and it still is, unless the host *)
(* misled it.                                                               *)

\* A run is the turn of its generation, and nobody knows a turn of the future.
RunsAreGens ==
    /\ rt.run \in {None, rt.gen}
    /\ tool.snap.run \in {None, tool.snap.gen}
    /\ \A t \in Threads : eng[t].run \in {None, eng[t].gen} /\ eng[t].gen <= rt.gen

LatestDelivered == host.latest \in host.delivered \cup {None}

Deciding(t) == eng[t].at \in {"inspect", "settle", "fail"}
Certain(t) == eng[t].saw \in Outcomes /\ eng[t].run # None

\* The thread holds a verdict, and the host did not mislead it.
Right(t) == Certain(t) /\ ~eng[t].misled

\* A dispatch of the turn itself is impossible, it has been delivered; so as long
\* as no other turn is opened the session stays quiet.
Over(t) ==
    /\ eng[t].run \in host.delivered /\ eng[t].run \notin Session
    /\ ExactProbes /\ eng[t].gen = rt.gen => Session \subseteq wire

SeenOver(t) ==
    /\ Deciding(t) /\ Right(t) => Over(t)
    /\ eng[t].at = "fail" => Certain(t)
    /\ ExactProbes /\ Deciding(t) => ~eng[t].misled

SeenInv == RunsAreGens /\ LatestDelivered /\ \A t \in Threads : SeenOver(t)

\* What a step may do to a thread: it decides nothing, it learns no verdict, or it
\* has just looked.
Still(t) == eng'[t].at \notin {"inspect", "settle", "fail"}
Holds(t) ==
    /\ Deciding(t)
    /\ eng'[t].gen = eng[t].gen /\ eng'[t].run = eng[t].run
    /\ eng'[t].saw \in Outcomes => eng'[t].saw = eng[t].saw /\ eng'[t].misled = eng[t].misled
    /\ eng'[t].misled => eng[t].misled
    /\ eng'[t].at = "fail" => Certain(t) /\ eng'[t].saw = eng[t].saw
Looks(t) ==
    /\ eng'[t].at \in {"inspect", "settle"} /\ SameGen /\ SameSession
    /\ eng'[t].saw \in Outcomes /\ eng'[t].run # None /\ ~eng'[t].misled
          => eng'[t].run \in host.delivered /\ Session = {}
    /\ ExactProbes => ~eng'[t].misled
Goes(t) ==
    /\ eng'[t].run \in {None, eng'[t].gen} /\ eng'[t].gen <= rt.gen
    /\ Still(t) \/ Holds(t) \/ Looks(t)

SeenEffect ==
    /\ rt'.run \in {None, rt'.gen}
    /\ tool'.snap.run \in {None, tool'.snap.gen}
    /\ LatestDelivered'
    /\ \A u \in Threads : Goes(u)

LEMMA SeenKept ==
    TypeOK /\ TypeOK' /\ LedgerInv /\ LedgerInv' /\ SeenInv /\ Effect /\ SeenEffect => SeenInv'
<1> SUFFICES ASSUME TypeOK, TypeOK', LedgerInv, LedgerInv', SeenInv, Effect, SeenEffect
             PROVE  SeenInv'
  OBVIOUS
<1>0. /\ rt.gen \in Nat /\ rt'.gen \in Nat
      /\ host.inbox \subseteq Nat /\ host.work \in Nat /\ host.delivered \subseteq Nat
      /\ wire \subseteq Nat /\ None = 0
      /\ \A t \in Threads : eng[t].gen \in Nat /\ eng'[t].gen \in Nat /\ eng'[t].run \in Nat
  BY DEF TypeOK, Runtimes, Sessions, None, EngineThreads
<1>1. rt'.gen \in {rt.gen, rt.gen + 1}
  BY DEF Effect, Silent, Looked, Advanced, Opened, Dispatched, Arrived, Started, Ended, Looped,
     SameGen
<1>2. RunsAreGens'
  BY <1>0, <1>1 DEF RunsAreGens, SeenEffect, Goes
<1>3. ASSUME NEW t \in Threads PROVE SeenOver(t)'
  <2>1. Goes(t) /\ SeenOver(t) /\ eng[t].run \in {None, eng[t].gen} /\ eng[t].gen <= rt.gen
    BY DEF SeenEffect, SeenInv, RunsAreGens
  <2>2. CASE Still(t)
    BY <2>2 DEF Still, SeenOver, Deciding
  <2>3. CASE Holds(t)
    <3>1. eng'[t].at = "fail" => Certain(t)'
      BY <2>3 DEF Certain, Holds
    <3>2. ASSUME Right(t) PROVE Over(t)'
      <4>0. Over(t) /\ eng[t].run # None /\ eng[t].run = eng[t].gen
        BY <2>1, <2>3, <3>2 DEF SeenOver, Right, Certain, Holds
      <4>00. UNCHANGED <<eng[t].gen, eng[t].run>>
        BY <2>3 DEF Holds
      <4> USE <1>0, <2>1, <4>0, <4>00 DEF Over, Session
      <4>1. CASE Silent \/ Looked \/ Advanced
        BY <4>1 DEF Silent, Looked, Advanced, SameGen, SameSession
      <4>2. CASE Opened
        BY <4>2 DEF Opened, SameSession
      <4>3. CASE Dispatched
        <5>1. op.run = rt.gen /\ rt.gen \notin host.delivered
          BY <4>3 DEF Dispatched, LedgerInv, SentInv, Sent
        <5> QED
          BY <4>3, <5>1 DEF Dispatched, SameGen
      <4>4. CASE Arrived
        BY <4>4 DEF Arrived, SameGen
      <4>5. CASE Started
        BY <4>5 DEF Started, SameGen
      <4>6. CASE Ended
        BY <4>6 DEF Ended, SameGen
      <4>7. CASE Looped
        BY <4>7 DEF Looped, SameGen
      <4> QED
        BY <4>1, <4>2, <4>3, <4>4, <4>5, <4>6, <4>7 DEF Effect
    <3>3. Right(t)' => Right(t)
      BY <2>3 DEF Right, Certain, Holds
    <3>4. ExactProbes => ~eng'[t].misled
      BY <2>1, <2>3 DEF SeenOver, Holds
    <3> QED
      BY <3>1, <3>2, <3>3, <3>4 DEF SeenOver, ExactProbes
  <2>4. CASE Looks(t)
    BY <2>4 DEF Looks, SeenOver, Right, Certain, Over, Session, SameGen, SameSession, Deciding,
       ExactProbes
  <2> QED
    BY <2>1, <2>2, <2>3, <2>4 DEF Goes
<1> QED
  BY <1>2, <1>3 DEF SeenInv, SeenEffect

\* How the operators that move a thread move it.
LEMMA AllStay == TypeOK /\ SeenInv /\ eng' = eng => \A u \in Threads : Goes(u)
BY DEF SeenInv, RunsAreGens, SeenOver, Goes, Still, Holds, Deciding

LEMMA OneMoves ==
    ASSUME TypeOK, SeenInv, NEW t \in Threads, NEW x,
           eng' = [eng EXCEPT ![t] = x], x.at \notin {"inspect", "settle", "fail"},
           x.run \in {None, x.gen}, x.gen <= rt.gen
    PROVE  \A u \in Threads : Goes(u)
<1> SUFFICES ASSUME NEW u \in Threads PROVE Goes(u)
  OBVIOUS
<1>1. CASE u = t
  <2>1. eng'[u] = x
    BY <1>1 DEF TypeOK
  <2> QED
    BY <2>1 DEF Goes, Still
<1>2. CASE u # t
  <2>1. eng'[u] = eng[u]
    BY <1>2 DEF TypeOK
  <2> QED
    BY <2>1 DEF SeenInv, RunsAreGens, SeenOver, Goes, Still, Holds, Deciding
<1> QED
  BY <1>1, <1>2

LEMMA IdleGoes ==
    ASSUME TypeOK, SeenInv, NEW t \in Threads, EndThread(t)
    PROVE  \A u \in Threads : Goes(u)
<1>1. rt.gen \in Nat
  BY DEF TypeOK, Runtimes
<1> DEFINE x == IdleThread
<1>2. x.at \notin {"inspect", "settle", "fail"} /\ x.run \in {None, x.gen} /\ x.gen <= rt.gen
  BY <1>1 DEF IdleThread, None
<1>3. eng' = [eng EXCEPT ![t] = x]
  BY DEF EndThread
<1> HIDE DEF x
<1> QED
  BY <1>2, <1>3, OneMoves

LEMMA OpGoes == TypeOK /\ SeenInv /\ EndOp => \A u \in Threads : Goes(u)
<1> SUFFICES ASSUME TypeOK, SeenInv, EndOp PROVE \A u \in Threads : Goes(u)
  OBVIOUS
<1>1. CASE op.by \in Threads
  BY <1>1, IdleGoes DEF EndOp, EndThread
<1>2. CASE op.by \notin Threads
  BY <1>2, AllStay DEF EndOp
<1> QED
  BY <1>1, <1>2

LEMMA StepGoes ==
    ASSUME TypeOK, SeenInv, NEW t \in Threads, NEW l, StepThread(t, l), l \notin {"inspect", "settle", "fail"}
    PROVE  \A u \in Threads : Goes(u)
<1> DEFINE x == [eng[t] EXCEPT !.at = l]
<1>1. eng' = [eng EXCEPT ![t] = x]
  BY DEF StepThread
<1>2. x.at = l /\ x.run = eng[t].run /\ x.gen = eng[t].gen
  BY DEF TypeOK, EngineThreads
<1> HIDE DEF x
<1> QED
  BY <1>1, <1>2, OneMoves DEF SeenInv, RunsAreGens

LEMMA ProceedGoes ==
    ASSUME TypeOK, SeenInv, NEW t \in Threads, NEW l, NEW b, Proceed(t, l, b),
           l \notin {"inspect", "settle", "fail"}
    PROVE  \A u \in Threads : Goes(u)
<1>0. rt.gen \in Nat
  BY DEF TypeOK, Runtimes
<1> DEFINE x == [IdleThread EXCEPT !.at = l, !.final = b]
<1>1. eng' = [eng EXCEPT ![t] = x]
  BY DEF Proceed
<1>2. x.at = l /\ x.run = None /\ x.gen = 0
  BY DEF IdleThread
<1> HIDE DEF x
<1>3. x.at \notin {"inspect", "settle", "fail"} /\ x.run \in {None, x.gen} /\ x.gen <= rt.gen
  BY <1>0, <1>2
<1> QED
  BY <1>1, <1>3, OneMoves

LEMMA FailGoes ==
    ASSUME TypeOK, SeenInv, NEW t \in Threads, StepThread(t, "fail"), Deciding(t), Certain(t)
    PROVE  \A u \in Threads : Goes(u)
<1> SUFFICES ASSUME NEW u \in Threads PROVE Goes(u)
  OBVIOUS
<1>1. CASE u = t
  <2>1. eng'[u].gen = eng[u].gen /\ eng'[u].run = eng[u].run /\ eng'[u].saw = eng[u].saw
        /\ eng'[u].misled = eng[u].misled
    BY <1>1 DEF StepThread, TypeOK, EngineThreads
  <2> QED
    BY <1>1, <2>1 DEF Goes, Holds, SeenInv, RunsAreGens
<1>2. CASE u # t
  <2>1. eng'[u] = eng[u]
    BY <1>2 DEF StepThread, TypeOK
  <2> QED
    BY <2>1 DEF SeenInv, RunsAreGens, SeenOver, Goes, Still, Holds, Deciding
<1> QED
  BY <1>1, <1>2

LEMMA RunsKept ==
    ASSUME NEW r \in Runtimes
    PROVE  /\ Released(r).run = None /\ Released(r).gen = r.gen
           /\ Acquired(r).run = Acquired(r).gen /\ Counted(r).run = r.run /\ Counted(r).gen = r.gen
BY DEF Released, Counted, Acquired, Runtimes, None

\* How the transactions that release or charge a turn leave its run.
LEMMA RunsReleased ==
    ASSUME NEW r \in Runtimes
    PROVE  /\ \A n, p : LET s == [Released(r) EXCEPT !.fails = n, !.phase = p]
                        IN  s.run = None /\ s.gen = r.gen
           /\ \A b, c : LET s == [Released(r) EXCEPT !.retrying = b, !.stuck = c]
                        IN  s.run = None /\ s.gen = r.gen
           /\ \A b, c : LET s == [r EXCEPT !.retrying = b, !.stuck = c]
                        IN  s.run = r.run /\ s.gen = r.gen
           /\ \A n : LET s == [r EXCEPT !.fails = n, !.stuck = FALSE]
                     IN  s.run = r.run /\ s.gen = r.gen
BY ReleasedType, RunsKept DEF Runtimes

LEMMA AbortLatest ==
    ASSUME TypeOK, Abort
    PROVE  host'.latest = host.latest /\ host'.delivered = host.delivered
<1>1. PICK kept \in Kept :
        host' = IF host.work = None THEN [host EXCEPT !.inbox = kept]
                ELSE [host EXCEPT !.inbox = kept, !.work = None,
                                  !.outcome = "interrupted", !.retrying = FALSE]
  BY Zenon DEF Abort
<1>2. host \in Sessions
  BY DEF TypeOK
<1> QED
  BY <1>1, <1>2 DEF Sessions

LEMMA TurnSeen == TypeOK /\ SeenInv /\ TurnStep => SeenEffect
<1> SUFFICES ASSUME TypeOK, SeenInv, TurnStep PROVE SeenEffect
  OBVIOUS
<1>0. /\ rt \in Runtimes /\ rt.run \in {None, rt.gen} /\ tool.snap.run \in {None, tool.snap.gen}
      /\ LatestDelivered /\ None = 0
  BY DEF TypeOK, SeenInv, RunsAreGens, None
<1> USE <1>0 DEF SeenEffect, LatestDelivered
<1>1. CASE CreateWorker
  <2>1. rt'.run \in {None, rt'.gen}
    BY <1>1, RunsKept, RunsReleased DEF CreateWorker, Runtimes
  <2>2. \A u \in Threads : Goes(u)
    BY <1>1, AllStay, OpGoes DEF CreateWorker
  <2> QED
    BY <1>1, <2>1, <2>2 DEF CreateWorker
<1>2. CASE AssignWorker
  <2>1. rt'.run = Acquired(rt).run /\ rt'.gen = Acquired(rt).gen
    BY <1>2, AcquiredType DEF AssignWorker, Runtimes
  <2> QED
    BY <1>2, <2>1, RunsKept, AllStay DEF AssignWorker
<1>3. CASE ReadGuard
  BY <1>3, AllStay, OpGoes DEF ReadGuard
<1>4. CASE ProbeIdle
  BY <1>4, AllStay, OpGoes DEF ProbeIdle
<1>5. CASE AcquireTurn
  <2>1. CASE rt' = Counted(Acquired(rt)) /\ UNCHANGED eng
    <3>1. rt'.run = rt'.gen
      BY <2>1, RunsKept, AcquiredType
    <3> QED
      BY <1>5, <2>1, <3>1, AllStay DEF AcquireTurn
  <2>2. CASE EndOp /\ UNCHANGED rt
    BY <1>5, <2>2, OpGoes DEF AcquireTurn
  <2> QED
    BY <1>5, <2>1, <2>2 DEF AcquireTurn
<1>6. CASE PrepareFails
  BY <1>6, AllStay DEF PrepareFails
<1>7. CASE DispatchIntent
  BY <1>7, AllStay, OpGoes, RunsKept DEF DispatchIntent
<1>8. CASE SendPrompt
  <2>1. host'.latest = host.latest /\ host'.delivered = host.delivered
    BY <1>8 DEF SendPrompt, TypeOK, Sessions
  <2> QED
    BY <1>8, <2>1, AllStay DEF SendPrompt
<1>9. CASE VerifyLate
  BY <1>9, AllStay DEF VerifyLate
<1>10. CASE AcceptDispatch
  <2>1. rt'.run \in {None, rt'.gen}
    BY <1>10, RunsKept, RunsReleased DEF AcceptDispatch, Runtimes
  <2>2. \A u \in Threads : Goes(u)
    BY <1>10, AllStay, OpGoes DEF AcceptDispatch
  <2> QED
    BY <1>10, <2>1, <2>2 DEF AcceptDispatch
<1>11. CASE RecordFailure
  <2>1. rt'.run \in {None, rt'.gen}
    <3>1. CASE rt.run # op.run
      BY <1>11, <3>1 DEF RecordFailure
    <3>2. CASE rt.run = op.run
      <4>1. PICK n, p : rt' = [Released(rt) EXCEPT !.fails = n, !.phase = p]
        BY <1>11, <3>2, Zenon DEF RecordFailure
      <4> QED
        BY <4>1, RunsReleased
    <3> QED
      BY <3>1, <3>2
  <2>2. \A u \in Threads : Goes(u)
    BY <1>11, OpGoes DEF RecordFailure
  <2> QED
    BY <1>11, <2>1, <2>2 DEF RecordFailure
<1> QED
  BY <1>1, <1>2, <1>3, <1>4, <1>5, <1>6, <1>7, <1>8, <1>9, <1>10, <1>11 DEF TurnStep

LEMMA OwnerSeen == TypeOK /\ SeenInv /\ (OwnerStep \/ OwnerOpStep) => SeenEffect
<1> SUFFICES ASSUME TypeOK, SeenInv, OwnerStep \/ OwnerOpStep PROVE SeenEffect
  OBVIOUS
<1>0. /\ rt \in Runtimes /\ rt.run \in {None, rt.gen} /\ tool.snap.run \in {None, tool.snap.gen}
      /\ LatestDelivered /\ None = 0
  BY DEF TypeOK, SeenInv, RunsAreGens, None
<1> USE <1>0 DEF SeenEffect, LatestDelivered
<1>1. CASE PauseBegin
  BY <1>1, AllStay DEF PauseBegin
<1>2. CASE Resume
  BY <1>2, AllStay DEF Resume
<1>3. CASE Retry
  <2>1. rt'.run = None
    BY <1>3, ReleasedType, RunsKept DEF Retry, Runtimes
  <2> QED
    BY <1>3, <2>1, AllStay DEF Retry
<1>4. CASE NudgeBegin
  BY <1>4, AllStay DEF NudgeBegin
<1>5. CASE SetInteractive
  BY <1>5, AllStay DEF SetInteractive
<1>6. CASE Clear
  <2>1. rt'.run = None
    BY <1>6, InitialRecords DEF Clear, Runtimes, NewRuntime
  <2> QED
    BY <1>6, <2>1, AllStay DEF Clear
<1>7. ASSUME NEW call, NEW status, ForceStatus(call, status) PROVE SeenEffect
  BY <1>7, AllStay, RunsKept DEF ForceStatus
<1>8. CASE PauseCommit
  BY <1>8, AllStay, RunsKept DEF PauseCommit
<1>9. CASE AbortWorker
  BY <1>9, OpGoes, AbortLatest DEF AbortWorker
<1>10. CASE NudgeReset
  <2>1. CASE MayContinue
    <3>1. rt'.run = None
      BY <1>10, <2>1 DEF NudgeReset, Runtimes
    <3> QED
      BY <1>10, <2>1, <3>1, AllStay DEF NudgeReset
  <2>2. CASE ~MayContinue
    BY <1>10, <2>2, OpGoes DEF NudgeReset
  <2> QED
    BY <2>1, <2>2
<1>11. CASE HaltBegin
  BY <1>11, AllStay DEF HaltBegin
<1>12. CASE HaltWorker
  BY <1>12, AllStay, AbortLatest DEF HaltWorker
<1>13. CASE HaltRelease
  BY <1>13, OpGoes, RunsKept DEF HaltRelease
<1> QED
  BY <1>1, <1>2, <1>3, <1>4, <1>5, <1>6, <1>7, <1>8, <1>9, <1>10, <1>11, <1>12, <1>13 DEF OwnerStep, OwnerOpStep

LEMMA ThreadSeen ==
    ASSUME NEW t \in Threads
    PROVE  TypeOK /\ LedgerInv /\ SeenInv /\ ThreadStep(t) => SeenEffect
<1> SUFFICES ASSUME TypeOK, LedgerInv, SeenInv, ThreadStep(t) PROVE SeenEffect
  OBVIOUS
<1>0. /\ rt \in Runtimes /\ rt.run \in {None, rt.gen} /\ tool.snap.run \in {None, tool.snap.gen}
      /\ LatestDelivered /\ None = 0
  BY DEF TypeOK, SeenInv, RunsAreGens, None
<1> USE <1>0 DEF SeenEffect, LatestDelivered
<1>1. CASE ReadRun(t)
  <2> DEFINE x == [eng[t] EXCEPT !.at = "look", !.gen = rt.gen, !.run = rt.run]
  <2>1. eng' = [eng EXCEPT ![t] = x]
    BY <1>1 DEF ReadRun
  <2>2. x.at = "look" /\ x.run = rt.run /\ x.gen = rt.gen /\ rt.gen <= rt.gen
    BY DEF TypeOK, EngineThreads, Runtimes
  <2> HIDE DEF x
  <2>3. \A u \in Threads : Goes(u)
    BY <2>1, <2>2, OneMoves
  <2> QED
    BY <1>1, <2>3 DEF ReadRun
<1>2. CASE ReadExecution(t)
  <2>0. PICK saw \in Projections(eng[t].run) :
          eng' = [eng EXCEPT ![t].saw = saw, ![t].misled = saw \in Outcomes /\ ~HostIdle,
                             ![t].at = IF saw \in Outcomes THEN "inspect" ELSE "settle"]
    BY <1>2 DEF ReadExecution
  <2> DEFINE x == [eng[t] EXCEPT !.saw = saw, !.misled = saw \in Outcomes /\ ~HostIdle,
                                 !.at = IF saw \in Outcomes THEN "inspect" ELSE "settle"]
  <2>1. eng' = [eng EXCEPT ![t] = x] /\ SameGen /\ SameSession
    BY <1>2, <2>0 DEF ReadExecution, SameGen, SameSession
  <2>2. /\ x.at \in {"inspect", "settle"} /\ x.saw = saw /\ x.run = eng[t].run /\ x.gen = eng[t].gen
        /\ x.misled = (saw \in Outcomes /\ ~HostIdle)
    BY DEF TypeOK, EngineThreads
  <2> HIDE DEF x
  <2>3. x.saw \in Outcomes /\ x.run # None /\ ~x.misled => x.run \in host.delivered /\ Session = {}
    BY <2>2 DEF Projections, Probes, HostIdle, Outcomes, Session
  <2>5. ExactProbes => ~x.misled
    <3> SUFFICES ASSUME ExactProbes, saw \in Outcomes PROVE HostIdle
      BY <2>2
    <3>1. ~BetweenCalls
      BY DEF BetweenCalls, LedgerInv, QuietInv
    <3> QED
      BY <3>1 DEF Projections, Probes, Outcomes
  <2>4. ASSUME NEW u \in Threads PROVE Goes(u)
    <3>1. CASE u = t
      <4>1. eng'[u] = x
        BY <2>1, <3>1 DEF TypeOK
      <4> QED
        BY <2>1, <2>2, <2>3, <2>5, <3>1, <4>1 DEF Goes, Looks, SeenInv, RunsAreGens
    <3>2. CASE u # t
      <4>1. eng'[u] = eng[u]
        BY <2>1, <3>2 DEF TypeOK
      <4> QED
        BY <4>1 DEF SeenInv, RunsAreGens, SeenOver, Goes, Still, Holds, Deciding
    <3> QED
      BY <3>1, <3>2
  <2> QED
    BY <1>2, <2>4 DEF ReadExecution
<1>2a. CASE InspectTurn(t)
  <2>1. /\ eng[t].at = "inspect" /\ \A u \in Threads \ {t} : eng'[u] = eng[u]
        /\ eng'[t].at = "settle" /\ eng'[t].gen = eng[t].gen /\ eng'[t].run = eng[t].run
    BY <1>2a DEF InspectTurn, StepThread, TypeOK, EngineThreads
  <2>2. /\ eng'[t].misled => eng[t].misled
        /\ eng'[t].saw \in Outcomes => eng'[t].saw = eng[t].saw /\ eng'[t].misled = eng[t].misled
    <3>1. CASE StepThread(t, "settle")
      BY <3>1 DEF StepThread, TypeOK, EngineThreads
    <3>2. CASE eng' = [eng EXCEPT ![t].at = "settle",
                         ![t].misled = @ /\ eng[t].run \notin host.calls,
                         ![t].saw = IF eng[t].run \in host.calls THEN "incomplete" ELSE @]
      <4>1. /\ eng'[t].misled = (eng[t].misled /\ eng[t].run \notin host.calls)
            /\ eng'[t].saw = IF eng[t].run \in host.calls THEN "incomplete" ELSE eng[t].saw
        BY <3>2 DEF TypeOK, EngineThreads
      <4>2. eng[t].misled \in BOOLEAN
        BY DEF TypeOK, EngineThreads
      <4> QED
        BY <4>1, <4>2 DEF Outcomes
    <3> QED
      BY <1>2a, <3>1, <3>2 DEF InspectTurn
  <2>3. ASSUME NEW u \in Threads PROVE Goes(u)
    <3>1. CASE u = t
      BY <2>1, <2>2, <3>1 DEF Goes, Holds, Deciding, SeenInv, RunsAreGens
    <3>2. CASE u # t
      <4>1. eng'[u] = eng[u]
        BY <2>1, <3>2
      <4> QED
        BY <4>1 DEF SeenInv, RunsAreGens, SeenOver, Goes, Still, Holds, Deciding
    <3> QED
      BY <3>1, <3>2
  <2> QED
    BY <1>2a, <2>3 DEF InspectTurn
<1>3. CASE SettleStale(t)
  <2>1. \A u \in Threads : Goes(u)
    BY <1>3, IdleGoes, StepGoes DEF SettleStale, Settling, Unsettled
  <2> QED
    BY <1>3, <2>1 DEF SettleStale, Settling
<1>4. CASE SettleRetry(t)
  <2>1. rt'.run = rt.run /\ rt'.gen = rt.gen
    <3>1. \/ rt' = [rt EXCEPT !.retrying = TRUE, !.stuck = FALSE]
          \/ rt' = [rt EXCEPT !.fails = rt.fails + 1, !.stuck = FALSE]
      BY <1>4 DEF SettleRetry
    <3>2. CASE rt' = [rt EXCEPT !.retrying = TRUE, !.stuck = FALSE]
      BY <3>2 DEF Runtimes
    <3>3. CASE rt' = [rt EXCEPT !.fails = rt.fails + 1, !.stuck = FALSE]
      BY <3>3 DEF Runtimes
    <3> QED
      BY <3>1, <3>2, <3>3
  <2>2. \A u \in Threads : Goes(u)
    BY <1>4, IdleGoes, StepGoes DEF SettleRetry, Settling, Unsettled
  <2> QED
    BY <1>4, <2>1, <2>2 DEF SettleRetry, Settling
<1>5. CASE SettleBlocked(t)
  <2>1. rt'.run = rt.run /\ rt'.gen = rt.gen
    BY <1>5, RunsReleased DEF SettleBlocked
  <2>2. CASE Outputless(t) /\ StepThread(t, "fail")
    <3>1. Deciding(t) /\ Certain(t)
      BY <1>5, <2>2 DEF SettleBlocked, Settling, Deciding, Certain, Outcomes, SameTurn, Outputless
    <3> QED
      BY <1>5, <2>1, <2>2, <3>1, FailGoes DEF SettleBlocked, Settling
  <2>3. CASE Unsettled(t)
    <3>1. \A u \in Threads : Goes(u)
      BY <2>3, IdleGoes, StepGoes DEF Unsettled
    <3> QED
      BY <1>5, <2>1, <3>1 DEF SettleBlocked, Settling
  <2> QED
    BY <1>5, <2>2, <2>3 DEF SettleBlocked
<1>6. CASE SettleFailed(t)
  <2>1. rt'.run = rt.run /\ rt'.gen = rt.gen
    BY <1>6, RunsReleased DEF SettleFailed
  <2>2. Deciding(t) /\ Certain(t)
    BY <1>6 DEF SettleFailed, Settling, Deciding, Certain, Outcomes, SameTurn, Closable
  <2> QED
    BY <1>6, <2>1, <2>2, FailGoes DEF SettleFailed, Settling
<1>7. CASE SettleInterrupted(t)
  BY <1>7, RunsReleased, IdleGoes DEF SettleInterrupted, Settling
<1>8. CASE SettleSucceeded(t)
  <2>1. rt'.run = None
    BY <1>8, RunsReleased DEF SettleSucceeded
  <2>2. \A u \in Threads : Goes(u)
    BY <1>8, IdleGoes, ProceedGoes DEF SettleSucceeded
  <2> QED
    BY <1>8, <2>1, <2>2 DEF SettleSucceeded, Settling
<1>9. CASE ChargeFailure(t)
  <2>1. rt'.run \in {None, rt'.gen}
    <3>1. CASE SameTurn(t) /\ rt.phase = "running"
      <4>1. PICK n, p : rt' = [Released(rt) EXCEPT !.fails = n, !.phase = p]
        BY <1>9, <3>1, Zenon DEF ChargeFailure
      <4> QED
        BY <4>1, RunsReleased
    <3>2. CASE ~(SameTurn(t) /\ rt.phase = "running")
      BY <1>9, <3>2 DEF ChargeFailure
    <3> QED
      BY <3>1, <3>2
  <2>2. \A u \in Threads : Goes(u)
    BY <1>9, IdleGoes DEF ChargeFailure
  <2> QED
    BY <1>9, <2>1, <2>2 DEF ChargeFailure
<1>10. CASE AfterTurn(t)
  <2> DEFINE x == [eng[t] EXCEPT !.at = "compactStart", !.phase = rt.phase]
  <2>1. x.at = "compactStart" /\ x.run = eng[t].run /\ x.gen = eng[t].gen
    BY DEF TypeOK, EngineThreads
  <2>2. \/ EndThread(t) \/ Proceed(t, "gate", TRUE) \/ StepThread(t, "stop")
        \/ StepThread(t, "budget") \/ StepThread(t, "gate") \/ eng' = [eng EXCEPT ![t] = x]
    BY <1>10 DEF AfterTurn
  <2> HIDE DEF x
  <2>3. eng' = [eng EXCEPT ![t] = x] => \A u \in Threads : Goes(u)
    BY <2>1, OneMoves DEF SeenInv, RunsAreGens
  <2>4. \A u \in Threads : Goes(u)
    BY <2>2, <2>3, IdleGoes, ProceedGoes, StepGoes
  <2> QED
    BY <1>10, <2>4 DEF AfterTurn
<1>11. CASE StopAtLimit(t)
  <2>1. rt'.run \in {None, rt'.gen}
    BY <1>11, RunsKept, RunsReleased DEF StopAtLimit, Runtimes
  <2>2. \A u \in Threads : Goes(u)
    BY <1>11, IdleGoes DEF StopAtLimit
  <2> QED
    BY <1>11, <2>1, <2>2 DEF StopAtLimit
<1>12. CASE StopAtBudget(t)
  BY <1>12, IdleGoes DEF StopAtBudget
<1>13. CASE CompactStart(t)
  <2>1. rt'.run \in {None, rt'.gen}
    BY <1>13, RunsKept, RunsReleased DEF CompactStart, Runtimes
  <2>2. \A u \in Threads : Goes(u)
    BY <1>13, StepGoes DEF CompactStart
  <2> QED
    BY <1>13, <2>1, <2>2 DEF CompactStart
<1>14. CASE Compact(t)
  BY <1>14, StepGoes DEF Compact
<1>15. CASE CompactEnd(t)
  <2>1. rt'.run \in {None, rt'.gen}
    BY <1>15, RunsKept, RunsReleased DEF CompactEnd, Runtimes
  <2>2. \A u \in Threads : Goes(u)
    BY <1>15, IdleGoes DEF CompactEnd
  <2> QED
    BY <1>15, <2>1, <2>2 DEF CompactEnd
<1>16. CASE ContinueGoal(t)
  BY <1>16, IdleGoes, ProceedGoes DEF ContinueGoal
<1>17. CASE StartTurn(t)
  BY <1>17, ProceedGoes DEF StartTurn
<1> QED
  BY <1>1, <1>2, <1>3, <1>4, <1>5, <1>6, <1>7, <1>8, <1>9, <1>10, <1>11, <1>12, <1>13, <1>14, <1>15, <1>16, <1>17, <1>2a DEF ThreadStep

LEMMA SweepSeen == TypeOK /\ SeenInv /\ (ReceiveEvent \/ SweepStep) => SeenEffect
<1> SUFFICES ASSUME TypeOK, SeenInv, ReceiveEvent \/ SweepStep PROVE SeenEffect
  OBVIOUS
<1>0. /\ rt \in Runtimes /\ rt.run \in {None, rt.gen} /\ tool.snap.run \in {None, tool.snap.gen}
      /\ LatestDelivered /\ None = 0
  BY DEF TypeOK, SeenInv, RunsAreGens, None
<1>t. "event" \in Threads /\ "sweep" \in Threads
  BY DEF Threads
<1> USE <1>0 DEF SeenEffect, LatestDelivered
<1>1. CASE ReceiveEvent
  <2> DEFINE x == [eng["event"] EXCEPT !.at = "observe", !.manual = goal.manual]
  <2>1. x.at = "observe" /\ x.run = eng["event"].run /\ x.gen = eng["event"].gen
    BY <1>t DEF TypeOK, EngineThreads
  <2>2. eng' = [eng EXCEPT !["event"] = x]
    BY <1>1 DEF ReceiveEvent
  <2> HIDE DEF x
  <2>3. \A u \in Threads : Goes(u)
    BY <1>t, <2>1, <2>2, OneMoves DEF SeenInv, RunsAreGens
  <2> QED
    BY <1>1, <2>3 DEF ReceiveEvent
<1>2. CASE SweepStart
  <2> DEFINE x == [eng["sweep"] EXCEPT !.at = "account", !.phase = rt.phase, !.manual = goal.manual, !.began = rt.run]
  <2>1. x.at = "account" /\ x.run = eng["sweep"].run /\ x.gen = eng["sweep"].gen
    BY <1>t DEF TypeOK, EngineThreads
  <2>2. StepThread("sweep", "leak") \/ eng' = [eng EXCEPT !["sweep"] = x]
    BY <1>2 DEF SweepStart
  <2> HIDE DEF x
  <2>3. eng' = [eng EXCEPT !["sweep"] = x] => \A u \in Threads : Goes(u)
    BY <1>t, <2>1, OneMoves DEF SeenInv, RunsAreGens
  <2>4. \A u \in Threads : Goes(u)
    BY <1>t, <2>2, <2>3, StepGoes
  <2> QED
    BY <1>2, <2>4 DEF SweepStart
<1>3. CASE ClearLeak
  BY <1>t, <1>3, IdleGoes, RunsKept DEF ClearLeak
<1>4. CASE Account
  <2>1. \A u \in Threads : Goes(u)
    BY <1>t, <1>4, StepGoes DEF Account
  <2> QED
    BY <1>4, <2>1 DEF Account, accountTailUsage
<1>5. CASE HaltSpend
  BY <1>t, <1>5, StepGoes, AbortLatest DEF HaltSpend
<1>6. CASE LimitSpend
  <2>1. EndThread("sweep") \/ StepThread("sweep", "choose")
    BY <1>6 DEF LimitSpend
  <2>2. \A u \in Threads : Goes(u)
    BY <1>t, <2>1, IdleGoes, StepGoes
  <2>3. rt' = rt \/ rt' = Released(rt)
    BY <1>6 DEF LimitSpend
  <2> QED
    BY <1>6, <2>2, <2>3, RunsKept DEF LimitSpend
<1>7. CASE Choose
  <2>1. \/ Proceed("sweep", "retryReady", FALSE) \/ StepThread("sweep", "observe")
        \/ Proceed("sweep", "gate", FALSE) \/ EndThread("sweep")
    BY <1>7 DEF Choose
  <2>2. \A u \in Threads : Goes(u)
    BY <1>t, <2>1, IdleGoes, StepGoes, ProceedGoes
  <2> QED
    BY <1>7, <2>2 DEF Choose
<1>8. CASE RetryReady
  <2>1. rt'.run = rt.run /\ rt'.gen = rt.gen
    BY <1>8 DEF RetryReady, Runtimes
  <2> QED
    BY <1>t, <1>8, <2>1, StepGoes DEF RetryReady
<1>9. CASE WatchStuck
  BY <1>t, <1>9, IdleGoes DEF WatchStuck
<1> QED
  BY <1>1, <1>2, <1>3, <1>4, <1>5, <1>6, <1>7, <1>8, <1>9 DEF SweepStep

LEMMA ToolSeen == TypeOK /\ SeenInv /\ (ToolStep \/ \E call \in WorkerCalls : ToolBegin(call)) => SeenEffect
<1> SUFFICES ASSUME TypeOK, SeenInv, ToolStep \/ \E call \in WorkerCalls : ToolBegin(call) PROVE SeenEffect
  OBVIOUS
<1>0. /\ rt \in Runtimes /\ rt.run \in {None, rt.gen} /\ tool.snap.run \in {None, tool.snap.gen}
      /\ LatestDelivered /\ None = 0
  BY DEF TypeOK, SeenInv, RunsAreGens, None
<1> USE <1>0 DEF SeenEffect, LatestDelivered
<1>1. CASE \E call \in WorkerCalls : ToolBegin(call)
  <2>1. tool'.snap = rt
    BY <1>1 DEF ToolBegin
  <2> QED
    BY <1>1, <2>1, AllStay DEF ToolBegin
<1>2. CASE ChecksStart
  <2>1. tool' = NoTool \/ tool'.snap = tool.snap
    BY <1>2 DEF ChecksStart, TypeOK, ToolCalls, NoTool
  <2>2. NoTool.snap.run = None
    BY DEF NoTool, NewRuntime
  <2> QED
    BY <1>2, <2>1, <2>2, AllStay DEF ChecksStart
<1>3. CASE ChecksEnd
  <2>1. tool'.snap = tool.snap
    BY <1>3 DEF ChecksEnd, TypeOK, ToolCalls, NoTool
  <2> QED
    BY <1>3, <2>1, AllStay DEF ChecksEnd
<1>4. CASE RejectCompletion
  <2>1. rt'.run \in {None, rt'.gen}
    BY <1>4, RunsKept, ReleasedType DEF RejectCompletion, Runtimes
  <2>2. NoTool.snap.run = None
    BY DEF NoTool, NewRuntime
  <2> QED
    BY <1>4, <2>1, <2>2, AllStay DEF RejectCompletion
<1>5. CASE PersistTool
  <2>1. tool.snap \in Runtimes /\ tool.call \in {"complete", "block", "progress", "notify"}
    BY <1>5 DEF PersistTool, TypeOK, ToolCalls, NoTool
  <2>2. Outcome(tool.call, tool.snap).rt.run \in {None, tool.snap.gen}
        /\ Outcome(tool.call, tool.snap).rt.gen = tool.snap.gen
    BY <2>1, RunsKept DEF Outcome, complete_goal, block_goal, report_goal_progress, notify_owner, Runtimes
  <2>3. rt'.run \in {None, rt'.gen}
    BY <1>5, <2>2 DEF PersistTool
  <2>4. NoTool.snap.run = None
    BY DEF NoTool, NewRuntime
  <2> QED
    BY <1>5, <2>3, <2>4, AllStay DEF PersistTool
<1> QED
  BY <1>1, <1>2, <1>3, <1>4, <1>5 DEF ToolStep

LEMMA EnvironmentSeen == TypeOK /\ SeenInv /\ Environment => SeenEffect
<1> SUFFICES ASSUME TypeOK, SeenInv, Environment PROVE SeenEffect
  OBVIOUS
<1>0. /\ rt \in Runtimes /\ rt.run \in {None, rt.gen} /\ tool.snap.run \in {None, tool.snap.gen}
      /\ LatestDelivered /\ None = 0
  BY DEF TypeOK, SeenInv, RunsAreGens, None
<1> USE <1>0 DEF SeenEffect, LatestDelivered
<1>1. ASSUME NEW r \in host.inbox, TurnStarts(r) PROVE SeenEffect
  <2>1. host'.latest \in host'.delivered \cup {None}
    BY <1>1 DEF TurnStarts, TypeOK, Sessions
  <2> QED
    BY <1>1, <2>1, AllStay DEF TurnStarts
<1>2. ASSUME NEW o \in Outcomes, TurnEnds(o) PROVE SeenEffect
  <2>1. host'.latest \in host'.delivered \cup {None}
    BY <1>2 DEF TurnEnds, TypeOK, Sessions
  <2> QED
    BY <1>2, <2>1, AllStay DEF TurnEnds
<1>3. CASE ProviderRetries
  <2>1. host'.latest \in host'.delivered \cup {None}
    BY <1>3 DEF ProviderRetries, TypeOK, Sessions
  <2> QED
    BY <1>3, <2>1, AllStay DEF ProviderRetries
<1>3a. CASE ToolLoop
  <2>1. host'.latest \in host'.delivered \cup {None}
    BY <1>3a DEF ToolLoop, TypeOK, Sessions
  <2> QED
    BY <1>3a, <2>1, AllStay DEF ToolLoop
<1>4. CASE SessionStopped
  <2>1. host'.latest \in host'.delivered \cup {None}
    BY <1>4 DEF SessionStopped, TypeOK, Sessions
  <2> QED
    BY <1>4, <2>1, AllStay DEF SessionStopped
<1>5. CASE ForeignPrompt
  <2>1. host'.latest \in host'.delivered \cup {None}
    BY <1>5 DEF ForeignPrompt, TypeOK, Sessions
  <2> QED
    BY <1>5, <2>1, AllStay DEF ForeignPrompt
<1>6. ASSUME NEW r \in wire, LateArrival(r) PROVE SeenEffect
  <2>1. host'.latest \in host'.delivered \cup {None}
    BY <1>6 DEF LateArrival, TypeOK, Sessions
  <2> QED
    BY <1>6, <2>1, AllStay DEF LateArrival
<1>7. CASE LeaseExpires
  <2>1. rt'.run = rt.run /\ rt'.gen = rt.gen
    BY <1>7 DEF LeaseExpires, Runtimes
  <2> QED
    BY <1>7, <2>1, AllStay DEF LeaseExpires
<1>8. CASE Restart
  <2>1. host'.latest = host.latest /\ host'.delivered = host.delivered
    <3>1. PICK outcome \in {"interrupted", "missing"}, kept \in Kept :
            host' = IF host.work = None THEN [host EXCEPT !.inbox = kept]
                    ELSE [host EXCEPT !.inbox = kept, !.work = None,
                                      !.outcome = outcome, !.retrying = FALSE]
      BY <1>8, Zenon DEF Restart
    <3> QED
      BY <3>1 DEF TypeOK, Sessions
  <2>2. tool'.snap.run = None
    BY <1>8 DEF Restart, NoTool, NewRuntime
  <2>3. \A u \in Threads : eng'[u] = IdleThread
    BY <1>8 DEF Restart
  <2>4. \A u \in Threads : Goes(u)
    BY <2>3 DEF Goes, Still, IdleThread, Runtimes
  <2> QED
    BY <1>8, <2>1, <2>2, <2>4 DEF Restart
<1> QED
  BY <1>1, <1>2, <1>3, <1>4, <1>5, <1>6, <1>7, <1>8, <1>3a DEF Environment

LEMMA NextSeen == TypeOK /\ LedgerInv /\ SeenInv /\ [Next]_vars => SeenInv'
<1> SUFFICES ASSUME TypeOK, LedgerInv, SeenInv, [Next]_vars PROVE SeenInv'
  OBVIOUS
<1>1. SeenEffect
  <2>1. CASE UNCHANGED vars
    BY <2>1, AllStay DEF vars, SeenEffect, SeenInv, RunsAreGens, LatestDelivered
  <2>2. CASE Next
    BY <2>2, TurnSeen, OwnerSeen, ThreadSeen, SweepSeen, ToolSeen, EnvironmentSeen DEF Next
  <2> QED
    BY <2>1, <2>2
<1>2. TypeOK' /\ Effect
  BY NextTyped, NextEffect
<1>3. LedgerInv'
  BY <1>2, EffectKeepsInv
<1> QED
  BY <1>1, <1>2, <1>3, SeenKept

LEMMA SeenAlways == Spec => [](TypeOK /\ LedgerInv /\ SeenInv)
<1>1. Init => SeenInv
  BY DEF Init, SeenInv, RunsAreGens, LatestDelivered, SeenOver, Deciding, NewRuntime, NoTool,
     IdleThread, None
<1>2. TypeOK /\ LedgerInv /\ SeenInv /\ [Next]_vars => SeenInv'
  BY NextSeen
<1> QED
  BY <1>1, <1>2, InvAlways, PTL DEF Spec

\* The projection by which a thread closes a turn is several awaits old, and the
\* session still does not hold the turn's prompt: what came meanwhile is another
\* turn's, and the fences refuse it.  The only turns closed early are those of
\* which the host said idle between two tool calls and the transcript, unread or
\* past them by then, did not say otherwise.
THEOREM EngineClosesEnded == Spec => ClosesEndedTurns
<1>1. ASSUME TypeOK, SeenInv, NEW t \in Threads, Closes(t)
      PROVE  rt.run \notin Session \/ eng[t].misled
  <2>1. Deciding(t) /\ Certain(t) /\ eng[t].run = rt.run
    BY <1>1 DEF Closes, SettleInterrupted, SettleSucceeded, ChargeFailure, Settling, SameTurn,
       Closable, Deciding, Certain, SeenInv, SeenOver
  <2> QED
    BY <1>1, <2>1 DEF SeenInv, SeenOver, Over, Right
<1>2. TypeOK /\ SeenInv =>
        [\A t \in Threads : Closes(t) => rt.run \notin Session \/ eng[t].misled]_vars
  BY <1>1
<1> QED
  BY <1>2, SeenAlways, PTL DEF Spec, ClosesEndedTurns

-----------------------------------------------------------------------------
(* Parked goals.  Where an abort withdraws the queued prompts, a paused or  *)
(* cleared goal whose abort is over has a quiet session, and no operation   *)
(* is left that could dispatch to it.                                       *)

Parked == {"paused", "cleared"}

ParkedInv ==
    goal.status \in Parked =>
        op.at # "send" /\ (op.at # "abort" => Session \subseteq wire)

\* A step parks a goal by asking for an abort or because the turn was stopped,
\* passes the last check before a dispatch only while the goal is active, and
\* leaves the abort only with the session empty.
ParkEffect ==
    /\ goal'.status \in Parked =>
          \/ goal.status \in Parked
          \/ op'.at = "abort"
          \/ op' = op /\ op.at # "send" /\ SameSession /\ Session \subseteq wire
    /\ op'.at = "send" => op.at = "send" \/ goal'.status = "active"
    /\ op.at = "send" /\ op'.at = "send" => op' = op
    /\ op.at = "abort" => op' = op \/ Session' = {}

LEMMA ParkedKept ==
    TypeOK /\ TypeOK' /\ ParkedInv /\ Effect /\ ParkEffect => ParkedInv'
<1> SUFFICES ASSUME TypeOK, TypeOK', ParkedInv, Effect, ParkEffect, goal'.status \in Parked
             PROVE  op'.at # "send" /\ (op'.at # "abort" => Session' \subseteq wire')
  BY DEF ParkedInv
<1>0. /\ host.inbox \subseteq Nat /\ host.work \in Nat /\ wire \subseteq Nat /\ None = 0
      /\ host'.inbox \subseteq Nat /\ host'.work \in Nat
  BY DEF TypeOK, Sessions, None
<1>1. CASE op'.at = "abort"
  BY <1>1
<1>2. CASE op' = op /\ op.at # "send" /\ SameSession /\ Session \subseteq wire
  BY <1>2 DEF SameSession, Session
<1>3. CASE goal.status \in Parked /\ op'.at # "abort"
  <2>1. op.at # "send"
    BY <1>3 DEF ParkedInv
  <2>2. op'.at # "send"
    BY <2>1 DEF ParkEffect, Parked
  <2>3. CASE op.at = "abort"
    BY <1>3, <2>2, <2>3 DEF ParkEffect
  <2>4. CASE op.at # "abort"
    <3>1. Session \subseteq wire
      BY <1>3, <2>4 DEF ParkedInv
    <3>2. CASE Silent \/ Looked \/ Advanced \/ Opened
      BY <2>2, <3>1, <3>2 DEF Silent, Looked, Advanced, Opened, SameSession, Session
    <3>3. ~Dispatched
      BY <2>1 DEF Dispatched
    <3>4. CASE Arrived
      BY <1>0, <2>2, <3>1, <3>4 DEF Arrived, Session
    <3>5. CASE Started
      BY <1>0, <2>2, <3>1, <3>5 DEF Started, Session
    <3>6. CASE Ended
      BY <1>0, <2>2, <3>1, <3>6 DEF Ended, Session
    <3>7. CASE Looped
      BY <2>2, <3>1, <3>7 DEF Looped, Session
    <3> QED
      BY <2>2, <3>2, <3>3, <3>4, <3>5, <3>6, <3>7 DEF Effect
  <2> QED
    BY <2>3, <2>4
<1> QED
  BY <1>1, <1>2, <1>3 DEF ParkEffect

LEMMA AbortQuiets ==
    ASSUME TypeOK, "queueSurvives" \notin Faults, Abort
    PROVE  Session' = {}
<1>1. PICK kept \in Kept :
        host' = IF host.work = None THEN [host EXCEPT !.inbox = kept]
                ELSE [host EXCEPT !.inbox = kept, !.work = None,
                                  !.outcome = "interrupted", !.retrying = FALSE]
  BY Zenon DEF Abort
<1>2. kept = {}
  BY DEF Kept
<1>3. host'.inbox = {} /\ host'.work = None
  BY <1>1, <1>2 DEF TypeOK, Sessions
<1> QED
  BY <1>3 DEF Session

\* A turn the engine pauses for being stopped: the session is quiet, and what the
\* goal's operation would dispatch is not that turn.
LEMMA StopParks ==
    ASSUME ExactProbes, TypeOK, LedgerInv, SeenInv, NEW t \in Threads, SettleInterrupted(t)
    PROVE  ParkEffect
<1>1. Deciding(t) /\ Certain(t) /\ rt.run = eng[t].run /\ rt.gen = eng[t].gen
  BY DEF SettleInterrupted, Settling, SameTurn, Closable, Deciding, Certain
<1>2. rt.run = rt.gen /\ rt.run \in host.delivered /\ Session \subseteq wire
  BY <1>1 DEF SeenInv, SeenOver, Over, RunsAreGens, Right, Certain
<1>3. op.at # "send"
  BY <1>2 DEF LedgerInv, SentInv, Sent
<1>4. op' = op /\ SameSession
  BY DEF SettleInterrupted, Settling, SameSession
<1> QED
  BY <1>2, <1>3, <1>4 DEF ParkEffect

LEMMA TurnParks ==
    ASSUME "queueSurvives" \notin Faults, ExactProbes
    PROVE  TypeOK /\ LedgerInv /\ SeenInv /\ TurnStep => ParkEffect
<1> SUFFICES ASSUME TypeOK, LedgerInv, SeenInv, TurnStep PROVE ParkEffect
  OBVIOUS
<1>0. goal \in Goals /\ op \in Operations
  BY DEF TypeOK
<1> USE <1>0 DEF ParkEffect, Parked, Goals, Operations, SetStatus, StepOp, EndOp, FreeOp,
   Begin, SameSession
<1>1. CASE CreateWorker
  BY <1>1 DEF CreateWorker
<1>2. CASE AssignWorker
  BY <1>2 DEF AssignWorker
<1>3. CASE ReadGuard
  BY <1>3 DEF ReadGuard
<1>4. CASE ProbeIdle
  BY <1>4 DEF ProbeIdle
<1>5. CASE AcquireTurn
  <2>1. CASE EndOp
    BY <1>5, <2>1 DEF AcquireTurn
  <2>2. CASE op' = [op EXCEPT !.at = "intent", !.run = rt'.run]
    <3>1. op'.at = "intent"
      BY <2>2, Zenon DEF Operations
    <3> QED
      BY <1>5, <3>1 DEF AcquireTurn
  <2> QED
    BY <1>5, <2>1, <2>2 DEF AcquireTurn
<1>6. CASE PrepareFails
  BY <1>6 DEF PrepareFails
<1>7. CASE DispatchIntent
  BY <1>7 DEF DispatchIntent, MayContinue
<1>8. CASE SendPrompt
  BY <1>8 DEF SendPrompt
<1>9. CASE VerifyLate
  BY <1>9 DEF VerifyLate
<1>10. CASE AcceptDispatch
  BY <1>10 DEF AcceptDispatch
<1>11. CASE RecordFailure
  BY <1>11 DEF RecordFailure
<1> QED
  BY <1>1, <1>2, <1>3, <1>4, <1>5, <1>6, <1>7, <1>8, <1>9, <1>10, <1>11 DEF TurnStep

LEMMA OwnerParks ==
    ASSUME "queueSurvives" \notin Faults, ExactProbes
    PROVE  TypeOK /\ LedgerInv /\ SeenInv /\ (OwnerStep \/ OwnerOpStep) => ParkEffect
<1> SUFFICES ASSUME TypeOK, LedgerInv, SeenInv, OwnerStep \/ OwnerOpStep PROVE ParkEffect
  OBVIOUS
<1>0. goal \in Goals /\ op \in Operations
  BY DEF TypeOK
<1> USE <1>0 DEF ParkEffect, Parked, Goals, Operations, SetStatus, StepOp, EndOp, FreeOp,
   Begin, SameSession
<1>1. CASE PauseBegin
  BY <1>1 DEF PauseBegin
<1>2. CASE Resume
  BY <1>2 DEF Resume
<1>3. CASE Retry
  BY <1>3 DEF Retry
<1>4. CASE NudgeBegin
  BY <1>4 DEF NudgeBegin
<1>5. CASE SetInteractive
  BY <1>5 DEF SetInteractive
<1>6. CASE Clear
  BY <1>6 DEF Clear
<1>7. ASSUME NEW call, NEW status \in {"complete", "blocked"}, ForceStatus(call, status)
      PROVE  ParkEffect
  BY <1>7 DEF ForceStatus
<1>8. CASE PauseCommit
  BY <1>8 DEF PauseCommit
<1>9. CASE AbortWorker
  BY <1>9, AbortQuiets DEF AbortWorker
<1>10. CASE NudgeReset
  BY <1>10 DEF NudgeReset
<1>11. CASE HaltBegin
  BY <1>11 DEF HaltBegin
<1>12. CASE HaltWorker
  BY <1>12 DEF HaltWorker
<1>13. CASE HaltRelease
  BY <1>13 DEF HaltRelease
<1> QED
  BY <1>1, <1>2, <1>3, <1>4, <1>5, <1>6, <1>7, <1>8, <1>9, <1>10, <1>11, <1>12, <1>13 DEF OwnerStep, OwnerOpStep

LEMMA ThreadParks ==
    ASSUME "queueSurvives" \notin Faults, ExactProbes, NEW t \in Threads
    PROVE  TypeOK /\ LedgerInv /\ SeenInv /\ ThreadStep(t) => ParkEffect
<1> SUFFICES ASSUME TypeOK, LedgerInv, SeenInv, ThreadStep(t) PROVE ParkEffect
  OBVIOUS
<1>0. goal \in Goals /\ op \in Operations
  BY DEF TypeOK
<1> USE <1>0 DEF ParkEffect, Parked, Goals, Operations, SetStatus, StepOp, EndOp, FreeOp,
   Begin, SameSession
<1>1. CASE ReadRun(t)
  BY <1>1 DEF ReadRun
<1>2. CASE ReadExecution(t)
  BY <1>2 DEF ReadExecution
<1>2a. CASE InspectTurn(t)
  BY <1>2a DEF InspectTurn
<1>3. CASE SettleStale(t)
  BY <1>3 DEF SettleStale, Settling
<1>4. CASE SettleRetry(t)
  BY <1>4 DEF SettleRetry, Settling
<1>5. CASE SettleBlocked(t)
  BY <1>5 DEF SettleBlocked, Settling
<1>6. CASE SettleFailed(t)
  BY <1>6 DEF SettleFailed, Settling
<1>7. CASE SettleInterrupted(t)
  BY <1>7, StopParks
<1>8. CASE SettleSucceeded(t)
  BY <1>8 DEF SettleSucceeded, Settling
<1>9. CASE ChargeFailure(t)
  BY <1>9 DEF ChargeFailure
<1>10. CASE AfterTurn(t)
  BY <1>10 DEF AfterTurn
<1>11. CASE StopAtLimit(t)
  BY <1>11 DEF StopAtLimit
<1>12. CASE StopAtBudget(t)
  BY <1>12 DEF StopAtBudget
<1>13. CASE CompactStart(t)
  BY <1>13 DEF CompactStart
<1>14. CASE Compact(t)
  BY <1>14 DEF Compact
<1>15. CASE CompactEnd(t)
  BY <1>15 DEF CompactEnd
<1>16. CASE ContinueGoal(t)
  BY <1>16 DEF ContinueGoal
<1>17. CASE StartTurn(t)
  BY <1>17 DEF StartTurn
<1> QED
  BY <1>1, <1>2, <1>3, <1>4, <1>5, <1>6, <1>7, <1>8, <1>9, <1>10, <1>11, <1>12, <1>13, <1>14, <1>15, <1>16, <1>17, <1>2a DEF ThreadStep

LEMMA SweepParks ==
    ASSUME "queueSurvives" \notin Faults, ExactProbes
    PROVE  TypeOK /\ LedgerInv /\ SeenInv /\ (ReceiveEvent \/ SweepStep) => ParkEffect
<1> SUFFICES ASSUME TypeOK, LedgerInv, SeenInv, ReceiveEvent \/ SweepStep PROVE ParkEffect
  OBVIOUS
<1>0. goal \in Goals /\ op \in Operations
  BY DEF TypeOK
<1> USE <1>0 DEF ParkEffect, Parked, Goals, Operations, SetStatus, StepOp, EndOp, FreeOp,
   Begin, SameSession
<1>1. CASE ReceiveEvent
  BY <1>1 DEF ReceiveEvent
<1>2. CASE SweepStart
  BY <1>2 DEF SweepStart
<1>3. CASE ClearLeak
  BY <1>3 DEF ClearLeak
<1>4. CASE Account
  BY <1>4 DEF Account, accountTailUsage
<1>5. CASE HaltSpend
  BY <1>5 DEF HaltSpend
<1>6. CASE LimitSpend
  BY <1>6 DEF LimitSpend
<1>7. CASE Choose
  BY <1>7 DEF Choose
<1>8. CASE RetryReady
  BY <1>8 DEF RetryReady
<1>9. CASE WatchStuck
  BY <1>9 DEF WatchStuck
<1> QED
  BY <1>1, <1>2, <1>3, <1>4, <1>5, <1>6, <1>7, <1>8, <1>9 DEF SweepStep

LEMMA ToolParks ==
    ASSUME "queueSurvives" \notin Faults, ExactProbes
    PROVE  TypeOK /\ LedgerInv /\ SeenInv /\ (ToolStep \/ \E call \in WorkerCalls : ToolBegin(call)) => ParkEffect
<1> SUFFICES ASSUME TypeOK, LedgerInv, SeenInv, ToolStep \/ \E call \in WorkerCalls : ToolBegin(call) PROVE ParkEffect
  OBVIOUS
<1>0. goal \in Goals /\ op \in Operations
  BY DEF TypeOK
<1> USE <1>0 DEF ParkEffect, Parked, Goals, Operations, SetStatus, StepOp, EndOp, FreeOp,
   Begin, SameSession
<1>1. CASE \E call \in WorkerCalls : ToolBegin(call)
  BY <1>1 DEF ToolBegin
<1>2. CASE ChecksStart
  BY <1>2 DEF ChecksStart
<1>3. CASE ChecksEnd
  BY <1>3 DEF ChecksEnd
<1>4. CASE RejectCompletion
  BY <1>4 DEF RejectCompletion
<1>5. CASE PersistTool
  <2>1. tool.call \in {"complete", "block", "progress", "notify"} /\ op' = op
    BY <1>5 DEF PersistTool, TypeOK, ToolCalls, NoTool
  <2>2. goal' = goal \/ goal'.status = Outcome(tool.call, tool.snap).status
    BY <1>5 DEF PersistTool
  <2>3. goal'.status \in Parked => goal.status \in Parked
    BY <2>1, <2>2 DEF Outcome, complete_goal, block_goal, report_goal_progress, notify_owner
  <2> QED
    BY <2>1, <2>3
<1> QED
  BY <1>1, <1>2, <1>3, <1>4, <1>5 DEF ToolStep

LEMMA EnvironmentParks ==
    ASSUME "queueSurvives" \notin Faults, ExactProbes
    PROVE  TypeOK /\ LedgerInv /\ SeenInv /\ Environment => ParkEffect
<1> SUFFICES ASSUME TypeOK, LedgerInv, SeenInv, Environment PROVE ParkEffect
  OBVIOUS
<1>0. goal \in Goals /\ op \in Operations
  BY DEF TypeOK
<1> USE <1>0 DEF ParkEffect, Parked, Goals, Operations, SetStatus, StepOp, EndOp, FreeOp,
   Begin, SameSession
<1>1. CASE \E r \in host.inbox : TurnStarts(r)
  BY <1>1 DEF TurnStarts
<1>2. CASE \E o \in Outcomes : TurnEnds(o)
  BY <1>2 DEF TurnEnds
<1>3. CASE ProviderRetries
  BY <1>3 DEF ProviderRetries
<1>3a. CASE ToolLoop
  BY <1>3a DEF ToolLoop
<1>4. CASE SessionStopped
  BY <1>4 DEF SessionStopped
<1>5. CASE ForeignPrompt
  BY <1>5 DEF ForeignPrompt
<1>6. CASE \E r \in wire : LateArrival(r)
  BY <1>6 DEF LateArrival
<1>7. CASE LeaseExpires
  BY <1>7 DEF LeaseExpires
<1>8. CASE Restart
  <2>1. PICK outcome \in {"interrupted", "missing"}, kept \in Kept :
          host' = IF host.work = None THEN [host EXCEPT !.inbox = kept]
                  ELSE [host EXCEPT !.inbox = kept, !.work = None,
                                    !.outcome = outcome, !.retrying = FALSE]
    BY <1>8, Zenon DEF Restart
  <2>2. kept = {}
    BY DEF Kept
  <2>3. host'.inbox = {} /\ host'.work = None
    BY <2>1, <2>2 DEF TypeOK, Sessions
  <2>4. Session' = {}
    BY <2>3 DEF Session
  <2> QED
    BY <1>8, <2>4 DEF Restart
<1> QED
  BY <1>1, <1>2, <1>3, <1>4, <1>5, <1>6, <1>7, <1>8, <1>3a DEF Environment

LEMMA NextParks ==
    ASSUME "queueSurvives" \notin Faults, ExactProbes
    PROVE  TypeOK /\ LedgerInv /\ SeenInv /\ ParkedInv /\ [Next]_vars => ParkedInv'
<1> SUFFICES ASSUME TypeOK, LedgerInv, SeenInv, ParkedInv, [Next]_vars PROVE ParkedInv'
  OBVIOUS
<1>1. CASE UNCHANGED vars
  BY <1>1 DEF vars, ParkedInv, Session
<1>2. CASE Next
  <2>1. ParkEffect
    BY <1>2, TurnParks, OwnerParks, ThreadParks, SweepParks, ToolParks, EnvironmentParks DEF Next
  <2>2. TypeOK' /\ Effect
    BY NextTyped, NextEffect
  <2> QED
    BY <2>1, <2>2, ParkedKept
<1> QED
  BY <1>1, <1>2

\* Where an abort withdraws the prompts that wait and the host's probes are exact,
\* the worker session of a paused or cleared goal is quiet once its abort is over: no dispatch, settlement or
\* continuation that was in flight gives it another turn.
THEOREM ParkedQuiet ==
    ASSUME "queueSurvives" \notin Faults, ExactProbes
    PROVE  Spec => []ParkedIsQuiet
<1>1. Init => ParkedInv
  BY DEF Init, ParkedInv, Parked
<1>2. TypeOK /\ LedgerInv /\ SeenInv /\ ParkedInv /\ [Next]_vars => ParkedInv'
  BY NextParks
<1>3. ParkedInv => ParkedIsQuiet
  BY DEF ParkedInv, ParkedIsQuiet, Parked
<1> QED
  BY <1>1, <1>2, <1>3, SeenAlways, PTL DEF Spec
=============================================================================
