------------------------------- MODULE GoalTurn -------------------------------
(***************************************************************************)
(* One background goal on the native (OpenCode v2) path: how its turns are  *)
(* authorised, delivered to the worker session, observed and settled.       *)
(*                                                                          *)
(* Five parties change the goal's persisted record concurrently:            *)
(*   - the goal operations of application/goal-service.ts, which            *)
(*     withGoalOperation runs one at a time (start, continueTurn, pause,    *)
(*     resume, retry, nudge, setInteractive, clear);                        *)
(*   - the event handler and the maintenance sweep of                       *)
(*     application/loop-engine.ts, two threads that run beside each other   *)
(*     and beside the operations, each reading the state, awaiting the host *)
(*     and then mutating;                                                   *)
(*   - the worker's tool calls of server/goal-tools.ts;                     *)
(*   - the owner's force_complete and force_block (control-worker.ts).      *)
(* The worker session and the network are the environment.                  *)
(*                                                                          *)
(* An action is one mutateState transaction, one read of the state file or  *)
(* one answer of the host: wherever the source awaits, another party may    *)
(* act.  mutateState itself is atomic here; module StateLock is about that. *)
(*                                                                          *)
(* Abstractions.  A run identifier, its prompt message identifier and the   *)
(* run generation are minted together by acquireLease and the native path   *)
(* clears the first two together, so run r is the r-th turn opened and its  *)
(* prompt is r; 0 is no run.  The goal is unscoped, keeps its worker, and   *)
(* maxNoProgress is left out (noProgressCount is never incremented).  A     *)
(* deadline that has passed (lease, retry backoff, provider-retry grace,    *)
(* the 60 s memory of a forced stop) is a nondeterministic choice.          *)
(***************************************************************************)
EXTENDS Naturals, FiniteSets

CONSTANTS
    MaxTurns,      \* config.maxTurns
    MaxFailures,   \* config.maxFailures
    MaxRejections, \* config.maxEvaluatorRejections
    CompactEvery,  \* config.compactEvery; 0 is unset
    Budgeted,      \* whether the goal has a token or cost budget
    WorkerCalls,   \* the tools the worker may call
    OwnerCalls,    \* the calls the owner may make
    MaxOwnerCalls, \* bound: how many of them
    Faults,        \* what the environment may do besides ending turns well
    MaxFaults,     \* bound: how many of the counted faults
    MaxRuns        \* bound: turns opened

ASSUME LimitsAssumption ==
    /\ MaxTurns \in Nat \ {0}
    /\ MaxFailures \in Nat \ {0}
    /\ MaxRejections \in Nat \ {0}
    /\ CompactEvery \in Nat
    /\ MaxOwnerCalls \in Nat /\ MaxFaults \in Nat /\ MaxRuns \in Nat
ASSUME BudgetedAssumption == Budgeted \in BOOLEAN
ASSUME WorkerCallsAssumption == WorkerCalls \subseteq {"complete", "block", "progress", "notify"}

VARIABLES
    goal,     \* the goal: status, interactive, worker attached, budget spent
    rt,       \* its GoalRuntimeState
    checking, \* state.workspaceOperation: completion checks hold the workspace
    op,       \* the goal operation in progress
    eng,      \* what the engine's threads are doing
    stopped,  \* recentForceFinishBlocked: a forced stop in the last minute
    tool,     \* the worker's tool call
    host,     \* the worker session
    wire,     \* the prompts whose dispatch timed out: they may arrive late
    told,     \* reconcileStuckNotifiedRunID: the run the owner was told about
    used      \* bounds: owner calls made and faults that happened

vars == <<goal, rt, checking, op, eng, stopped, tool, host, wire, told, used>>

None == 0
Threads == {"event", "sweep"}
Statuses == {"active", "paused", "blocked", "budget_limited", "complete", "cleared"}
Phases == {"queued", "idle", "running", "waiting_retry", "compacting"}
Outcomes == {"succeeded", "failed", "interrupted", "missing"}

NewRuntime ==
    [phase |-> "queued", gen |-> 0, lease |-> FALSE, run |-> None,
     accepted |-> FALSE, forced |-> FALSE, turns |-> 0, free |-> FALSE,
     fails |-> 0, rejections |-> 0, retrying |-> FALSE, stuck |-> FALSE]

FreeOp == [at |-> "free", by |-> "none", run |-> None, final |-> FALSE, force |-> FALSE]

IdleThread == [at |-> "idle", gen |-> 0, run |-> None, began |-> None, phase |-> "idle",
               manual |-> FALSE, saw |-> "busy", misled |-> FALSE, final |-> FALSE]

NoTool == [at |-> "none", call |-> "none", snap |-> NewRuntime]

\* The state goal.create leaves: a queued goal whose worker start creates now.
Init ==
    /\ goal = [status |-> "active", manual |-> FALSE, worker |-> FALSE, spent |-> FALSE]
    /\ rt = NewRuntime
    /\ checking = FALSE
    /\ op = [FreeOp EXCEPT !.at = "create", !.by = "start"]
    /\ eng = [t \in Threads |-> IdleThread]
    /\ stopped = FALSE
    /\ tool = NoTool
    /\ host = [inbox |-> {}, work |-> None, latest |-> None, delivered |-> {}, calls |-> {},
               outcome |-> "missing", retrying |-> FALSE]
    /\ wire = {}
    /\ told = None
    /\ used = [calls |-> 0, faults |-> 0]
-----------------------------------------------------------------------------
(* domain/runtime.ts, and the guards the transactions share *)

\* acquireLease with the fresh run and prompt identifiers its callers assign.
Acquired(r) ==
    [r EXCEPT !.phase = "running", !.lease = TRUE, !.gen = @ + 1,
              !.run = r.gen + 1, !.accepted = FALSE]

\* A turn counts against maxTurns unless it retries a rejected completion.
Counted(r) ==
    IF r.free THEN [r EXCEPT !.free = FALSE] ELSE [r EXCEPT !.turns = @ + 1]

\* releaseLease, and activeRunID = undefined.
Released(r) == [r EXCEPT !.phase = "idle", !.lease = FALSE, !.run = None]

Leaks(r) == r.phase # "idle" \/ r.run # None \/ r.lease

LeaseHeld == rt.phase = "running" /\ rt.lease

\* continuationGuard
MayContinue == goal.status = "active" /\ ~checking

TurnLimit == rt.turns >= MaxTurns

BudgetReached == goal.spent

\* Nothing is queued or executing.
HostIdle == host.work = None /\ host.inbox = {}

\* "The host can report idle between tool calls": the reply of the turn it works
\* on ends, for now, with a message whose finish is "tool-calls".
BetweenCalls == host.work \in host.calls /\ host.inbox = {}

\* What a probe of the session may answer: is it idle?
Probes == IF HostIdle THEN {TRUE} ELSE IF BetweenCalls THEN BOOLEAN ELSE {FALSE}

\* host.abortSession ends the turn; a prompt still queued is withdrawn, or is
\* not if the session's queue outlives an interrupt.
Kept == {{}} \cup (IF "queueSurvives" \in Faults THEN {host.inbox} ELSE {})

\* Mutant: what is queued is not withdrawn.
AbortWorking ==
    host' = IF host.work = None THEN host
            ELSE [host EXCEPT !.work = None, !.outcome = "interrupted", !.retrying = FALSE]

Abort ==
    \E kept \in Kept :
        host' = IF host.work = None THEN [host EXCEPT !.inbox = kept]
                ELSE [host EXCEPT !.inbox = kept, !.work = None,
                                  !.outcome = "interrupted", !.retrying = FALSE]

SetStatus(s) == goal' = [goal EXCEPT !.status = s]

Fault(f) ==
    /\ f \in Faults
    /\ used.faults < MaxFaults
    /\ used' = [used EXCEPT !.faults = @ + 1]

OwnerCall(c) ==
    /\ c \in OwnerCalls
    /\ used.calls < MaxOwnerCalls
    /\ used' = [used EXCEPT !.calls = @ + 1]

\* withGoalOperation: one operation of the goal at a time.
Begin(at, force) == op' = [FreeOp EXCEPT !.at = at, !.by = "owner", !.force = force]
StepOp(at) == op' = [op EXCEPT !.at = at]
EndOp ==
    /\ op' = FreeOp
    /\ eng' = IF op.by \in Threads THEN [eng EXCEPT ![op.by] = IdleThread] ELSE eng
StepThread(t, at) == eng' = [eng EXCEPT ![t].at = at]
EndThread(t) == eng' = [eng EXCEPT ![t] = IdleThread]

\* A thread goes on without what it has read so far.
Proceed(t, at, final) ==
    eng' = [eng EXCEPT ![t] = [IdleThread EXCEPT !.at = at, !.final = final]]
-----------------------------------------------------------------------------
(* goal-service.ts: startUnlocked after goal.create *)

CreateWorker ==
    /\ op.at = "create"
    /\ \/ StepOp("assign") /\ UNCHANGED <<goal, rt, eng>>
       \/ /\ "createFails" \in Faults
          /\ SetStatus("blocked")
          /\ rt' = [rt EXCEPT !.phase = "idle"]
          /\ EndOp
    /\ UNCHANGED <<checking, stopped, tool, host, wire, told, used>>

AssignWorker ==
    /\ op.at = "assign"
    /\ goal' = [goal EXCEPT !.worker = TRUE]
    /\ rt' = [Acquired(rt) EXCEPT !.turns = 1]
    /\ op' = [op EXCEPT !.at = "intent", !.run = rt'.run]
    /\ UNCHANGED <<checking, eng, stopped, tool, host, wire, told, used>>
-----------------------------------------------------------------------------
(* goal-service.ts: continueTurnUnlocked and dispatchOrRecordFailure *)

ReadGuard ==
    /\ op.at = "guard"
    /\ IF MayContinue /\ ~LeaseHeld
          THEN StepOp(IF op.force THEN "acquire" ELSE "probe") /\ UNCHANGED eng
          ELSE EndOp
    /\ UNCHANGED <<goal, rt, checking, stopped, tool, host, wire, told, used>>

\* Mutant: a prompt that is still queued is overlooked.
ProbeWorking ==
    /\ op.at = "probe"
    /\ IF host.work = None THEN StepOp("acquire") /\ UNCHANGED eng ELSE EndOp
    /\ UNCHANGED <<goal, rt, checking, stopped, tool, host, wire, told, used>>

ProbeIdle ==
    /\ op.at = "probe"
    /\ \E idle \in Probes : IF idle THEN StepOp("acquire") /\ UNCHANGED eng ELSE EndOp
    /\ UNCHANGED <<goal, rt, checking, stopped, tool, host, wire, told, used>>

AcquireTurn ==
    /\ op.at = "acquire"
    /\ IF MayContinue /\ ~LeaseHeld
          THEN /\ rt.gen < MaxRuns
               /\ rt' = Counted(Acquired(rt))
               /\ op' = [op EXCEPT !.at = "intent", !.run = rt'.run]
               /\ UNCHANGED eng
          ELSE EndOp /\ UNCHANGED rt
    /\ UNCHANGED <<goal, checking, stopped, tool, host, wire, told, used>>

\* Reading the inbox or the history before the dispatch throws.
PrepareFails ==
    /\ op.at = "intent"
    /\ op.by # "start"
    /\ "prepareFails" \in Faults
    /\ StepOp("record")
    /\ UNCHANGED <<goal, rt, checking, eng, stopped, tool, host, wire, told, used>>

\* The turn.dispatch-intent transaction: the last check before the prompt.
DispatchIntent ==
    /\ op.at = "intent"
    /\ IF MayContinue /\ rt.run = op.run
          THEN StepOp("send") /\ UNCHANGED <<rt, eng>>
          ELSE /\ rt' = IF rt.run = op.run THEN Released(rt) ELSE rt
               /\ EndOp
    /\ UNCHANGED <<goal, checking, stopped, tool, host, wire, told, used>>

\* session.prompt accepts the prompt, refuses it, or times out: a lost race
\* does not cancel the enqueue.
SendPrompt ==
    /\ op.at = "send"
    /\ \/ /\ host' = [host EXCEPT !.inbox = @ \cup {op.run}]
          /\ StepOp("accept")
          /\ UNCHANGED <<wire, used>>
       \/ /\ "promptRefused" \in Faults
          /\ StepOp("record")
          /\ UNCHANGED <<host, wire, used>>
       \/ /\ Fault("promptTimesOut")
          /\ wire' = wire \cup {op.run}
          /\ StepOp("verify")
          /\ UNCHANGED host
    /\ UNCHANGED <<goal, rt, checking, eng, stopped, tool, told>>

\* wasPromptAccepted: is the prompt in the worker's transcript after all?
VerifyLate ==
    /\ op.at = "verify"
    /\ StepOp(IF op.run \in host.delivered THEN "accept" ELSE "record")
    /\ UNCHANGED <<goal, rt, checking, eng, stopped, tool, host, wire, told, used>>

AcceptDispatch ==
    /\ op.at = "accept"
    /\ rt' = IF goal.status = "active" /\ rt.run = op.run
                THEN [rt EXCEPT !.accepted = TRUE, !.forced = @ \/ op.final]
                ELSE rt
    /\ EndOp
    /\ UNCHANGED <<goal, checking, stopped, tool, host, wire, told, used>>

\* recordPromptFailure, fenced by the run it failed for and by nothing else.
RecordFailure ==
    /\ op.at = "record"
    /\ IF rt.run # op.run
          THEN UNCHANGED <<goal, rt>>
          ELSE LET n == rt.fails + 1
                   blocked == op.by = "start" \/ n >= MaxFailures
               IN  /\ rt' = [Released(rt) EXCEPT !.fails = n,
                               !.phase = IF blocked THEN "idle" ELSE "waiting_retry"]
                   /\ IF blocked THEN SetStatus("blocked") ELSE UNCHANGED goal
    /\ EndOp
    /\ UNCHANGED <<checking, stopped, tool, host, wire, told, used>>

TurnStep ==
    \/ CreateWorker \/ AssignWorker \/ ReadGuard \/ ProbeIdle \/ AcquireTurn
    \/ PrepareFails \/ DispatchIntent \/ SendPrompt \/ VerifyLate
    \/ AcceptDispatch \/ RecordFailure
-----------------------------------------------------------------------------
(* goal-service.ts: the owner's operations.  Each begins when no operation  *)
(* of the goal runs.                                                        *)

\* pauseUnlocked reads the status, then parks the goal whatever it is by then.
PauseBegin ==
    /\ op.at = "free"
    /\ OwnerCall("pause")
    /\ goal.status = "active"
    /\ Begin("pause", FALSE)
    /\ UNCHANGED <<goal, rt, checking, eng, stopped, tool, host, wire, told>>

\* Mutant: the worker is left running.
PauseUnaborted ==
    /\ op.at = "pause"
    /\ SetStatus("paused")
    /\ rt' = Released(rt)
    /\ EndOp
    /\ UNCHANGED <<checking, stopped, tool, host, wire, told, used>>

PauseCommit ==
    /\ op.at = "pause"
    /\ SetStatus("paused")
    /\ rt' = Released(rt)
    /\ StepOp("abort")
    /\ UNCHANGED <<checking, eng, stopped, tool, host, wire, told, used>>

AbortWorker ==
    /\ op.at = "abort"
    /\ Abort
    /\ EndOp
    /\ UNCHANGED <<goal, rt, checking, stopped, tool, wire, told, used>>

\* resumeUnlocked: the goal is active again and a turn is asked for.
Resume ==
    /\ op.at = "free"
    /\ OwnerCall("resume")
    /\ goal.status \in {"paused", "blocked", "budget_limited", "complete"}
    /\ SetStatus("active")
    /\ Begin("guard", FALSE)
    /\ UNCHANGED <<rt, checking, eng, stopped, tool, host, wire, told>>

\* retryUnlocked: a blocked goal starts over with its counters cleared.
Retry ==
    /\ op.at = "free"
    /\ OwnerCall("retry")
    /\ goal.status = "blocked"
    /\ SetStatus("active")
    /\ rt' = [Released(rt) EXCEPT !.fails = 0, !.forced = FALSE,
                                  !.rejections = 0, !.free = FALSE]
    /\ Begin("guard", FALSE)
    /\ UNCHANGED <<checking, eng, stopped, tool, host, wire, told>>

\* An accepted prompt that the transcript does not show may still be executed:
\* a nudge overrides its receipt only when the lease has expired.
ReceiptPending ==
    rt.phase = "running" /\ rt.accepted /\ rt.run \notin host.delivered /\ rt.lease

\* Mutant: a busy worker is nudged too.
NudgeBusy ==
    /\ op.at = "free"
    /\ OwnerCall("nudge")
    /\ MayContinue
    /\ ~ReceiptPending
    /\ Begin("reset", TRUE)
    /\ UNCHANGED <<goal, rt, checking, eng, stopped, tool, host, wire, told>>

\* nudgeUnlocked, and sendUnlocked for a turn that is not running: check.
NudgeBegin ==
    /\ op.at = "free"
    /\ OwnerCall("nudge")
    /\ MayContinue
    /\ ~ReceiptPending
    /\ TRUE \in Probes
    /\ Begin("reset", TRUE)
    /\ UNCHANGED <<goal, rt, checking, eng, stopped, tool, host, wire, told>>

\* ... then clear the stale run and force a turn.
NudgeReset ==
    /\ op.at = "reset"
    /\ IF MayContinue
          THEN /\ rt' = [rt EXCEPT !.phase = "idle", !.run = None]
               /\ StepOp("guard")
               /\ UNCHANGED eng
          ELSE EndOp /\ UNCHANGED rt
    /\ UNCHANGED <<goal, checking, stopped, tool, host, wire, told, used>>

SetInteractive ==
    /\ op.at = "free"
    /\ OwnerCall("manual")
    /\ goal.status # "cleared"
    /\ goal' = [goal EXCEPT !.manual = ~@]
    /\ UNCHANGED <<rt, checking, op, eng, stopped, tool, host, wire, told>>

\* abortWorkerUnlocked: the owner stops the run and not the goal.
HaltBegin ==
    /\ op.at = "free"
    /\ OwnerCall("abort")
    /\ goal.status # "cleared" /\ goal.worker
    /\ Begin("halt", FALSE)
    /\ UNCHANGED <<goal, rt, checking, eng, stopped, tool, host, wire, told>>

HaltWorker ==
    /\ op.at = "halt"
    /\ Abort
    /\ StepOp("release")
    /\ UNCHANGED <<goal, rt, checking, eng, stopped, tool, wire, told, used>>

\* The goal.abort-worker transaction releases whatever run there is by then.
HaltRelease ==
    /\ op.at = "release"
    /\ rt' = Released(rt)
    /\ EndOp
    /\ UNCHANGED <<goal, checking, stopped, tool, host, wire, told, used>>

\* clearUnlocked removes the goal and its runtime, then aborts the worker.
Clear ==
    /\ op.at = "free"
    /\ OwnerCall("clear")
    /\ goal.status # "cleared"
    /\ SetStatus("cleared")
    /\ rt' = [NewRuntime EXCEPT !.phase = "idle", !.gen = rt.gen]
    /\ Begin("abort", FALSE)
    /\ UNCHANGED <<checking, eng, stopped, tool, host, wire, told>>

\* Mutant: the call's name is recorded for the status.
ForceNamed(call, status) ==
    /\ OwnerCall(call)
    /\ goal.status \notin {status, "cleared"}
    /\ SetStatus(call)
    /\ rt' = Released(rt)
    /\ UNCHANGED <<checking, op, eng, stopped, tool, host, wire, told>>

\* control-worker.ts force_complete and force_block: no goal operation.
ForceStatus(call, status) ==
    /\ OwnerCall(call)
    /\ goal.status \notin {status, "cleared"}
    /\ SetStatus(status)
    /\ rt' = Released(rt)
    /\ UNCHANGED <<checking, op, eng, stopped, tool, host, wire, told>>

OwnerStep ==
    \/ PauseBegin \/ Resume \/ Retry \/ NudgeBegin \/ SetInteractive \/ HaltBegin \/ Clear
    \/ ForceStatus("forceComplete", "complete") \/ ForceStatus("forceBlock", "blocked")

OwnerOpStep == PauseCommit \/ AbortWorker \/ NudgeReset \/ HaltWorker \/ HaltRelease
-----------------------------------------------------------------------------
(* loop-engine.ts: handleEvent and reconcileNativeExecution *)

\* handleEvent finds the active goal of the session that emitted an event.
ReceiveEvent ==
    /\ eng["event"].at = "idle"
    /\ goal.status = "active" /\ goal.worker
    /\ eng' = [eng EXCEPT !["event"].at = "observe", !["event"].manual = goal.manual]
    /\ UNCHANGED <<goal, rt, checking, op, stopped, tool, host, wire, told, used>>

\* reconcileNativeExecution reads the runtime ...
ReadRun(t) ==
    /\ eng[t].at = "observe"
    /\ eng' = [eng EXCEPT ![t].at = "look", ![t].gen = rt.gen, ![t].run = rt.run]
    /\ UNCHANGED <<goal, rt, checking, op, stopped, tool, host, wire, told, used>>

\* ... then the host's projection of the session: what it may say of run r.
Projections(r) ==
    (IF HostIdle THEN {} ELSE IF host.retrying THEN {"retry"} ELSE {"busy"}) \cup
    (IF TRUE \notin Probes THEN {}
     ELSE IF host.latest # r THEN {"foreign"}
     ELSE IF BetweenCalls THEN {"succeeded", "missing"} ELSE {host.outcome})

\* Only an idle session's transcript is looked at, and only for a run.
ReadExecution(t) ==
    /\ eng[t].at = "look"
    /\ \E saw \in Projections(eng[t].run) :
          eng' = [eng EXCEPT ![t].saw = saw, ![t].misled = saw \in Outcomes /\ ~HostIdle,
                             ![t].at = IF saw \in Outcomes THEN "inspect" ELSE "settle"]
    /\ UNCHANGED <<goal, rt, checking, op, stopped, tool, host, wire, told, used>>

\* Mutant: the transcript is not asked whether the reply is in a tool loop.
InspectNothing(t) ==
    /\ eng[t].at = "inspect"
    /\ eng' = [eng EXCEPT ![t].at = "settle", ![t].misled = @ /\ eng[t].run \notin host.calls]
    /\ UNCHANGED <<goal, rt, checking, op, stopped, tool, host, wire, told, used>>

\* ... and, when that said idle, the transcript: inspectPromptTurn tells a turn
\* that is over from one between two steps, by the last message of the reply so
\* far.  A read that fails keeps the host's verdict.  "misled" is history: the
\* host said idle of a live turn and the transcript did not contradict it.
InspectTurn(t) ==
    /\ eng[t].at = "inspect"
    /\ \/ eng' = [eng EXCEPT ![t].at = "settle", ![t].misled = @ /\ eng[t].run \notin host.calls,
                             ![t].saw = IF eng[t].run \in host.calls THEN "incomplete" ELSE @]
       \/ "unread" \in Faults /\ StepThread(t, "settle")
    /\ UNCHANGED <<goal, rt, checking, op, stopped, tool, host, wire, told, used>>

\* Mutant: no watchdog.
Unwatched(t) == EndThread(t)

\* The sweep looks at a turn that did not settle once more (the watchdog).
Unsettled(t) == IF t = "sweep" THEN StepThread(t, "watch") ELSE EndThread(t)

\* Mutant: the fences are gone.
SameGoal(t) == goal.status = "active"

\* The fences of the native.execution transaction.
SameTurn(t) == goal.status = "active" /\ rt.gen = eng[t].gen /\ rt.run = eng[t].run

Settling(t) ==
    /\ eng[t].at = "settle"
    /\ UNCHANGED <<checking, op, stopped, tool, host, wire, told, used>>

SettleStale(t) ==
    /\ Settling(t)
    /\ ~SameTurn(t)
    /\ Unsettled(t)
    /\ UNCHANGED <<goal, rt>>

\* A provider retry charges one failure per grace period.
SettleRetry(t) ==
    /\ Settling(t)
    /\ SameTurn(t) /\ eng[t].saw = "retry"
    /\ \/ rt' = [rt EXCEPT !.retrying = TRUE, !.stuck = FALSE] /\ UNCHANGED goal
       \/ /\ rt.retrying
          /\ rt' = [rt EXCEPT !.fails = @ + 1, !.stuck = FALSE]
          /\ IF rt'.fails >= MaxFailures THEN SetStatus("blocked") ELSE UNCHANGED goal
    /\ Unsettled(t)

\* The projection proves a terminal turn only when the turn is anchored, the
\* workspace is quiet, the session's latest prompt is this turn's and its reply
\* does not end with tool calls ("assistant-incomplete").
Closable(t) ==
    /\ rt.phase = "running" /\ rt.run # None
    /\ eng[t].saw \in Outcomes \ {"missing"}
    /\ ~checking

\* The reasons the watchdog reports: nothing but the owner resolves them.
\* "assistant-incomplete" is not among them.
NeedsOwner(t) ==
    /\ rt.phase = "running"
    /\ \/ rt.run = None
       \/ eng[t].saw = "foreign" /\ ~checking

\* No output: only the sweep turns it into a failure, and not in manual mode.
Outputless(t) ==
    /\ rt.phase = "running" /\ rt.run # None
    /\ eng[t].saw = "missing" /\ ~checking
    /\ t = "sweep" /\ ~goal.manual

SettleBlocked(t) ==
    /\ Settling(t)
    /\ SameTurn(t) /\ eng[t].saw # "retry" /\ ~Closable(t)
    /\ rt' = [rt EXCEPT !.retrying = FALSE, !.stuck = NeedsOwner(t)]
    /\ IF Outputless(t) THEN StepThread(t, "fail") ELSE Unsettled(t)
    /\ UNCHANGED goal

SettleFailed(t) ==
    /\ Settling(t)
    /\ SameTurn(t) /\ Closable(t) /\ eng[t].saw = "failed"
    /\ rt' = [rt EXCEPT !.retrying = FALSE, !.stuck = FALSE]
    /\ StepThread(t, "fail")
    /\ UNCHANGED goal

SettleInterrupted(t) ==
    /\ Settling(t)
    /\ SameTurn(t) /\ Closable(t) /\ eng[t].saw = "interrupted"
    /\ rt' = [Released(rt) EXCEPT !.retrying = FALSE, !.stuck = FALSE]
    /\ SetStatus("paused")
    /\ EndThread(t)

\* A manual goal is handed to its owner; an automatic one goes on.
SettleSucceeded(t) ==
    /\ Settling(t)
    /\ SameTurn(t) /\ Closable(t) /\ eng[t].saw = "succeeded"
    /\ rt' = [Released(rt) EXCEPT !.retrying = FALSE, !.stuck = FALSE]
    /\ IF eng[t].manual THEN EndThread(t) ELSE Proceed(t, "after", FALSE)
    /\ UNCHANGED goal

\* Mutant: the failure is charged to whatever turn runs by then.
ChargeAnyTurn(t) ==
    /\ eng[t].at = "fail"
    /\ IF goal.status = "active" /\ rt.phase = "running"
          THEN LET n == rt.fails + 1
               IN  /\ rt' = [Released(rt) EXCEPT !.fails = n,
                               !.phase = IF n >= MaxFailures THEN "idle" ELSE "waiting_retry"]
                   /\ IF n >= MaxFailures THEN SetStatus("blocked") ELSE UNCHANGED goal
          ELSE UNCHANGED <<goal, rt>>
    /\ EndThread(t)
    /\ UNCHANGED <<checking, op, stopped, tool, host, wire, told, used>>

\* handleSessionError with an expectedRunID.
ChargeFailure(t) ==
    /\ eng[t].at = "fail"
    /\ IF SameTurn(t) /\ rt.phase = "running"
          THEN LET n == rt.fails + 1
               IN  /\ rt' = [Released(rt) EXCEPT !.fails = n,
                               !.phase = IF n >= MaxFailures THEN "idle" ELSE "waiting_retry"]
                   /\ IF n >= MaxFailures THEN SetStatus("blocked") ELSE UNCHANGED goal
          ELSE UNCHANGED <<goal, rt>>
    /\ EndThread(t)
    /\ UNCHANGED <<checking, op, stopped, tool, host, wire, told, used>>
-----------------------------------------------------------------------------
(* loop-engine.ts: afterCompletedTurn, compaction and continueGoal *)

\* shouldCompact
CompactDue == CompactEvery > 0 /\ rt.gen % CompactEvery = 0

AfterTurn(t) ==
    /\ eng[t].at = "after"
    /\ IF goal.status # "active" THEN EndThread(t)
       ELSE IF TurnLimit
          THEN \/ ~rt.forced /\ Proceed(t, "gate", TRUE)
               \/ rt.forced /\ StepThread(t, "stop")
               \/ rt.forced /\ stopped /\ EndThread(t)
       ELSE IF BudgetReached THEN StepThread(t, "budget")
       ELSE IF CompactDue
          THEN eng' = [eng EXCEPT ![t].at = "compactStart", ![t].phase = rt.phase]
       ELSE StepThread(t, "gate")
    /\ UNCHANGED <<goal, rt, checking, op, stopped, tool, host, wire, told, used>>

\* Mutant: the goal may have been cleared meanwhile.
StopUnchecked(t) ==
    /\ eng[t].at = "stop"
    /\ SetStatus("blocked") /\ rt' = [rt EXCEPT !.forced = FALSE]
    /\ stopped' = TRUE
    /\ EndThread(t)
    /\ UNCHANGED <<checking, op, tool, host, wire, told, used>>

\* The idle.blocked transaction, after usage has been accounted.
StopAtLimit(t) ==
    /\ eng[t].at = "stop"
    /\ IF goal.status = "cleared" THEN UNCHANGED <<goal, rt>>
       ELSE SetStatus("blocked") /\ rt' = [rt EXCEPT !.forced = FALSE]
    /\ stopped' = TRUE
    /\ EndThread(t)
    /\ UNCHANGED <<checking, op, tool, host, wire, told, used>>

\* The idle.budget transaction.
StopAtBudget(t) ==
    /\ eng[t].at = "budget"
    /\ IF goal.status = "cleared" THEN UNCHANGED goal ELSE SetStatus("budget_limited")
    /\ EndThread(t)
    /\ UNCHANGED <<rt, checking, op, stopped, tool, host, wire, told, used>>

CompactStart(t) ==
    /\ eng[t].at = "compactStart"
    /\ rt' = IF goal.status = "cleared" THEN rt ELSE [rt EXCEPT !.phase = "compacting"]
    /\ StepThread(t, "compact")
    /\ UNCHANGED <<goal, checking, op, stopped, tool, host, wire, told, used>>

\* goalService.compact is a goal operation that changes no goal state.
Compact(t) ==
    /\ eng[t].at = "compact"
    /\ op.at = "free"
    /\ StepThread(t, "compactEnd")
    /\ UNCHANGED <<goal, rt, checking, op, stopped, tool, host, wire, told, used>>

CompactEnd(t) ==
    /\ eng[t].at = "compactEnd"
    /\ rt' = IF goal.status = "cleared" THEN rt ELSE [rt EXCEPT !.phase = eng[t].phase]
    /\ EndThread(t)
    /\ UNCHANGED <<goal, checking, op, stopped, tool, host, wire, told, used>>

\* continueGoal reads the goal; the other thread must not be continuing it.
ContinueGoal(t) ==
    /\ eng[t].at = "gate"
    /\ IF /\ goal.status = "active" /\ ~goal.manual
          /\ \A u \in Threads : eng[u].at \notin {"queued", "turn"}
          THEN Proceed(t, "queued", eng[t].final \/ TurnLimit)
          ELSE EndThread(t)
    /\ UNCHANGED <<goal, rt, checking, op, stopped, tool, host, wire, told, used>>

\* Its continueTurn starts when the operations before it have ended.
StartTurn(t) ==
    /\ eng[t].at = "queued"
    /\ op.at = "free"
    /\ op' = [FreeOp EXCEPT !.at = "guard", !.by = t, !.final = eng[t].final]
    /\ Proceed(t, "turn", FALSE)
    /\ UNCHANGED <<goal, rt, checking, stopped, tool, host, wire, told, used>>

ThreadStep(t) ==
    \/ ReadRun(t) \/ ReadExecution(t) \/ InspectTurn(t)
    \/ SettleStale(t) \/ SettleRetry(t) \/ SettleBlocked(t) \/ SettleFailed(t)
    \/ SettleInterrupted(t) \/ SettleSucceeded(t) \/ ChargeFailure(t)
    \/ AfterTurn(t) \/ StopAtLimit(t) \/ StopAtBudget(t)
    \/ CompactStart(t) \/ Compact(t) \/ CompactEnd(t)
    \/ ContinueGoal(t) \/ StartTurn(t)
-----------------------------------------------------------------------------
(* loop-engine.ts: maintenance and accountAndEnforceBudget *)

\* Mutant: goals that are not active are not looked at.
SweepActiveOnly ==
    /\ eng["sweep"].at = "idle"
    /\ goal.worker /\ goal.status = "active"
    /\ eng' = [eng EXCEPT !["sweep"].at = "account", !["sweep"].phase = rt.phase,
                          !["sweep"].manual = goal.manual, !["sweep"].began = rt.run]
    /\ UNCHANGED <<goal, rt, checking, op, stopped, tool, host, wire, told, used>>

SweepStart ==
    /\ eng["sweep"].at = "idle"
    /\ goal.worker /\ goal.status # "cleared"
    /\ \/ goal.status # "active" /\ Leaks(rt) /\ StepThread("sweep", "leak")
       \/ /\ goal.status = "active"
          /\ eng' = [eng EXCEPT !["sweep"].at = "account", !["sweep"].phase = rt.phase,
                                !["sweep"].manual = goal.manual, !["sweep"].began = rt.run]
    /\ UNCHANGED <<goal, rt, checking, op, stopped, tool, host, wire, told, used>>

ClearLeak ==
    /\ eng["sweep"].at = "leak"
    /\ rt' = IF goal.status # "active" THEN Released(rt) ELSE rt
    /\ EndThread("sweep")
    /\ UNCHANGED <<goal, checking, op, stopped, tool, host, wire, told, used>>

\* Fold the worker's usage in; it may turn out that the budget is gone.
\* The usage of messages not yet counted may exhaust the budget; what was
\* counted once is never taken back.
accountTailUsage ==
    \/ UNCHANGED goal
    \/ Budgeted /\ host.delivered # {} /\ goal' = [goal EXCEPT !.spent = TRUE]

Account ==
    /\ eng["sweep"].at = "account"
    /\ accountTailUsage
    /\ StepThread("sweep", IF goal.status = "active" /\ goal'.spent THEN "halt" ELSE "choose")
    /\ UNCHANGED <<rt, checking, op, stopped, tool, host, wire, told, used>>

\* Stop the burn first, then record the stop.
HaltSpend ==
    /\ eng["sweep"].at = "halt"
    /\ Abort
    /\ StepThread("sweep", "limit")
    /\ UNCHANGED <<goal, rt, checking, op, stopped, tool, wire, told, used>>

LimitSpend ==
    /\ eng["sweep"].at = "limit"
    /\ CASE goal.status = "active" ->
              SetStatus("budget_limited") /\ rt' = Released(rt) /\ EndThread("sweep")
         [] goal.status = "budget_limited" -> EndThread("sweep") /\ UNCHANGED <<goal, rt>>
         [] OTHER -> StepThread("sweep", "choose") /\ UNCHANGED <<goal, rt>>
    /\ UNCHANGED <<checking, op, stopped, tool, host, wire, told, used>>

\* What to do is decided by the runtime the sweep read at its start.
Choose ==
    /\ eng["sweep"].at = "choose"
    /\ LET snap == eng["sweep"]
           due == ~snap.manual /\ snap.phase = "idle"
       IN  \/ ~snap.manual /\ snap.phase = "waiting_retry" /\ Proceed("sweep", "retryReady", FALSE)
           \/ snap.phase = "running" /\ StepThread("sweep", "observe")
           \/ due /\ TRUE \in Probes /\ Proceed("sweep", "gate", FALSE)
           \/ snap.phase # "running" /\ ~(due /\ HostIdle) /\ EndThread("sweep")
    /\ UNCHANGED <<goal, rt, checking, op, stopped, tool, host, wire, told, used>>

\* The retry-ready transaction.
RetryReady ==
    /\ eng["sweep"].at = "retryReady"
    /\ rt' = IF goal.status = "cleared" THEN rt ELSE [rt EXCEPT !.phase = "idle"]
    /\ StepThread("sweep", "gate")
    /\ UNCHANGED <<goal, checking, op, stopped, tool, host, wire, told, used>>

\* The reconcile-stuck watchdog tells the owner once per run, the run the sweep
\* began with.
WatchStuck ==
    /\ eng["sweep"].at = "watch"
    /\ told' = IF /\ rt.phase = "running" /\ rt.run # None /\ rt.run = eng["sweep"].began
                  /\ rt.stuck /\ ~rt.lease /\ goal.status # "cleared"
               THEN rt.run ELSE told
    /\ EndThread("sweep")
    /\ UNCHANGED <<goal, rt, checking, op, stopped, tool, host, wire, used>>

SweepStep ==
    \/ SweepStart \/ ClearLeak \/ Account \/ HaltSpend \/ LimitSpend
    \/ Choose \/ RetryReady \/ WatchStuck
-----------------------------------------------------------------------------
(* goal-tools.ts: one tool call of the worker at a time.  It reads the whole *)
(* state when it begins and publishes its copy of the runtime when it ends.  *)

ToolBegin(call) ==
    /\ call \in WorkerCalls
    /\ tool = NoTool
    /\ host.work # None
    /\ goal.status = "active"
    /\ tool' = [at |-> IF call = "complete" THEN "lock" ELSE "persist",
                call |-> call, snap |-> rt]
    /\ UNCHANGED <<goal, rt, checking, op, eng, stopped, host, wire, told, used>>

\* withWorkspaceOperation takes the workspace for the checks, or denies them.
ChecksStart ==
    /\ tool.at = "lock"
    /\ checking' = TRUE
    /\ tool' = IF checking THEN NoTool ELSE [tool EXCEPT !.at = "checks"]
    /\ UNCHANGED <<goal, rt, op, eng, stopped, host, wire, told, used>>

\* Its finally releases the workspace; then the checks' result is applied.
ChecksEnd ==
    /\ tool.at = "checks"
    /\ checking' = FALSE
    /\ \E verdict \in {"persist", "reject"} : tool' = [tool EXCEPT !.at = verdict]
    /\ UNCHANGED <<goal, rt, op, eng, stopped, host, wire, told, used>>

\* The goal.completion-rejected transaction works on fresh state.
RejectCompletion ==
    /\ tool.at = "reject"
    /\ tool' = NoTool
    /\ IF goal.status # "active" THEN UNCHANGED <<goal, rt>>
       ELSE IF rt.rejections + 1 >= MaxRejections
          THEN /\ SetStatus("blocked")
               /\ rt' = [Released(rt) EXCEPT !.rejections = @ + 1,
                                             !.forced = FALSE, !.free = FALSE]
          ELSE /\ rt' = [rt EXCEPT !.rejections = @ + 1, !.forced = FALSE, !.free = TRUE]
               /\ UNCHANGED goal
    /\ UNCHANGED <<checking, op, eng, stopped, host, wire, told, used>>

\* What a call makes of the copy it read ...
complete_goal(snap) == [status |-> "complete", rt |-> Released(snap)]
block_goal(snap) == [status |-> "blocked", rt |-> Released(snap)]
report_goal_progress(snap) == [status |-> "active", rt |-> [snap EXCEPT !.fails = 0]]
notify_owner(snap) == [status |-> "active", rt |-> snap]

Outcome(call, snap) ==
    CASE call = "complete" -> complete_goal(snap)
      [] call = "block"    -> block_goal(snap)
      [] call = "progress" -> report_goal_progress(snap)
      [] call = "notify"   -> notify_owner(snap)

\* Mutant: progress is published over a pause.
PublishOverPause(call) == {"active", "budget_limited", "paused"}

\* ... and the statuses it may publish over.
PublishOver(call) ==
    IF call \in {"progress", "notify"} THEN {"active"} ELSE {"active", "budget_limited"}

\* Mutant: the generation is not compared.
PersistUnfenced ==
    /\ tool.at = "persist"
    /\ tool' = NoTool
    /\ IF goal.status \in PublishOver(tool.call)
          THEN /\ SetStatus(Outcome(tool.call, tool.snap).status)
               /\ rt' = Outcome(tool.call, tool.snap).rt
          ELSE UNCHANGED <<goal, rt>>
    /\ UNCHANGED <<checking, op, eng, stopped, host, wire, told, used>>

\* persistWorkerMutation: the same worker and generation, or it throws.
PersistTool ==
    /\ tool.at = "persist"
    /\ tool' = NoTool
    /\ IF goal.status \in PublishOver(tool.call) /\ rt.gen = tool.snap.gen
          THEN /\ SetStatus(Outcome(tool.call, tool.snap).status)
               /\ rt' = Outcome(tool.call, tool.snap).rt
          ELSE UNCHANGED <<goal, rt>>
    /\ UNCHANGED <<checking, op, eng, stopped, host, wire, told, used>>

ToolStep == ChecksStart \/ ChecksEnd \/ RejectCompletion \/ PersistTool
-----------------------------------------------------------------------------
(* The worker session, the network, the clock and the plugin's process *)

\* The session delivers a queued prompt to the model.
TurnStarts(r) ==
    /\ r \in host.inbox
    /\ host.work = None
    /\ host' = [host EXCEPT !.inbox = @ \ {r}, !.work = r, !.latest = r,
                            !.delivered = @ \cup {r}, !.outcome = "missing"]
    /\ UNCHANGED <<goal, rt, checking, op, eng, stopped, tool, wire, told, used>>

\* The model's tool calls are part of its turn.
TurnEnds(outcome) ==
    /\ host.work # None
    /\ tool = NoTool
    /\ outcome = "succeeded" \/ outcome \in Faults
    /\ host' = [host EXCEPT !.work = None, !.outcome = outcome, !.retrying = FALSE]
    /\ UNCHANGED <<goal, rt, checking, op, eng, stopped, tool, wire, told, used>>

\* A message of the reply asks for tools, or the next one begins.  A turn may
\* end either way: by itself, or stopped between two calls.
ToolLoop ==
    /\ host.work # None
    /\ \/ /\ host.work \notin host.calls /\ Fault("toolCalls")
          /\ host' = [host EXCEPT !.calls = @ \cup {host.work}]
       \/ /\ host.work \in host.calls /\ UNCHANGED used
          /\ host' = [host EXCEPT !.calls = @ \ {host.work}]
    /\ UNCHANGED <<goal, rt, checking, op, eng, stopped, tool, wire, told>>

ProviderRetries ==
    /\ Fault("retry")
    /\ host.work # None /\ ~host.retrying
    /\ host' = [host EXCEPT !.retrying = TRUE]
    /\ UNCHANGED <<goal, rt, checking, op, eng, stopped, tool, wire, told>>

\* Somebody stops the session natively, or types into it.
SessionStopped ==
    /\ Fault("interrupted")
    /\ host.work # None
    /\ host' = [host EXCEPT !.work = None, !.outcome = "interrupted", !.retrying = FALSE]
    /\ UNCHANGED <<goal, rt, checking, op, eng, stopped, tool, wire, told>>

ForeignPrompt ==
    /\ Fault("foreign")
    /\ HostIdle
    /\ host' = [host EXCEPT !.latest = None]
    /\ UNCHANGED <<goal, rt, checking, op, eng, stopped, tool, wire, told>>

\* The prompt of a dispatch that timed out arrives after all.
LateArrival(r) ==
    /\ r \in wire \ (host.delivered \cup host.inbox)
    /\ host' = [host EXCEPT !.inbox = @ \cup {r}]
    /\ UNCHANGED <<goal, rt, checking, op, eng, stopped, tool, wire, told, used>>

LeaseExpires ==
    /\ "leaseExpires" \in Faults
    /\ rt.lease
    /\ rt' = [rt EXCEPT !.lease = FALSE]
    /\ UNCHANGED <<goal, checking, op, eng, stopped, tool, host, wire, told, used>>

\* The process dies and starts again: what it held in memory is gone, the
\* session's turn is over, and goalService.reconcile attaches a worker to an
\* active goal that has none.
Restart ==
    /\ Fault("restart")
    /\ op' = FreeOp
    /\ eng' = [t \in Threads |-> IdleThread]
    /\ stopped' = FALSE
    /\ tool' = NoTool
    /\ \E outcome \in {"interrupted", "missing"}, kept \in Kept :
          host' = IF host.work = None THEN [host EXCEPT !.inbox = kept]
                  ELSE [host EXCEPT !.inbox = kept, !.work = None,
                                    !.outcome = outcome, !.retrying = FALSE]
    /\ goal' = [goal EXCEPT !.worker = @ \/ goal.status = "active"]
    /\ UNCHANGED <<rt, checking, wire, told>>

Environment ==
    \/ \E r \in host.inbox : TurnStarts(r)
    \/ \E outcome \in Outcomes \ {"interrupted"} : TurnEnds(outcome)
    \/ ToolLoop \/ ProviderRetries \/ SessionStopped \/ ForeignPrompt
    \/ \E r \in wire : LateArrival(r)
    \/ LeaseExpires \/ Restart
-----------------------------------------------------------------------------
Next ==
    \/ TurnStep \/ OwnerStep \/ OwnerOpStep
    \/ ReceiveEvent \/ SweepStep
    \/ \E t \in Threads : ThreadStep(t)
    \/ \E call \in WorkerCalls : ToolBegin(call)
    \/ ToolStep
    \/ Environment

Spec == Init /\ [][Next]_vars

BackoffElapses == Choose /\ eng'["sweep"].at = "retryReady"

\* The event loop runs every pending step, the timer starts every sweep, a
\* backoff elapses, and the session starts and ends every turn.  The owner,
\* the faults and the events owe nothing.
Fairness ==
    /\ WF_vars(TurnStep) /\ WF_vars(OwnerOpStep)
    /\ WF_vars(SweepStep) /\ SF_vars(BackoffElapses)
    /\ \A t \in Threads : SF_vars(ThreadStep(t))
    /\ WF_vars(ToolStep)
    /\ WF_vars(\E r \in host.inbox : TurnStarts(r))
    /\ SF_vars(\E outcome \in Outcomes : TurnEnds(outcome))
    /\ WF_vars(LeaseExpires)

FairSpec == Spec /\ Fairness

Ledger == INSTANCE TurnLedger WITH
    opened <- rt.gen, queued <- host.inbox, working <- host.work,
    delivered <- host.delivered, lost <- wire

\* The goal keeps the promise of TurnLedger to its worker session: turns are
\* opened one by one, each sends at most one prompt, and none is opened while
\* the session holds the prompt of another.
LedgerSpec == Ledger!Spec
-----------------------------------------------------------------------------
(* Properties *)

Labels ==
    {"free", "create", "assign", "guard", "probe", "acquire", "intent", "send",
     "verify", "accept", "record", "pause", "abort", "reset", "halt", "release"}
ThreadLabels ==
    {"idle", "observe", "look", "inspect", "settle", "fail", "after", "stop", "budget",
     "compactStart", "compact", "compactEnd", "gate", "queued", "turn", "leak",
     "account", "halt", "limit", "choose", "retryReady", "watch"}

Goals == [status : Statuses, manual : BOOLEAN, worker : BOOLEAN, spent : BOOLEAN]
Runtimes ==
    [phase : Phases, gen : Nat, lease : BOOLEAN, run : Nat, accepted : BOOLEAN,
     forced : BOOLEAN, turns : Nat, free : BOOLEAN, fails : Nat,
     rejections : Nat, retrying : BOOLEAN, stuck : BOOLEAN]
Operations ==
    [at : Labels, by : Threads \cup {"none", "start", "owner"}, run : Nat,
     final : BOOLEAN, force : BOOLEAN]
EngineThreads ==
    [at : ThreadLabels, gen : Nat, run : Nat, began : Nat, phase : Phases, manual : BOOLEAN,
     saw : Outcomes \cup {"retry", "busy", "foreign", "incomplete"}, misled : BOOLEAN,
     final : BOOLEAN]
ToolCalls ==
    {NoTool} \cup [at : {"lock", "checks", "reject", "persist"},
                   call : {"complete", "block", "progress", "notify"}, snap : Runtimes]
Sessions ==
    [inbox : SUBSET Nat, work : Nat, latest : Nat, delivered : SUBSET Nat, calls : SUBSET Nat,
     outcome : Outcomes, retrying : BOOLEAN]

\* Every variable keeps its type; a goal's status is always one of the table
\* of domain/goal.ts, "cleared" standing for a goal that was removed.
TypeOK ==
    /\ goal \in Goals
    /\ rt \in Runtimes
    /\ checking \in BOOLEAN
    /\ op \in Operations
    /\ eng \in [Threads -> EngineThreads]
    /\ stopped \in BOOLEAN
    /\ tool \in ToolCalls
    /\ host \in Sessions
    /\ wire \subseteq Nat
    /\ told \in Nat
    /\ used \in [calls : Nat, faults : Nat]

Session == host.inbox \cup (IF host.work = None THEN {} ELSE {host.work})

\* The worker session never holds two prompts of the goal, whoever asked for
\* the turns: the operations, the event handler, the sweep and the owner's nudge
\* each look at the session before they open one.  Prompts whose dispatch timed
\* out are outside the promise.
OneTurnAtATime == \A r, s \in Session \ wire : r = s

\* "Generation/session fences reject late observations": the turn the worker of
\* an active goal executes is the one the runtime tracks as running.
LiveTurnTracked ==
    goal.status = "active" /\ host.work # None =>
        rt.phase = "running" /\ rt.run = host.work

\* "Pause is durable", "Clear aborts the worker": once the abort is over, the
\* worker of a paused or cleared goal neither runs nor has a prompt waiting,
\* whatever turn was being dispatched or settled meanwhile.
ParkedIsQuiet ==
    goal.status \in {"paused", "cleared"} /\ op.at # "abort" => Session \subseteq wire

\* "Clear is final": no late transaction of the engine or of a tool call brings
\* a cleared goal back.
ClearIsFinal == [][goal.status = "cleared" => goal'.status = "cleared"]_vars

\* A goal that was paused, blocked, limited or completed becomes active again
\* only by the owner's resume or retry: the worker's tool call that was in
\* flight when it stopped does not revive it.
StoppedStaysStopped ==
    [][goal.status # "active" /\ goal'.status = "active" => Resume \/ Retry]_vars

Closes(t) ==
    (SettleInterrupted(t) \/ SettleSucceeded(t) \/ ChargeFailure(t)) /\ rt'.run # rt.run

\* The engine closes a turn only when the session holds its prompt no more,
\* though the host may report idle between two tool calls, the engine decides by
\* what it read several awaits ago and two of its threads may be deciding at
\* once.  It is misled only where the transcript was no help: the read of it
\* failed, or the model was past its tool calls by then.
ClosesEndedTurns ==
    [][\A t \in Threads : Closes(t) => rt.run \notin Session \/ eng[t].misled]_vars

\* "Closing the turn there re-prompts a MID-TURN worker": the same without the
\* exception.  The code does not keep it.
NeverClosesMidTurn ==
    [][\A t \in Threads : Closes(t) => rt.run \notin Session]_vars

\* "Manual means manual": the engine opens no turn for a goal that is manual.
ManualMeansManual ==
    [][AcquireTurn /\ op.by \in Threads /\ rt' # rt => ~goal.manual]_vars

\* "Real fences that resolve on their own": the workspace that completion checks
\* hold is released.
FencesResolve == checking ~> ~checking

MovesOn(n) == goal.status # "active" \/ rt.gen > n \/ (n # None /\ told = n)

\* The session has ended turn n after a message that asked for tools.
EndedInCalls(n) == n \in host.calls /\ host.work # n

\* An active goal stops, gets its next turn, or its owner is told that the turn
\* it is in cannot be settled: it does not "stall silently forever", unless the
\* turn ended in tool calls.
NeverStallsSilently ==
    \A n \in 0 .. MaxRuns - 1 :
        goal.status = "active" /\ rt.gen = n ~> MovesOn(n) \/ EndedInCalls(n)

\* The watchdog is there because without it "the goal stalls silently forever":
\* the same without the exception.  The code does not keep it.
NeverStalls ==
    \A n \in 0 .. MaxRuns - 1 : goal.status = "active" /\ rt.gen = n ~> MovesOn(n)

\* A goal that stopped does not keep the execution state of its last turn.
LeaksCleared == []<>(goal.status = "active" \/ ~Leaks(rt))
=============================================================================
