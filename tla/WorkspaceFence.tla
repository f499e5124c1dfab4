---------------------------- MODULE WorkspaceFence ----------------------------
(***************************************************************************)
(* Who may write what, and when checks may run: the fences that every tool  *)
(* call of every session passes, and what becomes of them when a call's     *)
(* end is never reported.                                                   *)
(*                                                                          *)
(*   application/workspace-execution.ts   reservations, tickets, operations *)
(*   application/goal-scope.ts            claims of more files              *)
(*   infrastructure/workspace-scope.ts    conflicts between scopes          *)
(*   application/goal-service.ts          activation, grants, releases      *)
(*   application/schedule-worker.ts       activation by the schedule        *)
(*   application/command-await.ts         goals parked until quiescence     *)
(*   application/approved-commands.ts     finite commands as operations     *)
(*                                                                          *)
(* The host is the guarded one (v2): scopes are enforced nowhere else, and  *)
(* it tracks no tool calls in the runtimes.  A reservation and its ticket   *)
(* are both named by the call.  Every state transaction is one step, and    *)
(* what a handler read before its transaction is kept until then.           *)
(*                                                                          *)
(* Abstractions.  A structured write names one file.  A write of a          *)
(* read-only goal into its private directory leaves no trace and is left    *)
(* out; an owner's write outside the workspace is recorded like a shell.    *)
(*   The order of the waiters decides only the position a message       *)
(* tells and which of two overlapping waiters a sweep promotes: they are a  *)
(* set, and the sweep may promote either.  Pausing stands for every status  *)
(* a goal is resumed from.  Commands that fence an activation are in        *)
(* CommandSession.  scopeClearPending is written by no code any more.       *)
(* The host tells the truth: a session it reports idle, or does not know,   *)
(* executes no tool.                                                        *)
(***************************************************************************)
EXTENDS Naturals, FiniteSets

CONSTANTS
    Goals, Files, Calls,
    Owner,       \* the session that owns the goals, a main session
    Stranger,    \* a session of no goal, not proved to be a main session
    NoGoal, NoCall,
    Contracts,   \* the contracts goals are created with: a mode and a scope
    Operations,  \* what takes the workspace: checks, approved commands
    MaxWorkers,  \* bound: worker sessions of a goal, one after the other
    MaxTurns,    \* bound: turns of all sessions
    MaxVerbs,    \* bound: what owner, worker and schedule do to the goals
    MaxFaults,   \* bound: restarts of the host, and sessions it loses
    MaxMoves     \* bound: verbs and faults together

ASSUME NoGoalAssumption == NoGoal \notin Goals
ASSUME NoCallAssumption == NoCall \notin Calls
Modes == {"scoped", "whole", "readonly"}
ASSUME ContractsAssumption == Contracts \subseteq [mode : Modes, scope : SUBSET Files]
ASSUME OperationsAssumption == Operations \subseteq {"check", "approved"}
ASSUME BoundsAssumption == MaxWorkers \in Nat \ {0} /\ MaxTurns \in Nat /\ MaxVerbs \in Nat /\ MaxFaults \in Nat /\ MaxMoves \in Nat

Workers == Goals \X (1 .. MaxWorkers)
Sessions == Workers \cup {Owner, Stranger}

ASSUME SessionsAssumption == Owner # Stranger /\ Owner \notin Workers /\ Stranger \notin Workers

VARIABLES
    goal,      \* state.goals: status, contract, write_scope, scopeClosing, worker
    retired,   \* state.retiredWorkerSessions
    call,      \* each tool call: how far it is, who makes it, what it writes
    resv,      \* state.workspaceCalls
    holders,   \* state.writeTickets.holders
    waiters,   \* state.writeTickets.queue
    op,        \* state.workspaceOperation: the call it serves
    awaits,    \* state.fenceAwaits
    busy,      \* external: the sessions with a turn in progress
    gone,      \* external: the sessions the host no longer knows
    pending,   \* in memory: handlers between their read and their transaction
    sweep,     \* the maintenance pass, and the idle proof it has gathered
    bound,     \* bound: turns, verbs and faults so far
    hist       \* history: calls released by hand, files granted, fences
               \* dropped without a wake

vars == <<goal, retired, call, resv, holders, waiters, op, awaits, busy, gone, pending, sweep, bound, hist>>
tables == <<resv, holders, waiters>>
outside == <<busy, gone, bound>>

Kinds == {"write", "shell"} \cup Operations
Unmade == [st |-> "new", by |-> Owner, kind |-> "shell", file |-> {}, goal |-> NoGoal, ticket |-> FALSE]
NoProof == [at |-> "rest", boot |-> FALSE, idle |-> {}, seen |-> {}]

Idle == [pausing |-> {}, parking |-> {}, granting |-> [g \in Goals |-> {}], waking |-> FALSE]

Init ==
    /\ goal = [g \in Goals |-> [st |-> "none", mode |-> "readonly", scope |-> {}, closing |-> FALSE, n |-> 1]]
    /\ retired = {} /\ call = [c \in Calls |-> Unmade]
    /\ resv = {} /\ holders = {} /\ waiters = {} /\ op = NoCall /\ awaits = {}
    /\ busy = {} /\ gone = {}
    /\ pending = Idle
    /\ sweep = NoProof
    /\ bound = [turns |-> 0, verbs |-> 0, faults |-> 0]
    /\ hist = [released |-> {}, granted |-> {}, silent |-> FALSE]
-----------------------------------------------------------------------------
(* What the persisted state says.                                           *)

Worker(g) == <<g, goal[g].n>>
Exists(g) == goal[g].st \notin {"none", "gone"}
WorksFor(s) == {g \in Goals : Exists(g) /\ s = Worker(g)}

\* An uncontrolled reservation names no file: what it writes is not known.
Uncontrolled(c) == c \in resv /\ call[c].file = {}
Overlap(c, d) == call[c].file \cap call[d].file # {}

\* The files a goal owns while it is held: findScopeConflict's overlap.
Covers(mode, scope) == CASE mode = "whole" -> Files [] mode = "scoped" -> scope [] OTHER -> {}
Owns(g) == Covers(goal[g].mode, goal[g].scope)

heldGoals ==
    {g \in Goals : /\ Exists(g)
                   /\ \/ goal[g].st = "active" \/ goal[g].closing
                      \/ \E c \in resv : call[c].goal = g
                      \/ op # NoCall /\ call[op].goal = g}

\* Mutant: a scope is acquired without a look at the other goals.
ScopeUncontested(g, scope, closing) ==
    \/ goal[g].mode = "readonly"
    \/ /\ ~closing /\ op = NoCall
       /\ \A c \in resv : call[c].goal # g
       /\ goal[g].mode = "scoped" => \A c \in resv : ~Uncontrolled(c)
       /\ goal[g].mode = "whole" => resv = {}

\* Mutant: an activation does not wait for shells.
ScopeBesideShells(g, scope, closing) ==
    \/ goal[g].mode = "readonly"
    \/ /\ ~closing /\ op = NoCall
       /\ \A h \in heldGoals \ {g} : Owns(h) \cap Covers(goal[g].mode, scope) = {}
       /\ \A c \in resv : call[c].file \cap Covers(goal[g].mode, scope) = {}

\* assertScopeAvailable, for goal g as it would be with this scope.
assertScopeAvailable(g, scope, closing) ==
    \/ goal[g].mode = "readonly"
    \/ /\ ~closing /\ op = NoCall
       /\ \A c \in resv : call[c].goal # g
       /\ goal[g].mode = "scoped" => \A c \in resv : ~Uncontrolled(c)
       /\ \A h \in heldGoals \ {g} : Owns(h) \cap Covers(goal[g].mode, scope) = {}
       /\ goal[g].mode = "whole" => resv = {}
       /\ \A c \in resv : call[c].file \cap Covers(goal[g].mode, scope) = {}

\* Mutant: only tickets exclude, reservations do not.
GrantBesideReservations(file, held) == \A d \in held : call[d].file \cap file = {}

canGrantTicket(file, held) == \A d \in held \cup resv : call[d].file \cap file = {}

\* Tickets of goals that are complete or gone are reclaimed.
Reclaimed(tickets) == {c \in tickets : call[c].goal = NoGoal \/ goal[call[c].goal].st \notin {"gone", "complete"}}

isFenceQuiescent == op = NoCall /\ holders = {} /\ \A c \in resv : ~Uncontrolled(c) /\ call[c].file = {}
-----------------------------------------------------------------------------
(* External: turns, and the end of sessions.                                *)

Spend(what, limit) ==
    /\ bound[what] < limit
    /\ what # "turns" => bound.verbs + bound.faults < MaxMoves
    /\ bound' = [bound EXCEPT ![what] = @ + 1]

TurnStart(s) ==
    /\ s \notin busy \cup gone
    /\ s \in Workers => goal[s[1]].st = "active" /\ s = Worker(s[1])
    /\ \E c \in Calls : call[c].st = "new"
    /\ busy' = busy \cup {s} /\ Spend("turns", MaxTurns)
    /\ UNCHANGED <<goal, retired, call, tables, op, awaits, gone, pending, sweep, hist>>

Executing(s) == \E c \in Calls : call[c].by = s /\ call[c].st \in {"asked", "running", "ended"}

TurnEnd(s) ==
    /\ s \in busy /\ ~Executing(s)
    /\ busy' = busy \ {s}
    /\ UNCHANGED <<goal, retired, call, tables, op, awaits, gone, pending, sweep, bound, hist>>

\* Only of a session that left something behind: of another one nobody asks.
SessionGone(s) ==
    /\ s \in Workers /\ s \notin busy \cup gone
    /\ \E c \in resv \cup holders \cup waiters : call[c].by = s
    /\ gone' = gone \cup {s} /\ Spend("faults", MaxFaults)
    /\ UNCHANGED <<goal, retired, call, tables, op, awaits, busy, pending, sweep, hist>>
-----------------------------------------------------------------------------
(* beforeWorkspaceTool: one transaction, which admits the call or denies    *)
(* it.  Tools that only read, and the owner's own verbs, never come here.   *)

Begins(c, s) == call[c].st = "new" /\ s \in busy
Made(c, s, st, kind, file, g, ticket) ==
    call' = [call EXCEPT ![c] = [st |-> st, by |-> s, kind |-> kind, file |-> file, goal |-> g, ticket |-> ticket]]
Over(c, st) == call' = [call EXCEPT ![c] = [Unmade EXCEPT !.st = st]]
Denied(c) == Over(c, "denied") /\ UNCHANGED <<resv, holders>>

\* Nothing is protected and no checks run: every call is recorded, none refused.
Unprotected(s) ==
    /\ op = NoCall
    /\ \A g \in heldGoals : goal[g].mode # "scoped"
    /\ \A g \in WorksFor(s) : goal[g].mode = "whole"

GoalFor(s) == IF WorksFor(s) = {} THEN NoGoal ELSE s[1]

Suspended(s) == \E g \in WorksFor(s) : goal[g].st # "active" \/ goal[g].closing
ReadOnly(s) == \E g \in WorksFor(s) : goal[g].mode = "readonly"

BeginShell(c, s) ==
    /\ Begins(c, s)
    /\ IF s \in retired \/ (ReadOnly(s) /\ Suspended(s))
       THEN Denied(c)
       ELSE /\ Made(c, s, "running", "shell", {}, IF ReadOnly(s) \/ Unprotected(s) THEN GoalFor(s) ELSE NoGoal, FALSE)
            /\ resv' = resv \cup {c}
            /\ UNCHANGED holders
    /\ UNCHANGED <<goal, retired, waiters, op, awaits, outside, pending, sweep, hist>>

\* Without protection a write is recorded and never compared with the others.
BeginFreeWrite(c, s, f) ==
    /\ Begins(c, s) /\ s \notin retired /\ ~ReadOnly(s) /\ Unprotected(s)
    /\ Made(c, s, "running", "write", {f}, GoalFor(s), FALSE)
    /\ resv' = resv \cup {c}
    /\ UNCHANGED <<goal, retired, holders, waiters, op, awaits, outside, pending, sweep, hist>>

Refused(s, f) ==
    \/ s \in retired \/ op # NoCall \/ Suspended(s)
    \/ s # Owner /\ WorksFor(s) = {}
    \/ \E g \in WorksFor(s) : goal[g].mode = "readonly" \/ f \notin Owns(g)
    \/ \E h \in heldGoals \ WorksFor(s) : f \in Owns(h)

BeginTicketedWrite(c, s, f) ==
    /\ Begins(c, s) /\ ~(s \notin retired /\ ~ReadOnly(s) /\ Unprotected(s))
    /\ IF Refused(s, f) THEN Denied(c) /\ UNCHANGED waiters
       ELSE LET held == Reclaimed(holders) IN
            IF canGrantTicket({f}, held)
            THEN /\ Made(c, s, "running", "write", {f}, GoalFor(s), TRUE)
                 /\ holders' = held \cup {c} /\ resv' = resv \cup {c}
                 /\ UNCHANGED waiters
            ELSE \* queued, and thrown back: the call does not wait
                 /\ Made(c, s, "denied", "write", {f}, GoalFor(s), FALSE)
                 /\ holders' = held /\ waiters' = waiters \cup {c}
                 /\ UNCHANGED resv
    /\ UNCHANGED <<goal, retired, op, awaits, outside, pending, sweep, hist>>

\* External: the executor returns, or throws.
ToolExit(c) ==
    /\ call[c].st = "running" /\ call[c].kind \in {"write", "shell"}
    /\ call' = [call EXCEPT ![c].st = "ended"]
    /\ UNCHANGED <<goal, retired, tables, op, awaits, outside, pending, sweep, hist>>

\* afterWorkspaceTool, and fireFenceAwaits after it.  A waiter keeps its place
\* only with a reservation of its own, which a denied call does not have.
AfterHook(c) ==
    /\ call[c].st = "ended" /\ Over(c, "done")
    /\ IF c \in resv \cup holders \cup waiters
       THEN /\ resv' = resv \ {c} /\ holders' = holders \ {c}
            /\ waiters' = (waiters \ {c}) \cap resv'
            /\ pending' = [pending EXCEPT !.waking = @ \/ awaits # {}]
       ELSE UNCHANGED <<tables, pending>>
    /\ UNCHANGED <<goal, retired, op, awaits, outside, sweep, hist>>

\* External: the hook is not called, or its transaction fails.
HookLost(c) ==
    /\ call[c].st = "ended" /\ Spend("faults", MaxFaults)
    /\ call' = [call EXCEPT ![c].st = "missed"]
    /\ UNCHANGED <<goal, retired, tables, op, awaits, busy, gone, pending, sweep, hist>>
-----------------------------------------------------------------------------
(* withWorkspaceOperation: completion checks, and approved finite commands, *)
(* which read their authority again in the transaction that takes the lock. *)

Authorised(s) == s \notin retired /\ \E g \in WorksFor(s) : goal[g].st = "active" /\ ~goal[g].closing

AskOperation(c, s, kind) ==
    /\ Begins(c, s) /\ \E g \in WorksFor(s) : goal[g].st = "active"
    /\ kind = "approved" => Authorised(s)
    /\ Made(c, s, "asked", kind, {}, GoalFor(s), FALSE)
    /\ UNCHANGED <<goal, retired, tables, op, awaits, outside, pending, sweep, hist>>

Known(s) == s = Owner \/ WorksFor(s) # {}

OperationFree ==
    /\ op = NoCall /\ Reclaimed(holders) = {}
    /\ \A c \in resv : call[c].file = {} /\ ~(Uncontrolled(c) /\ Known(call[c].by))

BeginOperation(c) ==
    /\ call[c].st = "asked"
    /\ IF OperationFree /\ (call[c].kind = "approved" => Authorised(call[c].by))
       THEN /\ call' = [call EXCEPT ![c].st = "running"]
            /\ op' = c /\ holders' = Reclaimed(holders)
       ELSE Over(c, "denied") /\ UNCHANGED <<op, holders>>
    /\ UNCHANGED <<goal, retired, resv, waiters, awaits, outside, pending, sweep, hist>>

\* The finally of withWorkspaceOperation, and fireFenceAwaits after it.
OperationEnd(c) ==
    /\ call[c].st = "running" /\ call[c].kind \in Operations
    /\ Over(c, "done")
    /\ op' = IF op = c THEN NoCall ELSE op
    /\ pending' = [pending EXCEPT !.waking = @ \/ awaits # {}]
    /\ UNCHANGED <<goal, retired, tables, awaits, outside, sweep, hist>>
-----------------------------------------------------------------------------
(* await_quiescence: the worker parks, and whoever drops a fence wakes it;   *)
(* with nobody parked it does nothing.                                       *)

\* requestFenceAwait's read finds the fence taken.
AskPark(g) ==
    /\ goal[g].st = "active" /\ Worker(g) \in busy
    /\ ~isFenceQuiescent /\ g \notin awaits \cup pending.parking /\ Spend("verbs", MaxVerbs)
    /\ pending' = [pending EXCEPT !.parking = @ \cup {g}]
    /\ UNCHANGED <<goal, retired, call, tables, op, awaits, busy, gone, sweep, hist>>

\* Mutant: parked without another look at the fence.
ParkBlind(g) ==
    /\ g \in pending.parking
    /\ pending' = [pending EXCEPT !.parking = @ \ {g}]
    /\ awaits' = awaits \cup {g}
    /\ UNCHANGED <<goal, retired, call, tables, op, outside, hist, sweep>>

\* Its transaction; it then looks again, as fireFenceAwaits.
Park(g) ==
    /\ g \in pending.parking
    /\ pending' = [pending EXCEPT !.parking = @ \ {g}, !.waking = TRUE]
    /\ awaits' = awaits \cup {g}
    /\ UNCHANGED <<goal, retired, call, tables, op, outside, sweep, hist>>

fireFenceAwaits ==
    /\ pending.waking
    /\ pending' = [pending EXCEPT !.waking = FALSE]
    /\ awaits' = IF isFenceQuiescent THEN {} ELSE awaits
    /\ hist' = [hist EXCEPT !.silent = @ /\ ~isFenceQuiescent]
    /\ UNCHANGED <<goal, retired, call, tables, op, outside, sweep>>
-----------------------------------------------------------------------------
(* sweepStaleWorkspaceOwnership: three proofs that calls have ended, each   *)
(* in a transaction of its own, then the sweep.                             *)

SweepAt(from, to) == sweep.at = from /\ sweep' = [sweep EXCEPT !.at = to]

\* releaseTerminalWorkspaceCalls: the transcript may show how a call ended.
TerminalProof(C) ==
    /\ C \subseteq {c \in resv : call[c].st \in {"ended", "missed"}}
    /\ resv' = resv \ C /\ holders' = holders \ C /\ waiters' = waiters \ C
    /\ pending' = [pending EXCEPT !.waking = @ \/ (C # {} /\ awaits # {})]

\* Mutant: a session that has not answered counts as idle.
UnansweredProof ==
    LET idle == {call[c].by : c \in resv' \cup waiters'} \ gone IN
    sweep' = [sweep EXCEPT !.at = "idle", !.idle = idle, !.seen = {c \in resv' : call[c].by \in idle}]

\* reconcileIdleSessionCalls then reads the reservations, and asks the host
\* about their sessions and those of the waiters.
IdleProof ==
    LET idle == {call[c].by : c \in resv' \cup waiters'} \ (busy \cup gone) IN
    sweep' = [sweep EXCEPT !.at = "idle", !.idle = idle, !.seen = {c \in resv' : call[c].by \in idle}]

\* A pass that finds nothing to look at changes nothing, and is left out.
releaseTerminalWorkspaceCalls(C) ==
    /\ sweep.at = "rest"
    /\ sweep.boot \/ resv \cup holders \cup waiters # {} \/ \E g \in Goals : goal[g].closing
    /\ TerminalProof(C) /\ IdleProof
    /\ UNCHANGED <<goal, retired, call, op, awaits, outside, hist>>

\* Its transaction: what was reserved before the proof is released, and a
\* holder without reservation, and every waiter, of a session proved idle.
reconcileIdleSessionCalls ==
    /\ sweep.at = "idle"
    /\ sweep' = [NoProof EXCEPT !.at = "absent", !.boot = sweep.boot]
    /\ resv' = resv \ sweep.seen
    /\ holders' = {c \in holders : call[c].by \in sweep.idle => c \in resv'}
    /\ waiters' = {c \in waiters : call[c].by \notin sweep.idle}
    /\ pending' = [pending EXCEPT !.waking = @ \/ (awaits # {} /\ <<resv', holders', waiters'>> # tables)]
    /\ UNCHANGED <<goal, retired, call, op, awaits, outside, hist>>

Unclosed(reserved) ==
    [g \in Goals |-> [goal[g] EXCEPT !.closing =
        @ /\ ((\E c \in reserved : call[c].goal = g) \/ (op # NoCall /\ call[op].goal = g))]]

\* A goal that exists and is not complete keeps the reservations of its calls.
Orphaned == {c \in resv : call[c].goal = NoGoal \/ goal[call[c].goal].st \in {"gone", "complete"}}
Absent == {call[c].by : c \in Orphaned \cup holders \cup waiters} \cap gone

releaseAbsentSessionWorkspaceCalls ==
    /\ SweepAt("absent", "sweep")
    /\ resv' = resv \ {c \in Orphaned : call[c].by \in Absent}
    /\ holders' = {c \in holders : call[c].by \notin Absent}
    /\ waiters' = {c \in waiters : call[c].by \notin Absent}
    /\ goal' = IF Absent = {} THEN goal ELSE Unclosed(resv')
    /\ pending' = [pending EXCEPT !.waking = @ \/ (awaits # {} /\ <<resv', holders', waiters'>> # tables)]
    /\ UNCHANGED <<retired, call, op, awaits, outside, hist>>

\* sweepStaleWorkspaceState's tickets: reclaim, then promote in turn each
\* waiter that overlaps no holder and no reservation.
SweepTickets(P) ==
    LET held == Reclaimed(holders)
        left == Reclaimed(waiters)
    IN  /\ P \subseteq left
        /\ \A c \in P : canGrantTicket(call[c].file, held \cup (P \ {c}))
        /\ \A c \in left \ P : ~canGrantTicket(call[c].file, held \cup P)
        /\ holders' = held \cup P /\ waiters' = left \ P
        /\ hist' = [hist EXCEPT !.silent = @ \/ (held # holders /\ awaits # {})]

\* The engine's pass takes every worker for live, so no closing flag is reset.
sweepStaleWorkspaceState(P) ==
    /\ ~sweep.boot /\ SweepAt("sweep", "rest")
    /\ IF resv \cup holders \cup waiters # {} \/ \E g \in Goals : goal[g].closing
       THEN SweepTickets(P) ELSE P = {} /\ UNCHANGED <<holders, waiters, hist>>
    /\ UNCHANGED <<goal, retired, call, resv, op, awaits, outside, pending>>

\* reconcile, after a start: the same proofs, then a sweep that resets the flags.
ReconcileSweep(P) ==
    /\ sweep.boot /\ sweep.at = "sweep" /\ sweep' = NoProof
    /\ IF resv # {} \/ \E g \in Goals : goal[g].closing
       THEN SweepTickets(P) /\ goal' = Unclosed(resv)
       ELSE P = {} /\ UNCHANGED <<goal, holders, waiters, hist>>
    /\ UNCHANGED <<retired, call, resv, op, awaits, outside, pending>>
-----------------------------------------------------------------------------
(* What the owner, the worker and the schedule do to a goal.                *)
(* withGoalOperation serialises the owner's verbs on one goal.              *)

Unhurried(g) == g \notin pending.pausing /\ pending.granting[g] = {}

Verb == Spend("verbs", MaxVerbs) /\ UNCHANGED <<busy, gone>>

start(g, k) ==
    /\ goal[g].st = "none" /\ Verb
    /\ goal' = [goal EXCEPT ![g] = [@ EXCEPT !.st = "active", !.mode = k.mode, !.scope = k.scope]]
    /\ \/ k.mode = "readonly"
       \/ /\ op = NoCall
          /\ k.mode = "scoped" => \A c \in resv : ~Uncontrolled(c)
          /\ \A h \in heldGoals : Owns(h) \cap Covers(k.mode, k.scope) = {}
          /\ k.mode = "whole" => resv = {}
          /\ \A c \in resv : call[c].file \cap Covers(k.mode, k.scope) = {}
    /\ UNCHANGED <<retired, call, tables, op, awaits, pending, sweep, hist>>

\* claim_goal_scope, by the worker: one transaction.
claimGoalScope(g, f) ==
    /\ goal[g].st = "active" /\ goal[g].mode = "scoped" /\ Worker(g) \in busy
    /\ f \notin goal[g].scope /\ Verb
    /\ assertScopeAvailable(g, goal[g].scope \cup {f}, goal[g].closing)
    /\ goal' = [goal EXCEPT ![g].scope = @ \cup {f}]
    /\ UNCHANGED <<retired, call, tables, op, awaits, pending, sweep, hist>>

\* grantWriteScope looks for a conflict with the active goals it has read...
AskGrant(g, f) ==
    /\ Unhurried(g) /\ Verb
    /\ goal[g].st = "active" /\ ~goal[g].closing /\ goal[g].mode = "scoped"
    /\ f \notin goal[g].scope
    /\ \A h \in Goals \ {g} : goal[h].st = "active" => f \notin Owns(h)
    /\ pending' = [pending EXCEPT !.granting[g] = {f}]
    /\ UNCHANGED <<goal, retired, call, tables, op, awaits, sweep, hist>>

\* ...and its transaction adds the file without another look.
grantWriteScope(g) ==
    /\ pending.granting[g] # {}
    /\ pending' = [pending EXCEPT !.granting[g] = {}]
    /\ goal' = IF Exists(g) THEN [goal EXCEPT ![g].scope = @ \cup pending.granting[g]] ELSE goal
    /\ hist' = [hist EXCEPT !.granted = @ \cup pending.granting[g]]
    /\ UNCHANGED <<retired, call, tables, op, awaits, outside, sweep>>

\* pause fences a scoped goal first, aborts its worker, then parks it.
PauseClose(g) ==
    /\ goal[g].st = "active" /\ goal[g].mode = "scoped" /\ Unhurried(g) /\ Verb
    /\ goal' = [goal EXCEPT ![g].closing = TRUE]
    /\ retired' = retired \cup {Worker(g)}
    /\ pending' = [pending EXCEPT !.pausing = @ \cup {g}]
    /\ UNCHANGED <<call, tables, op, awaits, sweep, hist>>

Parked(g) == IF Exists(g) THEN [goal EXCEPT ![g].st = "paused", ![g].closing = FALSE] ELSE goal

PausePark(g) ==
    /\ g \in pending.pausing
    /\ goal' = Parked(g)
    /\ pending' = [pending EXCEPT !.pausing = @ \ {g}]
    /\ UNCHANGED <<retired, call, tables, op, awaits, outside, sweep, hist>>

\* Any other goal is parked in one transaction.
pause(g) ==
    /\ goal[g].st = "active" /\ goal[g].mode # "scoped" /\ Unhurried(g) /\ Verb
    /\ goal' = Parked(g)
    /\ UNCHANGED <<retired, call, tables, op, awaits, pending, sweep, hist>>

\* resume and retry: sweep, refuse over the goal's own calls, rotate the
\* worker of a scoped goal, and acquire the scope, all in one transaction.
Rotated(g) == IF goal[g].mode = "scoped" THEN goal[g].n + 1 ELSE goal[g].n

resume(g, P) ==
    /\ goal[g].st = "paused" /\ Unhurried(g) /\ Rotated(g) <= MaxWorkers /\ Verb
    /\ assertScopeAvailable(g, goal[g].scope, FALSE)
    /\ \A c \in resv : call[c].goal # g
    /\ SweepTickets(P)
    /\ goal' = [Unclosed(resv) EXCEPT ![g] = [@ EXCEPT !.st = "active", !.closing = FALSE, !.n = Rotated(g)]]
    /\ retired' = IF goal[g].mode = "scoped" THEN retired \cup {Worker(g)} ELSE retired
    /\ UNCHANGED <<call, resv, op, awaits, pending, sweep>>

\* attachWorker puts another session in the worker's place.  The old one is
\* told to stop; it is marked retired in a copy of the state nobody saves.
attachWorker(g) ==
    /\ Exists(g) /\ goal[g].st # "complete" /\ Unhurried(g) /\ goal[g].n < MaxWorkers /\ Verb
    /\ goal' = [goal EXCEPT ![g].n = @ + 1]
    /\ UNCHANGED <<retired, call, tables, op, awaits, pending, sweep, hist>>

\* clear ends the goal at once and leaves the reservations of its calls.
clear(g) ==
    /\ Exists(g) /\ Unhurried(g) /\ Verb
    /\ goal' = [goal EXCEPT ![g].st = "gone", ![g].closing = FALSE]
    /\ retired' = retired \cup {Worker(g)}
    /\ UNCHANGED <<call, tables, op, awaits, pending, sweep, hist>>

\* complete_goal once its checks have passed, or the owner's force_complete,
\* which does not wait for other operations on the goal.
complete(g) ==
    /\ goal[g].st = "active" /\ Verb
    /\ goal' = [goal EXCEPT ![g].st = "complete"]
    /\ UNCHANGED <<retired, call, tables, op, awaits, pending, sweep, hist>>

\* schedule-worker.ts: tick, which resurrects a complete goal.
tick(g) ==
    /\ goal[g].st = "complete" /\ Rotated(g) <= MaxWorkers /\ Verb
    /\ assertScopeAvailable(g, goal[g].scope, goal[g].closing)
    /\ goal' = [goal EXCEPT ![g].st = "active", ![g].n = Rotated(g)]
    /\ retired' = IF goal[g].mode = "scoped" THEN retired \cup {Worker(g)} ELSE retired
    /\ UNCHANGED <<call, tables, op, awaits, pending, sweep, hist>>

\* releaseWorkspace: the owner declares calls dead.  Not those of a session
\* that still works for a goal; the tickets stay, and nobody is woken.
releasable(c) ==
    /\ call[c].by = Owner \/ call[c].goal # NoGoal
    /\ \A g \in WorksFor(call[c].by) : goal[g].st = "complete"

releaseWorkspace(C) ==
    /\ op = NoCall /\ Verb
    /\ C # {} /\ C \subseteq {c \in resv : releasable(c)}
    /\ resv' = resv \ C
    /\ goal' = Unclosed(resv')
    /\ hist' = [hist EXCEPT !.released = @ \cup C, !.silent = @ \/ awaits # {}]
    /\ UNCHANGED <<retired, call, holders, waiters, op, awaits, pending, sweep>>

\* The host process ends, and the tools with it; another one starts.  With
\* nothing going on this loses nothing.
InFlight ==
    \/ \E c \in Calls : call[c].st \in {"asked", "running", "ended"}
    \/ pending # Idle \/ sweep # NoProof

Crash ==
    /\ InFlight /\ Spend("faults", MaxFaults)
    /\ call' = [c \in Calls |-> [call[c] EXCEPT !.st = IF @ \in {"asked", "running", "ended"} THEN "missed" ELSE @]]
    /\ busy' = {}
    /\ pending' = Idle
    /\ sweep' = [NoProof EXCEPT !.boot = TRUE]
    /\ hist' = [hist EXCEPT !.silent = @ \/ pending.waking]
    /\ UNCHANGED <<goal, retired, tables, op, awaits, gone>>
-----------------------------------------------------------------------------
Turns == \E s \in Sessions : TurnStart(s) \/ TurnEnd(s) \/ SessionGone(s)
Tools ==
    \/ \E c \in Calls, s \in Sessions :
          \/ BeginShell(c, s)
          \/ \E f \in Files : BeginFreeWrite(c, s, f) \/ BeginTicketedWrite(c, s, f)
          \/ \E kind \in Operations : AskOperation(c, s, kind)
    \/ \E c \in Calls : ToolExit(c) \/ AfterHook(c) \/ HookLost(c) \/ BeginOperation(c) \/ OperationEnd(c)
Parking == fireFenceAwaits \/ \E g \in Goals : AskPark(g) \/ Park(g)
Maintenance ==
    \/ reconcileIdleSessionCalls \/ releaseAbsentSessionWorkspaceCalls
    \/ \E C \in SUBSET Calls : releaseTerminalWorkspaceCalls(C) \/ sweepStaleWorkspaceState(C) \/ ReconcileSweep(C)
Lifecycle ==
    \/ \E g \in Goals :
          \/ grantWriteScope(g) \/ PauseClose(g) \/ PausePark(g) \/ pause(g) \/ attachWorker(g) \/ clear(g) \/ complete(g) \/ tick(g)
          \/ \E k \in Contracts : start(g, k)
          \/ \E f \in Files : claimGoalScope(g, f) \/ AskGrant(g, f)
          \/ \E P \in SUBSET Calls : resume(g, P)
    \/ \E C \in SUBSET Calls : releaseWorkspace(C)

Next == Turns \/ Tools \/ Parking \/ Maintenance \/ Lifecycle \/ Crash
Spec == Init /\ [][Next]_vars
-----------------------------------------------------------------------------
Writes(c) == call[c].st = "running" /\ call[c].kind \in {"write", "shell"}

Statuses == {"none", "active", "paused", "complete", "gone"}
CallStates == {"new", "asked", "running", "ended", "missed", "done", "denied"}
GoalRecords == [st : Statuses, mode : Modes, scope : SUBSET Files, closing : BOOLEAN, n : 1 .. MaxWorkers]
CallRecords == [st : CallStates, by : Sessions, kind : Kinds, file : SUBSET Files, goal : Goals \cup {NoGoal}, ticket : BOOLEAN]
PendingRecords == [pausing : SUBSET Goals, parking : SUBSET Goals, granting : [Goals -> SUBSET Files], waking : BOOLEAN]
SweepRecords == [at : {"rest", "idle", "absent", "sweep"}, boot : BOOLEAN, idle : SUBSET Sessions, seen : SUBSET Calls]
BoundRecords == [turns : 0 .. MaxTurns, verbs : 0 .. MaxVerbs, faults : 0 .. MaxFaults]
HistRecords == [released : SUBSET Calls, granted : SUBSET Files, silent : BOOLEAN]

TypeOK ==
    /\ goal \in [Goals -> GoalRecords]
    /\ call \in [Calls -> CallRecords]
    /\ retired \in SUBSET Workers
    /\ resv \in SUBSET Calls /\ holders \in SUBSET Calls /\ waiters \in SUBSET Calls
    /\ op \in Calls \cup {NoCall} /\ awaits \in SUBSET Goals
    /\ busy \in SUBSET Sessions /\ gone \in SUBSET Workers
    /\ pending \in PendingRecords
    /\ sweep \in SweepRecords
    /\ bound \in BoundRecords
    /\ hist \in HistRecords

(* Every tool that may be writing has its reservation, unless the owner     *)
(* gave it up by hand.  No proof of an end, no sweep and no lifecycle step  *)
(* may take it from an executing call; activations and checks trust it.     *)
FenceHeld == \A c \in Calls : Writes(c) => c \in resv \cup hist.released

(* Two calls admitted with a ticket never write one file at once.  Tickets  *)
(* are reclaimed from goals that ended while their tools still run, and     *)
(* several passes grant them: the reservation alone must keep them apart.   *)
TicketsExclude ==
    \A c, d \in Calls \ hist.released :
        c # d /\ call[c].ticket /\ call[d].ticket /\ Writes(c) /\ Writes(d) => ~Overlap(c, d)

(* A scoped goal that may write shares no file with another goal that may,  *)
(* unless the owner granted it: grantWriteScope alone adds a file without   *)
(* looking again.  A goal held by nothing but its late checks writes        *)
(* nothing; goals without scope are not kept from each other.               *)
MayWrite(g) == Exists(g) /\ (goal[g].st = "active" \/ goal[g].closing \/ \E c \in resv : call[c].goal = g)
OneOwnerPerFile ==
    \A g, h \in Goals :
        g # h /\ goal[g].mode = "scoped" /\ MayWrite(g) /\ MayWrite(h) => Owns(g) \cap Owns(h) \subseteq hist.granted

(* A scoped goal becomes active only over a quiet workspace: no shell runs  *)
(* in any session, and nothing writes its files.  start, resume and the     *)
(* schedule look at reservations only; this is about what executes.         *)
QuietActivation ==
    [][\A g \in Goals : goal[g].st # "active" /\ goal'[g].st = "active" /\ goal'[g].mode = "scoped" =>
         \A c \in Calls \ hist.released : Writes(c) =>
             call[c].kind = "write" /\ call[c].file \cap goal'[g].scope = {}]_vars

(* A goal parked on the fence is woken once the fence is down, when the     *)
(* step that dropped it wakes the parked: the read of a request that is     *)
(* about to park must not slip past it.  Some steps drop it silently.       *)
ParkedWakes == awaits # {} /\ isFenceQuiescent /\ ~hist.silent => pending.waking
=============================================================================
