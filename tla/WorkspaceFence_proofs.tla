------------------------ MODULE WorkspaceFence_proofs ------------------------
(***************************************************************************)
(* Theorems about the workspace fences, for any goals, files, calls,        *)
(* contracts and bounds.                                                    *)
(*                                                                         *)
(* FenceInv carries the reservations: FenceHeld, and why no proof of an end *)
(* is wrong about an executing call.  On it rest the tickets, the           *)
(* activations, and what a goal owns.  ParkedWakes needs only to see that   *)
(* a fence is quiet when operation, holders and reservations are gone.      *)
(***************************************************************************)
EXTENDS WorkspaceFence, TLAPS

LEMMA WorkerType ==
    ASSUME TypeOK, NEW g \in Goals
    PROVE  Worker(g) \in Workers
BY DEF TypeOK, GoalRecords, Worker, Workers

LEMMA GoalForType ==
    ASSUME TypeOK, NEW s \in Sessions
    PROVE  GoalFor(s) \in Goals \cup {NoGoal}
BY DEF GoalFor, WorksFor, Worker

LEMMA GoalForWorks ==
    ASSUME NEW s \in Sessions, NEW g \in Goals
    PROVE  /\ GoalFor(s) = g => s = Worker(g) /\ Exists(g)
           /\ s = Worker(g) /\ Exists(g) => GoalFor(s) = g
BY NoGoalAssumption DEF GoalFor, WorksFor, Worker

LEMMA Records ==
    /\ Unmade \in CallRecords
    /\ NoProof \in SweepRecords
    /\ Idle \in PendingRecords
    /\ [NoProof EXCEPT !.boot = TRUE] \in SweepRecords
<1>1. Unmade \in CallRecords
  BY DEF Unmade, CallRecords, CallStates, Sessions, Kinds
<1>2. NoProof \in SweepRecords
  BY DEF NoProof, SweepRecords
<1>3. Idle \in PendingRecords
  BY DEF Idle, PendingRecords
<1>4. [NoProof EXCEPT !.boot = TRUE] \in SweepRecords
  BY DEF NoProof, SweepRecords
<1> QED
  BY <1>1, <1>2, <1>3, <1>4

LEMMA InitType == Init => TypeOK
<1> SUFFICES ASSUME Init PROVE TypeOK
  OBVIOUS
<1>1. goal \in [Goals -> GoalRecords]
  BY BoundsAssumption DEF Init, GoalRecords, Statuses, Modes
<1>2. call \in [Calls -> CallRecords]
  BY Records DEF Init
<1>3. bound \in BoundRecords /\ hist \in HistRecords
  BY BoundsAssumption DEF Init, BoundRecords, HistRecords
<1> QED
  BY <1>1, <1>2, <1>3, Records DEF Init, TypeOK

LEMMA SpendType ==
    ASSUME bound \in BoundRecords,
           Spend("turns", MaxTurns) \/ Spend("verbs", MaxVerbs) \/ Spend("faults", MaxFaults)
    PROVE  bound' \in BoundRecords
BY BoundsAssumption DEF Spend, BoundRecords

LEMMA MadeType ==
    ASSUME TypeOK, NEW c \in Calls, NEW s \in Sessions, NEW st \in CallStates, NEW kind \in Kinds,
           NEW file \in SUBSET Files, NEW ticket \in BOOLEAN, Made(c, s, st, kind, file, GoalFor(s), ticket)
    PROVE  call' \in [Calls -> CallRecords]
<1>1. GoalFor(s) \in Goals \cup {NoGoal}
  BY GoalForType
<1> QED
  BY <1>1 DEF Made, TypeOK, CallRecords

LEMMA OverType ==
    ASSUME TypeOK, NEW c \in Calls, NEW st \in CallStates, Over(c, st)
    PROVE  call' \in [Calls -> CallRecords]
<1>1. [Unmade EXCEPT !.st = st] \in CallRecords
  BY Records, Zenon DEF CallRecords
<1> QED
  BY <1>1 DEF Over, TypeOK

LEMMA CallFieldType ==
    ASSUME NEW r \in CallRecords, NEW st \in CallStates
    PROVE  [r EXCEPT !.st = st] \in CallRecords
BY Zenon DEF CallRecords

LEMMA GoalFieldType ==
    ASSUME NEW r \in GoalRecords
    PROVE  /\ \A x \in Statuses : [r EXCEPT !.st = x] \in GoalRecords
           /\ \A x \in BOOLEAN : [r EXCEPT !.closing = x] \in GoalRecords
           /\ \A x \in SUBSET Files : [r EXCEPT !.scope = x] \in GoalRecords
           /\ \A x \in 1 .. MaxWorkers : [r EXCEPT !.n = x] \in GoalRecords
<1>1. \A x \in Statuses : [r EXCEPT !.st = x] \in GoalRecords
  BY Zenon DEF GoalRecords
<1>2. \A x \in BOOLEAN : [r EXCEPT !.closing = x] \in GoalRecords
  BY Zenon DEF GoalRecords
<1>3. \A x \in SUBSET Files : [r EXCEPT !.scope = x] \in GoalRecords
  BY Zenon DEF GoalRecords
<1>4. \A x \in 1 .. MaxWorkers : [r EXCEPT !.n = x] \in GoalRecords
  BY Zenon DEF GoalRecords
<1> QED
  BY <1>1, <1>2, <1>3, <1>4

LEMMA WakingType ==
    ASSUME pending \in PendingRecords, NEW b \in BOOLEAN
    PROVE  [pending EXCEPT !.waking = b] \in PendingRecords
BY Zenon DEF PendingRecords

LEMMA RotatedType ==
    ASSUME TypeOK, NEW g \in Goals, Rotated(g) <= MaxWorkers
    PROVE  Rotated(g) \in 1 .. MaxWorkers
BY BoundsAssumption DEF TypeOK, GoalRecords, Rotated

LEMMA UnclosedType ==
    ASSUME TypeOK, NEW R
    PROVE  Unclosed(R) \in [Goals -> GoalRecords]
<1>1. \A g \in Goals : goal[g] \in GoalRecords
  BY DEF TypeOK
<1> QED
  BY <1>1, Zenon DEF Unclosed, GoalRecords

LEMMA SweepTicketsType ==
    ASSUME TypeOK, NEW P \in SUBSET Calls, SweepTickets(P)
    PROVE  holders' \in SUBSET Calls /\ waiters' \in SUBSET Calls /\ hist' \in HistRecords
<1>1. holders' \in SUBSET Calls /\ waiters' \in SUBSET Calls
  BY DEF SweepTickets, TypeOK, Reclaimed
<1>2. hist' \in HistRecords
  BY Zenon DEF SweepTickets, TypeOK, HistRecords
<1> QED
  BY <1>1, <1>2

LEMMA TypeTurns ==
    ASSUME TypeOK, Turns
    PROVE  TypeOK'
<1>1. ASSUME NEW s \in Sessions, TurnStart(s) PROVE TypeOK'
  <2>1. bound' \in BoundRecords
    BY <1>1, SpendType DEF TurnStart, TypeOK, tables, outside
  <2> QED
    BY <1>1, <2>1 DEF TurnStart, tables, outside, TypeOK
<1>2. ASSUME NEW s \in Sessions, TurnEnd(s) PROVE TypeOK'
  BY <1>2 DEF TurnEnd, tables, outside, TypeOK
<1>3. ASSUME NEW s \in Sessions, SessionGone(s) PROVE TypeOK'
  <2>1. bound' \in BoundRecords
    BY <1>3, SpendType DEF SessionGone, TypeOK, tables, outside
  <2> QED
    BY <1>3, <2>1 DEF SessionGone, tables, outside, TypeOK
<1> QED
  BY <1>1, <1>2, <1>3 DEF Turns

LEMMA TypeTools ==
    ASSUME TypeOK, Tools
    PROVE  TypeOK'
<1>1. ASSUME NEW c \in Calls, NEW s \in Sessions, BeginShell(c, s) PROVE TypeOK'
  <2>1. call' \in [Calls -> CallRecords]
    <3>1. CASE Denied(c)
      BY <3>1, OverType DEF Denied, CallStates
    <3>2. CASE ~Denied(c)
      <4>1. Made(c, s, "running", "shell", {}, GoalFor(s), FALSE) \/ Made(c, s, "running", "shell", {}, NoGoal, FALSE)
        BY <1>1, <3>2 DEF BeginShell
      <4>2. CASE Made(c, s, "running", "shell", {}, GoalFor(s), FALSE)
        BY <4>2, MadeType DEF CallStates, Kinds
      <4>3. CASE Made(c, s, "running", "shell", {}, NoGoal, FALSE)
        BY <4>3 DEF Made, TypeOK, CallRecords, CallStates, Kinds
      <4> QED
        BY <4>1, <4>2, <4>3
    <3> QED
      BY <3>1, <3>2
  <2> QED
    BY <1>1, <2>1 DEF BeginShell, Denied, tables, outside, TypeOK
<1>2. ASSUME NEW c \in Calls, NEW s \in Sessions, NEW f \in Files, BeginFreeWrite(c, s, f) PROVE TypeOK'
  <2>1. call' \in [Calls -> CallRecords]
    BY <1>2, MadeType DEF BeginFreeWrite, Kinds, CallStates, tables, outside
  <2> QED
    BY <1>2, <2>1 DEF BeginFreeWrite, tables, outside, TypeOK
<1>3. ASSUME NEW c \in Calls, NEW s \in Sessions, NEW f \in Files, BeginTicketedWrite(c, s, f) PROVE TypeOK'
  <2>1. call' \in [Calls -> CallRecords]
    BY <1>3, MadeType, OverType DEF BeginTicketedWrite, Kinds, CallStates, Denied, tables, outside
  <2>2. resv' \in SUBSET Calls /\ holders' \in SUBSET Calls /\ waiters' \in SUBSET Calls
    BY <1>3 DEF BeginTicketedWrite, Denied, Reclaimed, TypeOK, tables, outside
  <2> QED
    BY <1>3, <2>1, <2>2 DEF BeginTicketedWrite, tables, outside, TypeOK
<1>4. ASSUME NEW c \in Calls, NEW s \in Sessions, NEW kind \in Operations, AskOperation(c, s, kind) PROVE TypeOK'
  <2>1. call' \in [Calls -> CallRecords]
    BY <1>4, MadeType DEF AskOperation, Kinds, CallStates, tables, outside
  <2> QED
    BY <1>4, <2>1 DEF AskOperation, tables, outside, TypeOK
<1>5. ASSUME NEW c \in Calls, ToolExit(c) PROVE TypeOK'
  <2>1. call' \in [Calls -> CallRecords]
    BY <1>5, CallFieldType DEF ToolExit, CallStates, TypeOK, tables, outside
  <2> QED
    BY <1>5, <2>1 DEF ToolExit, tables, outside, TypeOK
<1>6. ASSUME NEW c \in Calls, AfterHook(c) PROVE TypeOK'
  <2>1. call' \in [Calls -> CallRecords]
    BY <1>6, OverType DEF AfterHook, CallStates, tables, outside
  <2>2. pending' \in PendingRecords
    BY <1>6, WakingType DEF AfterHook, TypeOK, tables, outside
  <2> QED
    BY <1>6, <2>1, <2>2 DEF AfterHook, tables, outside, TypeOK
<1>7. ASSUME NEW c \in Calls, HookLost(c) PROVE TypeOK'
  <2>1. call' \in [Calls -> CallRecords]
    BY <1>7, CallFieldType DEF HookLost, CallStates, TypeOK, tables, outside
  <2>2. bound' \in BoundRecords
    BY <1>7, SpendType DEF HookLost, TypeOK, tables, outside
  <2> QED
    BY <1>7, <2>1, <2>2 DEF HookLost, tables, outside, TypeOK
<1>8. ASSUME NEW c \in Calls, BeginOperation(c) PROVE TypeOK'
  <2>1. call' \in [Calls -> CallRecords]
    <3>1. CASE Over(c, "denied")
      BY <3>1, OverType DEF CallStates
    <3>2. CASE call' = [call EXCEPT ![c].st = "running"]
      BY <3>2, CallFieldType DEF CallStates, TypeOK
    <3> QED
      BY <1>8, <3>1, <3>2 DEF BeginOperation
  <2>2. holders' \in SUBSET Calls
    BY <1>8 DEF BeginOperation, TypeOK, Reclaimed, tables, outside
  <2> QED
    BY <1>8, <2>1, <2>2 DEF BeginOperation, tables, outside, TypeOK
<1>9. ASSUME NEW c \in Calls, OperationEnd(c) PROVE TypeOK'
  <2>1. call' \in [Calls -> CallRecords]
    BY <1>9, OverType DEF OperationEnd, CallStates, tables, outside
  <2>2. pending' \in PendingRecords
    BY <1>9, WakingType DEF OperationEnd, TypeOK, tables, outside
  <2> QED
    BY <1>9, <2>1, <2>2 DEF OperationEnd, tables, outside, TypeOK
<1> QED
  BY <1>1, <1>2, <1>3, <1>4, <1>5, <1>6, <1>7, <1>8, <1>9 DEF Tools

LEMMA TypeParking ==
    ASSUME TypeOK, Parking
    PROVE  TypeOK'
<1>1. ASSUME fireFenceAwaits PROVE TypeOK'
  <2>1. pending' \in PendingRecords
    BY <1>1, WakingType DEF fireFenceAwaits, TypeOK, tables, outside
  <2>2. hist' \in HistRecords
    BY <1>1 DEF fireFenceAwaits, TypeOK, HistRecords, tables, outside
  <2> QED
    BY <1>1, <2>1, <2>2 DEF fireFenceAwaits, tables, outside, TypeOK
<1>2. ASSUME NEW g \in Goals, AskPark(g) PROVE TypeOK'
  <2>1. pending' \in PendingRecords
    BY <1>2 DEF AskPark, TypeOK, PendingRecords, tables, outside
  <2>2. bound' \in BoundRecords
    BY <1>2, SpendType DEF AskPark, TypeOK, tables, outside
  <2> QED
    BY <1>2, <2>1, <2>2 DEF AskPark, tables, outside, TypeOK
<1>3. ASSUME NEW g \in Goals, Park(g) PROVE TypeOK'
  <2>1. pending' \in PendingRecords
    BY <1>3 DEF Park, TypeOK, PendingRecords, tables, outside
  <2> QED
    BY <1>3, <2>1 DEF Park, tables, outside, TypeOK
<1> QED
  BY <1>1, <1>2, <1>3 DEF Parking

LEMMA TypeMaintenance ==
    ASSUME TypeOK, Maintenance
    PROVE  TypeOK'
<1>1. ASSUME reconcileIdleSessionCalls PROVE TypeOK'
  <2>1. pending' \in PendingRecords
    BY <1>1, WakingType DEF reconcileIdleSessionCalls, TypeOK, tables, outside
  <2>2. sweep' \in SweepRecords
    BY <1>1 DEF reconcileIdleSessionCalls, NoProof, TypeOK, SweepRecords, tables, outside
  <2> QED
    BY <1>1, <2>1, <2>2 DEF reconcileIdleSessionCalls, tables, outside, TypeOK
<1>2. ASSUME releaseAbsentSessionWorkspaceCalls PROVE TypeOK'
  <2>1. pending' \in PendingRecords
    BY <1>2, WakingType DEF releaseAbsentSessionWorkspaceCalls, TypeOK, tables, outside
  <2>2. sweep' \in SweepRecords
    BY <1>2 DEF releaseAbsentSessionWorkspaceCalls, SweepAt, TypeOK, SweepRecords, tables, outside
  <2>3. goal' \in [Goals -> GoalRecords]
    BY <1>2, UnclosedType DEF releaseAbsentSessionWorkspaceCalls, TypeOK, tables, outside
  <2> QED
    BY <1>2, <2>1, <2>2, <2>3 DEF releaseAbsentSessionWorkspaceCalls, tables, outside, TypeOK
<1>3. ASSUME NEW C \in SUBSET Calls, releaseTerminalWorkspaceCalls(C) PROVE TypeOK'
  <2>1. pending' \in PendingRecords
    BY <1>3, WakingType DEF releaseTerminalWorkspaceCalls, TypeOK, TerminalProof, tables, outside
  <2>2. resv' \in SUBSET Calls /\ holders' \in SUBSET Calls /\ waiters' \in SUBSET Calls
    BY <1>3 DEF releaseTerminalWorkspaceCalls, TerminalProof, TypeOK, tables, outside
  <2>3. sweep' \in SweepRecords
    <3>1. PICK idle : /\ idle = {call[c].by : c \in resv' \cup waiters'} \ (busy \cup gone)
                       /\ sweep' = [sweep EXCEPT !.at = "idle", !.idle = idle, !.seen = {c \in resv' : call[c].by \in idle}]
      BY <1>3, Zenon DEF releaseTerminalWorkspaceCalls, IdleProof
    <3>2. \A c \in Calls : call[c].by \in Sessions
      BY DEF TypeOK, CallRecords
    <3>3. resv' \cup waiters' \in SUBSET Calls
      BY <2>2
    <3>4. idle \in SUBSET Sessions
      BY <3>1, <3>2, <3>3
    <3>5. {c \in resv' : call[c].by \in idle} \in SUBSET Calls
      BY <2>2
    <3> QED
      BY <3>1, <3>4, <3>5 DEF TypeOK, SweepRecords
  <2> QED
    BY <1>3, <2>1, <2>2, <2>3 DEF releaseTerminalWorkspaceCalls, tables, outside, TypeOK
<1>4. ASSUME NEW C \in SUBSET Calls, sweepStaleWorkspaceState(C) PROVE TypeOK'
  <2>1. sweep' \in SweepRecords
    BY <1>4 DEF sweepStaleWorkspaceState, SweepAt, TypeOK, SweepRecords, tables, outside
  <2>2. resv' \in SUBSET Calls /\ holders' \in SUBSET Calls /\ waiters' \in SUBSET Calls /\ hist' \in HistRecords
    BY <1>4, SweepTicketsType DEF sweepStaleWorkspaceState, TypeOK, tables, outside
  <2> QED
    BY <1>4, <2>1, <2>2 DEF sweepStaleWorkspaceState, tables, outside, TypeOK
<1>5. ASSUME NEW C \in SUBSET Calls, ReconcileSweep(C) PROVE TypeOK'
  <2>1. sweep' \in SweepRecords
    BY <1>5, Records DEF ReconcileSweep, tables, outside
  <2>2. resv' \in SUBSET Calls /\ holders' \in SUBSET Calls /\ waiters' \in SUBSET Calls /\ hist' \in HistRecords
    BY <1>5, SweepTicketsType DEF ReconcileSweep, TypeOK, tables, outside
  <2>3. goal' \in [Goals -> GoalRecords]
    BY <1>5, UnclosedType DEF ReconcileSweep, TypeOK, tables, outside
  <2> QED
    BY <1>5, <2>1, <2>2, <2>3 DEF ReconcileSweep, tables, outside, TypeOK
<1> QED
  BY <1>1, <1>2, <1>3, <1>4, <1>5 DEF Maintenance

LEMMA TypeLifecycle ==
    ASSUME TypeOK, Lifecycle
    PROVE  TypeOK'
<1>1. ASSUME NEW g \in Goals, grantWriteScope(g) PROVE TypeOK'
  <2>1. pending' \in PendingRecords
    BY <1>1 DEF grantWriteScope, TypeOK, PendingRecords, tables, outside
  <2>2. hist' \in HistRecords
    BY <1>1 DEF grantWriteScope, TypeOK, HistRecords, PendingRecords, tables, outside
  <2>3. goal' \in [Goals -> GoalRecords]
    <3>1. goal[g] \in GoalRecords /\ goal[g].scope \cup pending.granting[g] \in SUBSET Files
      BY DEF TypeOK, GoalRecords, PendingRecords
    <3>2. [goal[g] EXCEPT !.scope = goal[g].scope \cup pending.granting[g]] \in GoalRecords
      BY <3>1, GoalFieldType
    <3> QED
      BY <1>1, <3>2 DEF grantWriteScope, TypeOK
  <2> QED
    BY <1>1, <2>1, <2>2, <2>3 DEF grantWriteScope, tables, outside, TypeOK
<1>2. ASSUME NEW g \in Goals, PauseClose(g) PROVE TypeOK'
  <2>1. pending' \in PendingRecords
    BY <1>2 DEF PauseClose, TypeOK, PendingRecords, tables, outside
  <2>2. bound' \in BoundRecords
    BY <1>2, SpendType DEF PauseClose, TypeOK, Verb, tables, outside
  <2>3. goal' \in [Goals -> GoalRecords]
    BY <1>2, GoalFieldType DEF PauseClose, TypeOK, tables, outside
  <2> QED
    BY <1>2, <2>1, <2>2, <2>3, WorkerType DEF PauseClose, tables, outside, TypeOK, Verb
<1>3. ASSUME NEW g \in Goals, PausePark(g) PROVE TypeOK'
  <2>1. pending' \in PendingRecords
    BY <1>3 DEF PausePark, TypeOK, PendingRecords, tables, outside
  <2>2. goal' \in [Goals -> GoalRecords]
    BY <1>3, GoalFieldType DEF PausePark, TypeOK, Parked, Statuses, tables, outside
  <2> QED
    BY <1>3, <2>1, <2>2 DEF PausePark, tables, outside, TypeOK
<1>4. ASSUME NEW g \in Goals, pause(g) PROVE TypeOK'
  <2>1. bound' \in BoundRecords
    BY <1>4, SpendType DEF pause, TypeOK, Verb, tables, outside
  <2>2. goal' \in [Goals -> GoalRecords]
    BY <1>4, GoalFieldType DEF pause, TypeOK, Parked, Statuses, tables, outside
  <2> QED
    BY <1>4, <2>1, <2>2 DEF pause, tables, outside, TypeOK, Verb
<1>5. ASSUME NEW g \in Goals, attachWorker(g) PROVE TypeOK'
  <2>1. bound' \in BoundRecords
    BY <1>5, SpendType DEF attachWorker, TypeOK, Verb, tables, outside
  <2>2. goal' \in [Goals -> GoalRecords]
    <3>1. goal[g] \in GoalRecords /\ goal[g].n + 1 \in 1 .. MaxWorkers
      BY <1>5, BoundsAssumption DEF attachWorker, TypeOK, GoalRecords
    <3>2. [goal[g] EXCEPT !.n = goal[g].n + 1] \in GoalRecords
      BY <3>1, GoalFieldType
    <3> QED
      BY <1>5, <3>2 DEF attachWorker, TypeOK
  <2> QED
    BY <1>5, <2>1, <2>2 DEF attachWorker, tables, outside, TypeOK, Verb
<1>6. ASSUME NEW g \in Goals, clear(g) PROVE TypeOK'
  <2>1. bound' \in BoundRecords
    BY <1>6, SpendType DEF clear, TypeOK, Verb, tables, outside
  <2>2. goal' \in [Goals -> GoalRecords]
    BY <1>6, GoalFieldType DEF clear, TypeOK, Statuses, tables, outside
  <2> QED
    BY <1>6, <2>1, <2>2, WorkerType DEF clear, tables, outside, TypeOK, Verb
<1>7. ASSUME NEW g \in Goals, complete(g) PROVE TypeOK'
  <2>1. bound' \in BoundRecords
    BY <1>7, SpendType DEF complete, TypeOK, Verb, tables, outside
  <2>2. goal' \in [Goals -> GoalRecords]
    BY <1>7, GoalFieldType DEF complete, TypeOK, Statuses, tables, outside
  <2> QED
    BY <1>7, <2>1, <2>2 DEF complete, tables, outside, TypeOK, Verb
<1>8. ASSUME NEW g \in Goals, tick(g) PROVE TypeOK'
  <2>1. bound' \in BoundRecords
    BY <1>8, SpendType DEF tick, TypeOK, Verb, tables, outside
  <2>2. goal' \in [Goals -> GoalRecords]
    <3>1. goal[g] \in GoalRecords /\ Rotated(g) \in 1 .. MaxWorkers
      BY <1>8, RotatedType DEF tick, TypeOK
    <3>2. [goal[g] EXCEPT !.st = "active"] \in GoalRecords
      BY <3>1, GoalFieldType DEF Statuses
    <3>3. [[goal[g] EXCEPT !.st = "active"] EXCEPT !.n = Rotated(g)] \in GoalRecords
      BY <3>1, <3>2, GoalFieldType
    <3> QED
      BY <1>8, <3>3 DEF tick, TypeOK
  <2> QED
    BY <1>8, <2>1, <2>2, WorkerType DEF tick, tables, outside, TypeOK, Verb
<1>9. ASSUME NEW g \in Goals, NEW k \in Contracts, start(g, k) PROVE TypeOK'
  <2>1. bound' \in BoundRecords
    BY <1>9, SpendType DEF start, TypeOK, Verb, tables, outside
  <2>2. goal' \in [Goals -> GoalRecords]
    BY <1>9, ContractsAssumption DEF start, TypeOK, GoalRecords, Statuses, tables, outside
  <2> QED
    BY <1>9, <2>1, <2>2 DEF start, tables, outside, TypeOK, Verb
<1>10. ASSUME NEW g \in Goals, NEW f \in Files, claimGoalScope(g, f) PROVE TypeOK'
  <2>1. bound' \in BoundRecords
    BY <1>10, SpendType DEF claimGoalScope, TypeOK, Verb, tables, outside
  <2>2. goal' \in [Goals -> GoalRecords]
    BY <1>10, GoalFieldType DEF claimGoalScope, TypeOK, GoalRecords, tables, outside
  <2> QED
    BY <1>10, <2>1, <2>2 DEF claimGoalScope, tables, outside, TypeOK, Verb
<1>11. ASSUME NEW g \in Goals, NEW f \in Files, AskGrant(g, f) PROVE TypeOK'
  <2>1. bound' \in BoundRecords
    BY <1>11, SpendType DEF AskGrant, TypeOK, Verb, tables, outside
  <2>2. pending' \in PendingRecords
    BY <1>11 DEF AskGrant, TypeOK, PendingRecords, tables, outside
  <2> QED
    BY <1>11, <2>1, <2>2 DEF AskGrant, tables, outside, TypeOK, Verb
<1>12. ASSUME NEW g \in Goals, NEW P \in SUBSET Calls, resume(g, P) PROVE TypeOK'
  <2>1. bound' \in BoundRecords
    BY <1>12, SpendType DEF resume, TypeOK, Verb, tables, outside
  <2>2. resv' \in SUBSET Calls /\ holders' \in SUBSET Calls /\ waiters' \in SUBSET Calls /\ hist' \in HistRecords
    BY <1>12, SweepTicketsType DEF resume, TypeOK, tables, outside
  <2>3. goal' \in [Goals -> GoalRecords]
    <3>1. PICK u \in [Goals -> GoalRecords] :
            goal' = [u EXCEPT ![g] = [@ EXCEPT !.st = "active", !.closing = FALSE, !.n = Rotated(g)]]
      BY <1>12, UnclosedType DEF resume
    <3>2. Rotated(g) \in 1 .. MaxWorkers
      BY <1>12, RotatedType DEF resume
    <3>3. [u[g] EXCEPT !.st = "active"] \in GoalRecords
      BY GoalFieldType DEF Statuses
    <3>4. [[u[g] EXCEPT !.st = "active"] EXCEPT !.closing = FALSE] \in GoalRecords
      BY <3>3, GoalFieldType
    <3>5. [[[u[g] EXCEPT !.st = "active"] EXCEPT !.closing = FALSE] EXCEPT !.n = Rotated(g)] \in GoalRecords
      BY <3>2, <3>4, GoalFieldType
    <3>6. [[[u[g] EXCEPT !.st = "active"] EXCEPT !.closing = FALSE] EXCEPT !.n = Rotated(g)]
            = [u[g] EXCEPT !.st = "active", !.closing = FALSE, !.n = Rotated(g)]
      OBVIOUS
    <3> QED
      BY <3>1, <3>5, <3>6
  <2> QED
    BY <1>12, <2>1, <2>2, <2>3, WorkerType DEF resume, tables, outside, TypeOK, Verb
<1>13. ASSUME NEW C \in SUBSET Calls, releaseWorkspace(C) PROVE TypeOK'
  <2>1. bound' \in BoundRecords
    BY <1>13, SpendType DEF releaseWorkspace, TypeOK, Verb, tables, outside
  <2>2. goal' \in [Goals -> GoalRecords]
    BY <1>13, UnclosedType DEF releaseWorkspace, TypeOK, tables, outside
  <2>3. hist' \in HistRecords
    BY <1>13 DEF releaseWorkspace, TypeOK, HistRecords, tables, outside
  <2> QED
    BY <1>13, <2>1, <2>2, <2>3 DEF releaseWorkspace, tables, outside, TypeOK, Verb
<1> QED
  BY <1>1, <1>2, <1>3, <1>4, <1>5, <1>6, <1>7, <1>8, <1>9, <1>10, <1>11, <1>12, <1>13 DEF Lifecycle

LEMMA TypeStep == TypeOK /\ [Next]_vars => TypeOK'
<1> SUFFICES ASSUME TypeOK, [Next]_vars PROVE TypeOK'
  OBVIOUS
<1>1. CASE Crash
  <2>1. \A c \in Calls : [call[c] EXCEPT !.st = IF call[c].st \in {"asked", "running", "ended"} THEN "missed" ELSE call[c].st] \in CallRecords
    <3>1. SUFFICES ASSUME NEW c \in Calls
                   PROVE  [call[c] EXCEPT !.st = IF call[c].st \in {"asked", "running", "ended"} THEN "missed" ELSE call[c].st] \in CallRecords
      OBVIOUS
    <3>2. call[c] \in CallRecords
      BY DEF TypeOK
    <3>3. (IF call[c].st \in {"asked", "running", "ended"} THEN "missed" ELSE call[c].st) \in CallStates
      BY <3>2 DEF CallRecords, CallStates
    <3> QED
      BY <3>2, <3>3, CallFieldType
  <2>2. call' \in [Calls -> CallRecords]
    BY <1>1, <2>1 DEF Crash
  <2>3. bound' \in BoundRecords
    BY <1>1, SpendType DEF Crash, TypeOK
  <2>4. hist' \in HistRecords
    BY <1>1, Zenon DEF Crash, TypeOK, HistRecords, PendingRecords
  <2> QED
    BY <1>1, <2>2, <2>3, <2>4, Records DEF Crash, TypeOK, tables
<1>2. CASE UNCHANGED vars
  BY <1>2 DEF vars, TypeOK
<1> QED
  BY <1>1, <1>2, TypeTurns, TypeTools, TypeParking, TypeMaintenance, TypeLifecycle DEF Next

(* Every variable keeps its type: records of goals, of calls, of handlers   *)
(* between their transactions, of the maintenance pass, and sets of calls.  *)
THEOREM TypeCorrect == Spec => []TypeOK
BY InitType, TypeStep, PTL DEF Spec
-----------------------------------------------------------------------------
(***************************************************************************)
(* What FenceHeld rests on.  A call executes inside a turn of its session,  *)
(* and a session with a turn is neither idle nor unknown to the host: so    *)
(* what the idle proof has seen is missed already, and stays so however     *)
(* late the transaction that uses the proof.                                *)
(***************************************************************************)
ReservedTools == \A c \in resv : call[c].st \in {"running", "ended", "missed"} /\ call[c].kind \in {"write", "shell"}
ExecutesInTurn == \A c \in Calls : call[c].st \in {"asked", "running", "ended"} => call[c].by \in busy
AskedOperations == \A c \in Calls : call[c].st = "asked" => call[c].kind \in Operations
ShellsNameNothing == \A c \in Calls : call[c].kind = "shell" => call[c].file = {}
HostTruth == busy \cap gone = {}
SeenMissed == \A c \in sweep.seen : call[c].st = "missed"

FenceInv == ReservedTools /\ ExecutesInTurn /\ AskedOperations /\ ShellsNameNothing /\ HostTruth /\ SeenMissed /\ FenceHeld

LEMMA InitFence == Init => FenceInv
BY DEF Init, FenceInv, ReservedTools, ExecutesInTurn, AskedOperations, ShellsNameNothing, HostTruth, SeenMissed,
       FenceHeld, Writes, Unmade, NoProof

\* Reservations given up, with the calls and their sessions as they were.
LEMMA GivenUp ==
    ASSUME TypeOK, FenceInv, UNCHANGED <<call, busy, gone>>, resv' \subseteq resv,
           hist.released \subseteq hist'.released,
           \A c \in resv \ resv' : ~Writes(c) \/ c \in hist'.released,
           \A c \in sweep'.seen : call[c].st = "missed"
    PROVE  FenceInv'
BY DEF FenceInv, ReservedTools, ExecutesInTurn, AskedOperations, ShellsNameNothing, HostTruth, SeenMissed,
       FenceHeld, Writes, TypeOK

\* One call moves, its session being in a turn; what was missed stays missed.
LEMMA CallMoves ==
    ASSUME TypeOK, FenceInv, UNCHANGED <<busy, gone, sweep, hist>>,
           NEW c \in Calls, NEW r \in CallRecords, call' = [call EXCEPT ![c] = r],
           call[c].st # "missed",
           resv' \subseteq resv \cup {c}, resv \ {c} \subseteq resv',
           c \in resv' => r.st \in {"running", "ended", "missed"} /\ r.kind \in {"write", "shell"},
           r.st \in {"asked", "running", "ended"} => r.by \in busy,
           r.st = "asked" => r.kind \in Operations,
           r.kind = "shell" => r.file = {},
           r.st = "running" /\ r.kind \in {"write", "shell"} => c \in resv' \cup hist.released
    PROVE  FenceInv'
BY DEF FenceInv, ReservedTools, ExecutesInTurn, AskedOperations, ShellsNameNothing, HostTruth, SeenMissed,
       FenceHeld, Writes, TypeOK

LEMMA FenceTurns ==
    ASSUME TypeOK, FenceInv, Turns
    PROVE  FenceInv'
<1> USE DEF FenceInv, ReservedTools, ExecutesInTurn, AskedOperations, ShellsNameNothing, HostTruth, SeenMissed,
            FenceHeld, Writes
<1>1. ASSUME NEW s \in Sessions, TurnStart(s) PROVE FenceInv'
  BY <1>1 DEF TurnStart, tables
<1>2. ASSUME NEW s \in Sessions, TurnEnd(s) PROVE FenceInv'
  BY <1>2 DEF TurnEnd, Executing, tables
<1>3. ASSUME NEW s \in Sessions, SessionGone(s) PROVE FenceInv'
  BY <1>3 DEF SessionGone, tables
<1> QED
  BY <1>1, <1>2, <1>3 DEF Turns

LEMMA OverMoves ==
    ASSUME TypeOK, FenceInv, UNCHANGED <<busy, gone, sweep, hist>>,
           NEW c \in Calls, NEW st \in {"done", "denied"}, Over(c, st), call[c].st # "missed",
           resv' \subseteq resv \ {c}, resv \ {c} \subseteq resv'
    PROVE  FenceInv'
<1>1. [Unmade EXCEPT !.st = st] \in CallRecords
  BY Records, Zenon DEF CallRecords, CallStates
<1>2. PICK r \in CallRecords : r = [Unmade EXCEPT !.st = st]
  BY <1>1
<1>3. r.st = st /\ r.kind = "shell" /\ r.file = {}
  BY <1>2 DEF Unmade
<1>4. call' = [call EXCEPT ![c] = r]
  BY <1>2 DEF Over
<1> QED
  BY <1>3, <1>4, CallMoves

LEMMA StateMoves ==
    ASSUME TypeOK, FenceInv, UNCHANGED <<busy, gone, sweep, hist, resv>>,
           NEW c \in Calls, NEW st \in CallStates, call' = [call EXCEPT ![c].st = st], call[c].st # "missed",
           c \in resv => st \in {"running", "ended", "missed"},
           st \in {"asked", "running", "ended"} => call[c].by \in busy,
           st # "asked",
           st = "running" => call[c].kind \in Operations
    PROVE  FenceInv'
<1>1. PICK r \in CallRecords : r = [call[c] EXCEPT !.st = st]
  BY CallFieldType DEF TypeOK
<1>2. r.st = st /\ r.by = call[c].by /\ r.kind = call[c].kind /\ r.file = call[c].file
  BY <1>1 DEF TypeOK, CallRecords
<1>3. call' = [call EXCEPT ![c] = r]
  BY <1>1
<1>4. c \in resv => call[c].kind \in {"write", "shell"}
  BY DEF FenceInv, ReservedTools
<1>5. call[c].kind = "shell" => call[c].file = {}
  BY DEF FenceInv, ShellsNameNothing
<1>6. st = "running" => call[c].kind \notin {"write", "shell"}
  BY OperationsAssumption
<1> QED
  BY <1>1, <1>2, <1>3, <1>4, <1>5, <1>6, CallMoves

LEMMA MadeMoves ==
    ASSUME TypeOK, FenceInv, UNCHANGED <<busy, gone, sweep, hist>>,
           NEW c \in Calls, NEW s \in Sessions, Begins(c, s),
           NEW st \in {"asked", "running", "denied"}, NEW kind \in Kinds, NEW file \in SUBSET Files,
           NEW g \in Goals \cup {NoGoal}, NEW ticket \in BOOLEAN, Made(c, s, st, kind, file, g, ticket),
           st = "asked" => kind \in Operations /\ resv' = resv,
           st = "running" => kind \in {"write", "shell"} /\ resv' = resv \cup {c},
           st = "denied" => resv' = resv,
           kind = "shell" => file = {}
    PROVE  FenceInv'
<1>1. PICK r \in CallRecords :
        r = [st |-> st, by |-> s, kind |-> kind, file |-> file, goal |-> g, ticket |-> ticket]
  BY DEF CallRecords, CallStates
<1>2. call' = [call EXCEPT ![c] = r]
  BY <1>1 DEF Made
<1>3. call[c].st = "new" /\ s \in busy
  BY DEF Begins
<1>4. c \notin resv
  BY <1>3 DEF FenceInv, ReservedTools
<1>5. r.st = st /\ r.by = s /\ r.kind = kind /\ r.file = file
  BY <1>1
<1> QED
  BY <1>2, <1>3, <1>4, <1>5, CallMoves, OperationsAssumption

LEMMA FenceTools ==
    ASSUME TypeOK, FenceInv, Tools
    PROVE  FenceInv'
<1> USE DEF tables, outside
<1>1. ASSUME NEW c \in Calls, NEW s \in Sessions, BeginShell(c, s) PROVE FenceInv'
  <2>1. CASE Denied(c)
    BY <1>1, <2>1, OverMoves DEF BeginShell, Denied, Begins, FenceInv, ReservedTools
  <2>2. CASE ~Denied(c)
    <3>1. PICK g \in Goals \cup {NoGoal} : Made(c, s, "running", "shell", {}, g, FALSE)
      BY <1>1, <2>2, GoalForType DEF BeginShell
    <3> QED
      BY <1>1, <2>2, <3>1, MadeMoves DEF BeginShell, Kinds
  <2> QED
    BY <2>1, <2>2
<1>2. ASSUME NEW c \in Calls, NEW s \in Sessions, NEW f \in Files, BeginFreeWrite(c, s, f) PROVE FenceInv'
  <2>1. "write" \in Kinds /\ {f} \in SUBSET Files /\ GoalFor(s) \in Goals \cup {NoGoal}
    BY GoalForType DEF Kinds
  <2>2. PICK file \in SUBSET Files, g \in Goals \cup {NoGoal} : Made(c, s, "running", "write", file, g, FALSE)
    BY <1>2, <2>1 DEF BeginFreeWrite
  <2> QED
    BY <1>2, <2>1, <2>2, MadeMoves DEF BeginFreeWrite
<1>3. ASSUME NEW c \in Calls, NEW s \in Sessions, NEW f \in Files, BeginTicketedWrite(c, s, f) PROVE FenceInv'
  <2>1. Begins(c, s) /\ UNCHANGED <<busy, gone, sweep, hist>> /\ "write" \in Kinds
    BY <1>3 DEF BeginTicketedWrite, Kinds
  <2>2. CASE Denied(c)
    BY <1>3, <2>2, OverMoves DEF BeginTicketedWrite, Denied, Begins, FenceInv, ReservedTools
  <2>3. CASE Made(c, s, "running", "write", {f}, GoalFor(s), TRUE) /\ resv' = resv \cup {c}
    <3>1. PICK file \in SUBSET Files, g \in Goals \cup {NoGoal} : Made(c, s, "running", "write", file, g, TRUE)
      BY <2>3, GoalForType
    <3> QED
      BY <2>1, <2>3, <3>1, MadeMoves
  <2>4. CASE Made(c, s, "denied", "write", {f}, GoalFor(s), FALSE) /\ resv' = resv
    <3>1. PICK file \in SUBSET Files, g \in Goals \cup {NoGoal} : Made(c, s, "denied", "write", file, g, FALSE)
      BY <2>4, GoalForType
    <3> QED
      BY <2>1, <2>4, <3>1, MadeMoves
  <2> QED
    BY <1>3, <2>2, <2>3, <2>4 DEF BeginTicketedWrite
<1>4. ASSUME NEW c \in Calls, NEW s \in Sessions, NEW kind \in Operations, AskOperation(c, s, kind) PROVE FenceInv'
  BY <1>4, MadeMoves, GoalForType DEF AskOperation, Kinds
<1>5. ASSUME NEW c \in Calls, ToolExit(c) PROVE FenceInv'
  BY <1>5, StateMoves DEF ToolExit, CallStates, FenceInv, ExecutesInTurn
<1>6. ASSUME NEW c \in Calls, AfterHook(c) PROVE FenceInv'
  <2>1. resv' = resv \ {c}
    BY <1>6 DEF AfterHook
  <2> QED
    BY <1>6, <2>1, OverMoves DEF AfterHook
<1>7. ASSUME NEW c \in Calls, HookLost(c) PROVE FenceInv'
  BY <1>7, StateMoves DEF HookLost, CallStates
<1>8. ASSUME NEW c \in Calls, BeginOperation(c) PROVE FenceInv'
  <2>1. c \notin resv /\ call[c].by \in busy /\ call[c].kind \in Operations
    BY <1>8 DEF BeginOperation, FenceInv, ReservedTools, ExecutesInTurn, AskedOperations
  <2>2. CASE Over(c, "denied")
    BY <1>8, <2>1, <2>2, OverMoves DEF BeginOperation
  <2>3. CASE call' = [call EXCEPT ![c].st = "running"]
    BY <1>8, <2>1, <2>3, StateMoves DEF BeginOperation, CallStates
  <2> QED
    BY <1>8, <2>2, <2>3 DEF BeginOperation
<1>9. ASSUME NEW c \in Calls, OperationEnd(c) PROVE FenceInv'
  <2>1. c \notin resv
    BY <1>9, OperationsAssumption DEF OperationEnd, FenceInv, ReservedTools
  <2> QED
    BY <1>9, <2>1, OverMoves DEF OperationEnd
<1> QED
  BY <1>1, <1>2, <1>3, <1>4, <1>5, <1>6, <1>7, <1>8, <1>9 DEF Tools

LEMMA FenceParking ==
    ASSUME TypeOK, FenceInv, Parking
    PROVE  FenceInv'
<1> USE DEF tables, outside, FenceInv, SeenMissed
<1>1. CASE fireFenceAwaits
  BY <1>1, GivenUp DEF fireFenceAwaits, TypeOK, HistRecords
<1>2. ASSUME NEW g \in Goals, AskPark(g) PROVE FenceInv'
  BY <1>2, GivenUp DEF AskPark
<1>3. ASSUME NEW g \in Goals, Park(g) PROVE FenceInv'
  BY <1>3, GivenUp DEF Park
<1> QED
  BY <1>1, <1>2, <1>3 DEF Parking

LEMMA SweepTicketsKeeps ==
    ASSUME TypeOK, NEW P \in SUBSET Calls, SweepTickets(P)
    PROVE  hist'.released = hist.released /\ hist'.granted = hist.granted
BY DEF SweepTickets, TypeOK, HistRecords

LEMMA FenceMaintenance ==
    ASSUME TypeOK, FenceInv, Maintenance
    PROVE  FenceInv'
<1> USE DEF tables, outside
<1>1. CASE reconcileIdleSessionCalls
  <2>1. sweep'.seen = {} /\ resv' = resv \ sweep.seen
    BY <1>1 DEF reconcileIdleSessionCalls, NoProof
  <2>2. \A c \in sweep.seen : ~Writes(c)
    BY DEF FenceInv, SeenMissed, Writes
  <2> QED
    BY <1>1, <2>1, <2>2, GivenUp DEF reconcileIdleSessionCalls
<1>2. CASE releaseAbsentSessionWorkspaceCalls
  <2>1. sweep'.seen = sweep.seen
    BY <1>2 DEF releaseAbsentSessionWorkspaceCalls, SweepAt, TypeOK, SweepRecords
  <2>2. \A c \in resv \ resv' : call[c].by \in gone
    BY <1>2 DEF releaseAbsentSessionWorkspaceCalls, Absent
  <2>3. \A c \in Calls : call[c].by \in gone => ~Writes(c)
    BY DEF FenceInv, ExecutesInTurn, HostTruth, Writes
  <2>4. resv' \subseteq resv /\ resv \subseteq Calls
    BY <1>2 DEF releaseAbsentSessionWorkspaceCalls, TypeOK
  <2> QED
    BY <1>2, <2>1, <2>2, <2>3, <2>4, GivenUp DEF releaseAbsentSessionWorkspaceCalls, FenceInv, SeenMissed
<1>3. ASSUME NEW C \in SUBSET Calls, releaseTerminalWorkspaceCalls(C) PROVE FenceInv'
  <2>1. resv' \subseteq resv /\ \A c \in resv \ resv' : ~Writes(c)
    BY <1>3 DEF releaseTerminalWorkspaceCalls, TerminalProof, Writes
  <2>2. sweep'.seen = {c \in resv' : call[c].by \in {call[d].by : d \in resv' \cup waiters'} \ (busy \cup gone)}
    BY <1>3 DEF releaseTerminalWorkspaceCalls, IdleProof, TypeOK, SweepRecords
  <2>3. \A c \in sweep'.seen : c \in resv /\ call[c].by \notin busy
    BY <2>1, <2>2
  <2>4. \A c \in sweep'.seen : call[c].st = "missed"
    BY <2>3 DEF FenceInv, ReservedTools, ExecutesInTurn, TypeOK
  <2> QED
    BY <1>3, <2>1, <2>4, GivenUp DEF releaseTerminalWorkspaceCalls
<1>4. ASSUME NEW P \in SUBSET Calls, sweepStaleWorkspaceState(P) PROVE FenceInv'
  <2>1. sweep'.seen = sweep.seen /\ hist'.released = hist.released
    BY <1>4, SweepTicketsKeeps DEF sweepStaleWorkspaceState, SweepAt, TypeOK, SweepRecords
  <2> QED
    BY <1>4, <2>1, GivenUp DEF sweepStaleWorkspaceState, FenceInv, SeenMissed
<1>5. ASSUME NEW P \in SUBSET Calls, ReconcileSweep(P) PROVE FenceInv'
  <2>1. sweep'.seen = {} /\ hist'.released = hist.released
    BY <1>5, SweepTicketsKeeps DEF ReconcileSweep, NoProof
  <2> QED
    BY <1>5, <2>1, GivenUp DEF ReconcileSweep
<1> QED
  BY <1>1, <1>2, <1>3, <1>4, <1>5 DEF Maintenance

\* The verbs take reservations from nobody, except releaseWorkspace, which
\* the history remembers.
LEMMA VerbsSpare ==
    ASSUME TypeOK, Lifecycle
    PROVE  /\ UNCHANGED <<call, busy, gone, sweep>>
           /\ resv' \subseteq resv /\ resv \ resv' \subseteq hist'.released
           /\ hist.released \subseteq hist'.released
           /\ hist.granted \subseteq hist'.granted
<1> USE DEF tables, outside, Verb
<1>1. ASSUME NEW g \in Goals, grantWriteScope(g) PROVE /\ UNCHANGED <<call, resv, busy, gone, sweep>>
                                                        /\ hist'.released = hist.released /\ hist.granted \subseteq hist'.granted
  BY <1>1 DEF grantWriteScope, TypeOK, HistRecords
<1>2. ASSUME NEW g \in Goals, PauseClose(g) \/ PausePark(g) \/ pause(g) \/ attachWorker(g) \/ clear(g) \/ complete(g) \/ tick(g)
      PROVE  UNCHANGED <<call, resv, busy, gone, sweep, hist>>
  BY <1>2 DEF PauseClose, PausePark, pause, attachWorker, clear, complete, tick
<1>3. ASSUME NEW g \in Goals, NEW k \in Contracts, start(g, k) PROVE UNCHANGED <<call, resv, busy, gone, sweep, hist>>
  BY <1>3 DEF start
<1>4. ASSUME NEW g \in Goals, NEW f \in Files, claimGoalScope(g, f) \/ AskGrant(g, f)
      PROVE  UNCHANGED <<call, resv, busy, gone, sweep, hist>>
  BY <1>4 DEF claimGoalScope, AskGrant
<1>5. ASSUME NEW g \in Goals, NEW P \in SUBSET Calls, resume(g, P)
      PROVE  UNCHANGED <<call, resv, busy, gone, sweep>> /\ hist'.released = hist.released /\ hist'.granted = hist.granted
  BY <1>5, SweepTicketsKeeps DEF resume
<1>6. ASSUME NEW C \in SUBSET Calls, releaseWorkspace(C)
      PROVE  /\ UNCHANGED <<call, busy, gone, sweep>> /\ resv' = resv \ C
             /\ hist'.released = hist.released \cup C /\ hist'.granted = hist.granted
  BY <1>6 DEF releaseWorkspace, TypeOK, HistRecords
<1> QED
  BY <1>1, <1>2, <1>3, <1>4, <1>5, <1>6 DEF Lifecycle

LEMMA FenceCrash ==
    ASSUME TypeOK, FenceInv, Crash
    PROVE  FenceInv'
<1>1. hist'.released = hist.released /\ sweep'.seen = {} /\ UNCHANGED <<resv, gone>> /\ busy' = {}
  BY DEF Crash, TypeOK, HistRecords, NoProof, tables
<1>2. \A c \in Calls : /\ call'[c].st \notin {"asked", "running", "ended"}
                       /\ call[c].st \in {"running", "ended", "missed"} => call'[c].st = "missed"
                       /\ call'[c].kind = call[c].kind /\ call'[c].file = call[c].file
  BY DEF Crash, TypeOK, CallRecords
<1> QED
  BY <1>1, <1>2 DEF FenceInv, ReservedTools, ExecutesInTurn, AskedOperations, ShellsNameNothing, HostTruth, SeenMissed,
       FenceHeld, Writes, TypeOK

LEMMA FenceStep == TypeOK /\ FenceInv /\ [Next]_vars => FenceInv'
<1> SUFFICES ASSUME TypeOK, FenceInv, [Next]_vars PROVE FenceInv'
  OBVIOUS
<1>1. CASE Lifecycle
  BY <1>1, VerbsSpare, GivenUp DEF FenceInv, SeenMissed
<1>2. CASE UNCHANGED vars
  BY <1>2, GivenUp DEF vars, FenceInv, SeenMissed
<1> QED
  BY <1>1, <1>2, FenceTurns, FenceTools, FenceParking, FenceMaintenance, FenceCrash DEF Next

(* Every tool that may be writing keeps its reservation, whatever the       *)
(* proofs of an end, the sweeps and the lifecycle do meanwhile.             *)
THEOREM FenceKept == Spec => []FenceHeld
<1>1. TypeOK /\ FenceInv => FenceHeld
  BY DEF FenceInv
<1> QED
  BY <1>1, InitType, TypeStep, InitFence, FenceStep, PTL DEF Spec
-----------------------------------------------------------------------------
(***************************************************************************)
(* Tickets.  Two ticketed writers have their reservations, and a ticket is  *)
(* granted over reservations: the tickets themselves may be reclaimed.      *)
(***************************************************************************)
LEMMA ReleasedGrows ==
    ASSUME TypeOK, [Next]_vars
    PROVE  hist.released \subseteq hist'.released /\ hist.granted \subseteq hist'.granted
<1> USE DEF tables, outside
<1>1. CASE Turns
  BY <1>1 DEF Turns, TurnStart, TurnEnd, SessionGone
<1>2. CASE Tools
  BY <1>2 DEF Tools, BeginShell, BeginFreeWrite, BeginTicketedWrite, AskOperation, ToolExit, AfterHook, HookLost,
              BeginOperation, OperationEnd
<1>3. CASE Parking
  BY <1>3 DEF Parking, fireFenceAwaits, AskPark, Park, TypeOK, HistRecords
<1>4. CASE Maintenance
  <2>1. ASSUME NEW C \in SUBSET Calls, releaseTerminalWorkspaceCalls(C) PROVE hist' = hist
    BY <2>1 DEF releaseTerminalWorkspaceCalls
  <2>2. ASSUME NEW P \in SUBSET Calls, sweepStaleWorkspaceState(P) \/ ReconcileSweep(P)
        PROVE  hist'.released = hist.released /\ hist'.granted = hist.granted
    BY <2>2, SweepTicketsKeeps DEF sweepStaleWorkspaceState, ReconcileSweep
  <2> QED
    BY <1>4, <2>1, <2>2 DEF Maintenance, reconcileIdleSessionCalls, releaseAbsentSessionWorkspaceCalls
<1>5. CASE Crash
  BY <1>5 DEF Crash, TypeOK, HistRecords
<1>6. CASE UNCHANGED vars
  BY <1>6 DEF vars
<1> QED
  BY <1>1, <1>2, <1>3, <1>4, <1>5, <1>6, VerbsSpare DEF Next

\* Only calls move calls.
LEMMA CallsStay ==
    ASSUME Turns \/ Parking \/ Maintenance \/ Lifecycle \/ UNCHANGED vars
    PROVE  call' = call
<1>1. CASE Turns
  BY <1>1 DEF Turns, TurnStart, TurnEnd, SessionGone
<1>2. CASE Parking
  BY <1>2 DEF Parking, fireFenceAwaits, AskPark, Park
<1>3. CASE Maintenance
  BY <1>3 DEF Maintenance, reconcileIdleSessionCalls, releaseAbsentSessionWorkspaceCalls, releaseTerminalWorkspaceCalls,
              sweepStaleWorkspaceState, ReconcileSweep
<1>4. CASE Lifecycle
  BY <1>4 DEF Lifecycle, grantWriteScope, PauseClose, PausePark, pause, attachWorker, clear, complete, tick, start,
              claimGoalScope, AskGrant, resume, releaseWorkspace
<1> QED
  BY <1>1, <1>2, <1>3, <1>4 DEF vars

Ticketed(c) == call[c].ticket /\ Writes(c)

LEMMA TicketsStay ==
    ASSUME TicketsExclude, hist.released \subseteq hist'.released,
           \A c \in Calls : Ticketed(c)' => Ticketed(c) /\ call'[c].file = call[c].file
    PROVE  TicketsExclude'
BY DEF TicketsExclude, Ticketed, Overlap

LEMMA TicketsTools ==
    ASSUME TypeOK, FenceInv, TicketsExclude, Tools, hist.released \subseteq hist'.released
    PROVE  TicketsExclude'
<1> USE DEF Ticketed, Writes, TypeOK
<1>1. ASSUME NEW c \in Calls, NEW s \in Sessions, BeginShell(c, s) PROVE TicketsExclude'
  BY <1>1, TicketsStay DEF BeginShell, Denied, Over, Made, Unmade
<1>2. ASSUME NEW c \in Calls, NEW s \in Sessions, NEW f \in Files, BeginFreeWrite(c, s, f) PROVE TicketsExclude'
  BY <1>2, TicketsStay DEF BeginFreeWrite, Made
<1>3. ASSUME NEW c \in Calls, NEW s \in Sessions, NEW f \in Files, BeginTicketedWrite(c, s, f) PROVE TicketsExclude'
  <2>1. CASE call' = [call EXCEPT ![c] = [Unmade EXCEPT !.st = "denied"]]
    BY <2>1, TicketsStay DEF Unmade
  <2>2. CASE Made(c, s, "denied", "write", {f}, GoalFor(s), FALSE)
    BY <2>2, TicketsStay DEF Made
  <2>3. CASE Made(c, s, "running", "write", {f}, GoalFor(s), TRUE) /\ canGrantTicket({f}, Reclaimed(holders))
    <3>1. \A d \in Calls \ {c} : call'[d] = call[d]
      BY <2>3 DEF Made
    <3>2. call'[c].file = {f}
      BY <2>3 DEF Made
    <3>3. \A d \in Calls \ hist.released : Ticketed(d) => call[d].file \cap {f} = {}
      BY <2>3 DEF canGrantTicket, FenceInv, FenceHeld
    <3> QED
      BY <3>1, <3>2, <3>3 DEF TicketsExclude, Overlap
  <2> QED
    BY <1>3, <2>1, <2>2, <2>3 DEF BeginTicketedWrite, Denied, Over
<1>4. ASSUME NEW c \in Calls, NEW s \in Sessions, NEW kind \in Operations, AskOperation(c, s, kind) PROVE TicketsExclude'
  BY <1>4, TicketsStay DEF AskOperation, Made
<1>5. ASSUME NEW c \in Calls, ToolExit(c) \/ HookLost(c) PROVE TicketsExclude'
  <2>1. \A d \in Calls : Ticketed(d)' => call'[d] = call[d]
    BY <1>5 DEF ToolExit, HookLost, CallRecords
  <2> QED
    BY <1>5, <2>1, TicketsStay DEF ToolExit, HookLost, tables, outside
<1>6. ASSUME NEW c \in Calls, Over(c, "done") \/ Over(c, "denied") PROVE TicketsExclude'
  BY <1>6, TicketsStay DEF Over, Unmade
<1>7. ASSUME NEW c \in Calls, BeginOperation(c), call' = [call EXCEPT ![c].st = "running"] PROVE TicketsExclude'
  <2>1. call[c].kind \notin {"write", "shell"}
    BY <1>7, OperationsAssumption DEF BeginOperation, FenceInv, AskedOperations
  <2>2. \A d \in Calls \ {c} : call'[d] = call[d]
    BY <1>7
  <2>3. call'[c].kind = call[c].kind
    BY <1>7 DEF CallRecords
  <2> QED
    BY <2>1, <2>2, <2>3, TicketsStay
<1> QED
  BY <1>1, <1>2, <1>3, <1>4, <1>5, <1>6, <1>7 DEF Tools, AfterHook, BeginOperation, OperationEnd

LEMMA TicketsStep == TypeOK /\ FenceInv /\ TicketsExclude /\ [Next]_vars => TicketsExclude'
<1> SUFFICES ASSUME TypeOK, FenceInv, TicketsExclude, [Next]_vars PROVE TicketsExclude'
  OBVIOUS
<1>1. hist.released \subseteq hist'.released
  BY ReleasedGrows
<1>2. CASE Tools
  BY <1>1, <1>2, TicketsTools
<1>3. CASE Crash
  <2>1. \A c \in Calls : ~Ticketed(c)'
    BY <1>3 DEF Crash, Ticketed, Writes, TypeOK, CallRecords
  <2> QED
    BY <1>1, <2>1, TicketsStay
<1>4. CASE call' = call
  BY <1>1, <1>4, TicketsStay DEF Ticketed, Writes
<1> QED
  BY <1>2, <1>3, <1>4, CallsStay DEF Next

(* No two calls admitted with a ticket write one file at once: a ticket     *)
(* reclaimed from a goal that ended does not let another writer in.         *)
THEOREM TicketsKeptApart == Spec => []TicketsExclude
<1>1. Init => TicketsExclude
  BY DEF Init, TicketsExclude, Writes, Unmade
<1> QED
  BY <1>1, InitType, TypeStep, InitFence, FenceStep, TicketsStep, PTL DEF Spec
-----------------------------------------------------------------------------
(***************************************************************************)
(* Parked goals.  The fence is quiet when nothing takes it: every           *)
(* reservation counts, the ones that name files and the ones that do not.   *)
(***************************************************************************)
LEMMA QuietFence == isFenceQuiescent <=> op = NoCall /\ holders = {} /\ resv = {}
BY DEF isFenceQuiescent, Uncontrolled

LEMMA ParkedFrame ==
    ASSUME ParkedWakes, UNCHANGED <<awaits, pending>>, hist.silent => hist'.silent,
           op' = NoCall /\ holders' = {} /\ resv' = {} => op = NoCall /\ holders = {} /\ resv = {}
    PROVE  ParkedWakes'
BY QuietFence DEF ParkedWakes, isFenceQuiescent, Uncontrolled

LEMMA SweepTicketsQuiet ==
    ASSUME TypeOK, ParkedWakes, NEW P \in SUBSET Calls, SweepTickets(P), UNCHANGED <<awaits, pending, resv, op>>
    PROVE  ParkedWakes'
<1>1. CASE Reclaimed(holders) = holders
  <2>1. holders' = holders \cup P
    BY <1>1 DEF SweepTickets
  <2>2. hist.silent => hist'.silent
    BY DEF SweepTickets, TypeOK, HistRecords
  <2> QED
    BY <2>1, <2>2, ParkedFrame
<1>2. CASE Reclaimed(holders) # holders
  BY <1>2 DEF SweepTickets, ParkedWakes, TypeOK, HistRecords
<1> QED
  BY <1>1, <1>2

LEMMA ParkedTools ==
    ASSUME TypeOK, FenceInv, ParkedWakes, Tools
    PROVE  ParkedWakes'
<1> USE DEF tables, outside
<1>1. ASSUME NEW c \in Calls, NEW s \in Sessions, BeginShell(c, s) PROVE ParkedWakes'
  BY <1>1, ParkedFrame DEF BeginShell, Denied
<1>2. ASSUME NEW c \in Calls, NEW s \in Sessions, NEW f \in Files, BeginFreeWrite(c, s, f) PROVE ParkedWakes'
  BY <1>2, ParkedFrame DEF BeginFreeWrite
<1>3. ASSUME NEW c \in Calls, NEW s \in Sessions, NEW f \in Files, BeginTicketedWrite(c, s, f) PROVE ParkedWakes'
  <2>1. UNCHANGED <<awaits, pending, hist, op>>
    BY <1>3 DEF BeginTicketedWrite
  <2>2. CASE UNCHANGED <<resv, holders>>
    BY <2>1, <2>2, ParkedFrame
  <2>3. CASE resv' = resv \cup {c}
    BY <2>1, <2>3, ParkedFrame
  <2>4. CASE ~canGrantTicket({f}, Reclaimed(holders)) /\ holders' = Reclaimed(holders) /\ resv' = resv
    \* the write waits for a ticket or a reservation, which therefore exists
    <3>1. holders' # {} \/ resv' # {}
      BY <2>4 DEF canGrantTicket
    <3> QED
      BY <2>1, <3>1, ParkedFrame
  <2> QED
    BY <1>3, <2>2, <2>3, <2>4 DEF BeginTicketedWrite, Denied
<1>4. ASSUME NEW c \in Calls, NEW s \in Sessions, NEW kind \in Operations, AskOperation(c, s, kind) PROVE ParkedWakes'
  BY <1>4, ParkedFrame DEF AskOperation
<1>5. ASSUME NEW c \in Calls, ToolExit(c) \/ HookLost(c) PROVE ParkedWakes'
  BY <1>5, ParkedFrame DEF ToolExit, HookLost
<1>6. ASSUME NEW c \in Calls, AfterHook(c) PROVE ParkedWakes'
  <2>1. CASE c \in resv \cup holders \cup waiters
    BY <1>6, <2>1 DEF AfterHook, ParkedWakes, TypeOK, PendingRecords
  <2>2. CASE c \notin resv \cup holders \cup waiters
    BY <1>6, <2>2, ParkedFrame DEF AfterHook
  <2> QED
    BY <2>1, <2>2
<1>7. ASSUME NEW c \in Calls, BeginOperation(c) PROVE ParkedWakes'
  BY <1>7, NoCallAssumption, ParkedFrame DEF BeginOperation
<1>8. ASSUME NEW c \in Calls, OperationEnd(c) PROVE ParkedWakes'
  BY <1>8 DEF OperationEnd, ParkedWakes, TypeOK, PendingRecords
<1> QED
  BY <1>1, <1>2, <1>3, <1>4, <1>5, <1>6, <1>7, <1>8 DEF Tools

LEMMA ParkedMaintenance ==
    ASSUME TypeOK, ParkedWakes, Maintenance
    PROVE  ParkedWakes'
<1> USE DEF tables, outside
<1>1. ASSUME UNCHANGED <<op, awaits, hist>>,
             pending' = [pending EXCEPT !.waking = @ \/ (awaits # {} /\ <<resv', holders', waiters'>> # tables)]
      PROVE  ParkedWakes'
  <2>1. CASE <<resv', holders', waiters'>> = tables
    <3>1. pending'.waking = pending.waking
      BY <1>1, <2>1 DEF TypeOK, PendingRecords
    <3> QED
      BY <1>1, <2>1, <3>1, QuietFence DEF ParkedWakes, isFenceQuiescent, Uncontrolled
  <2>2. CASE <<resv', holders', waiters'>> # tables
    BY <1>1, <2>2 DEF ParkedWakes, TypeOK, PendingRecords
  <2> QED
    BY <2>1, <2>2
<1>2. CASE reconcileIdleSessionCalls
  BY <1>1, <1>2 DEF reconcileIdleSessionCalls
<1>3. CASE releaseAbsentSessionWorkspaceCalls
  BY <1>1, <1>3 DEF releaseAbsentSessionWorkspaceCalls
<1>4. ASSUME NEW C \in SUBSET Calls, releaseTerminalWorkspaceCalls(C) PROVE ParkedWakes'
  <2>1. UNCHANGED <<op, awaits, hist>> /\ resv' = resv \ C /\ holders' = holders \ C
    BY <1>4 DEF releaseTerminalWorkspaceCalls, TerminalProof
  <2>2. pending'.waking = (pending.waking \/ (C # {} /\ awaits # {}))
    BY <1>4 DEF releaseTerminalWorkspaceCalls, TerminalProof, TypeOK, PendingRecords
  <2> QED
    BY <2>1, <2>2, QuietFence DEF ParkedWakes, isFenceQuiescent, Uncontrolled
<1>5. ASSUME NEW P \in SUBSET Calls, sweepStaleWorkspaceState(P) PROVE ParkedWakes'
  BY <1>5, SweepTicketsQuiet, ParkedFrame DEF sweepStaleWorkspaceState
<1>6. ASSUME NEW P \in SUBSET Calls, ReconcileSweep(P) PROVE ParkedWakes'
  BY <1>6, SweepTicketsQuiet, ParkedFrame DEF ReconcileSweep
<1> QED
  BY <1>2, <1>3, <1>4, <1>5, <1>6 DEF Maintenance

LEMMA ParkedLifecycle ==
    ASSUME TypeOK, ParkedWakes, Lifecycle
    PROVE  ParkedWakes'
<1> USE DEF tables, outside, Verb
<1>1. ASSUME NEW g \in Goals, grantWriteScope(g) \/ PauseClose(g) \/ PausePark(g) \/ \E f \in Files : AskGrant(g, f)
      PROVE  ParkedWakes'
  BY <1>1, QuietFence DEF grantWriteScope, PauseClose, PausePark, AskGrant, ParkedWakes, isFenceQuiescent, Uncontrolled,
     TypeOK, PendingRecords, HistRecords
<1>2. ASSUME NEW g \in Goals, pause(g) \/ attachWorker(g) \/ clear(g) \/ complete(g) \/ tick(g) PROVE ParkedWakes'
  BY <1>2, ParkedFrame DEF pause, attachWorker, clear, complete, tick
<1>3. ASSUME NEW g \in Goals, NEW k \in Contracts, start(g, k) PROVE ParkedWakes'
  BY <1>3, ParkedFrame DEF start
<1>4. ASSUME NEW g \in Goals, NEW f \in Files, claimGoalScope(g, f) PROVE ParkedWakes'
  BY <1>4, ParkedFrame DEF claimGoalScope
<1>5. ASSUME NEW g \in Goals, NEW P \in SUBSET Calls, resume(g, P) PROVE ParkedWakes'
  BY <1>5, SweepTicketsQuiet DEF resume
<1>6. ASSUME NEW C \in SUBSET Calls, releaseWorkspace(C) PROVE ParkedWakes'
  BY <1>6 DEF releaseWorkspace, ParkedWakes, TypeOK, HistRecords
<1> QED
  BY <1>1, <1>2, <1>3, <1>4, <1>5, <1>6 DEF Lifecycle

LEMMA ParkedStep == TypeOK /\ FenceInv /\ ParkedWakes /\ [Next]_vars => ParkedWakes'
<1> SUFFICES ASSUME TypeOK, FenceInv, ParkedWakes, [Next]_vars PROVE ParkedWakes'
  OBVIOUS
<1> USE DEF tables, outside
<1>1. CASE Turns
  BY <1>1, ParkedFrame DEF Turns, TurnStart, TurnEnd, SessionGone
<1>2. CASE fireFenceAwaits
  <2>1. CASE isFenceQuiescent
    BY <1>2, <2>1 DEF fireFenceAwaits, ParkedWakes
  <2>2. CASE ~isFenceQuiescent
    BY <1>2, <2>2, QuietFence DEF fireFenceAwaits, ParkedWakes, isFenceQuiescent, Uncontrolled
  <2> QED
    BY <2>1, <2>2
<1>3. ASSUME NEW g \in Goals, AskPark(g) PROVE ParkedWakes'
  <2>1. pending'.waking = pending.waking /\ UNCHANGED <<op, resv, holders, awaits, hist>>
    BY <1>3 DEF AskPark, TypeOK, PendingRecords
  <2> QED
    BY <2>1, QuietFence DEF ParkedWakes, isFenceQuiescent, Uncontrolled
<1>4. ASSUME NEW g \in Goals, Park(g) PROVE ParkedWakes'
  BY <1>4 DEF Park, ParkedWakes, TypeOK, PendingRecords
<1>5. CASE Crash
  <2>1. hist'.silent = (hist.silent \/ pending.waking) /\ UNCHANGED <<op, resv, holders, awaits>>
    BY <1>5 DEF Crash, TypeOK, HistRecords
  <2> QED
    BY <2>1, QuietFence DEF ParkedWakes, isFenceQuiescent, Uncontrolled
<1>6. CASE UNCHANGED vars
  BY <1>6, ParkedFrame DEF vars
<1> QED
  BY <1>1, <1>2, <1>3, <1>4, <1>5, <1>6, ParkedTools, ParkedMaintenance, ParkedLifecycle DEF Next, Parking

(* A goal that parked while the fence was taken is not left parked when it  *)
(* falls: between the read of its request and its parking nothing slips by. *)
THEOREM ParkedAreWoken == Spec => []ParkedWakes
<1>1. Init => ParkedWakes
  BY DEF Init, ParkedWakes
<1> QED
  BY <1>1, InitType, TypeStep, InitFence, FenceStep, ParkedStep, PTL DEF Spec
-----------------------------------------------------------------------------
(***************************************************************************)
(* Ownership.  Every goal that may write is held, and a scope is acquired   *)
(* over the held goals; a call that joins a goal joins one that holds       *)
(* nothing, or a whole workspace where nothing scoped is held.              *)
(***************************************************************************)
LEMMA CoversCases ==
    ASSUME NEW scope
    PROVE  /\ Covers("readonly", scope) = {}
           /\ Covers("whole", scope) = Files
           /\ Covers("scoped", scope) = scope
BY Zenon DEF Covers

LEMMA MayWriteHeld ==
    ASSUME NEW h \in Goals, MayWrite(h)
    PROVE  h \in heldGoals
BY DEF MayWrite, heldGoals

LEMMA OwnersStay ==
    ASSUME OneOwnerPerFile, hist.granted \subseteq hist'.granted,
           \A h \in Goals : MayWrite(h)' => MayWrite(h) /\ goal'[h].mode = goal[h].mode /\ goal'[h].scope = goal[h].scope
    PROVE  OneOwnerPerFile'
BY DEF OneOwnerPerFile, Owns

\* One goal changes what it owns, or begins to write.
LEMMA OwnerMoves ==
    ASSUME OneOwnerPerFile, hist.granted \subseteq hist'.granted, NEW g \in Goals,
           \A h \in Goals \ {g} :
               MayWrite(h)' => MayWrite(h) /\ goal'[h].mode = goal[h].mode /\ goal'[h].scope = goal[h].scope,
           \A h \in Goals \ {g} : MayWrite(h) /\ (goal'[g].mode = "scoped" \/ goal[h].mode = "scoped") =>
               Owns(h) \cap Covers(goal'[g].mode, goal'[g].scope) \subseteq hist'.granted
    PROVE  OneOwnerPerFile'
<1> SUFFICES ASSUME NEW x \in Goals, NEW y \in Goals, x # y, goal'[x].mode = "scoped", MayWrite(x)', MayWrite(y)'
             PROVE  Covers(goal'[x].mode, goal'[x].scope) \cap Covers(goal'[y].mode, goal'[y].scope) \subseteq hist'.granted
  BY DEF OneOwnerPerFile, Owns
<1>1. CASE x = g
  BY <1>1 DEF Owns
<1>2. CASE y = g
  BY <1>2 DEF Owns
<1>3. CASE x # g /\ y # g
  BY <1>3 DEF OneOwnerPerFile, Owns
<1> QED
  BY <1>1, <1>2, <1>3

\* A call joins no goal, one that may write, a read-only one, or one that has
\* everything to itself.
LEMMA OwnersTools ==
    ASSUME TypeOK, FenceInv, OneOwnerPerFile, Tools
    PROVE  OneOwnerPerFile'
<1> USE DEF tables, outside
<1>1. UNCHANGED <<goal, hist>>
  BY DEF Tools, BeginShell, BeginFreeWrite, BeginTicketedWrite, AskOperation, ToolExit, AfterHook, HookLost,
         BeginOperation, OperationEnd
<1>2. ASSUME \A c \in resv' : c \in resv /\ (call'[c].goal \in Goals => call'[c].goal = call[c].goal)
      PROVE  OneOwnerPerFile'
  BY <1>1, <1>2, OwnersStay DEF MayWrite, Exists
<1>3. ASSUME NEW c \in Calls, NEW s \in Sessions, NEW st, NEW kind, NEW file, NEW ticket, NEW x \in {GoalFor(s), NoGoal},
             Begins(c, s), Made(c, s, st, kind, file, x, ticket), resv' = resv \cup {c},
             x # NoGoal => MayWrite(x) \/ ReadOnly(s) \/ Unprotected(s)
      PROVE  OneOwnerPerFile'
  <2>1. /\ \A d \in resv : call'[d].goal = call[d].goal
        /\ call'[c].goal = x
    BY <1>3 DEF Made, Begins, FenceInv, ReservedTools, TypeOK
  <2>2. CASE x = NoGoal
    BY <1>1, <1>3, <2>1, <2>2, NoGoalAssumption, OwnersStay DEF MayWrite, Exists
  <2>3. CASE x # NoGoal /\ MayWrite(x)
    BY <1>1, <1>3, <2>1, <2>3, OwnersStay DEF MayWrite, Exists
  <2>4. CASE x # NoGoal /\ ~MayWrite(x)
    <3>1. x \in Goals /\ s = Worker(x) /\ Exists(x)
      BY <1>3, <2>4, GoalForType, GoalForWorks
    <3>2. \A g \in WorksFor(s) : g = x
      BY <3>1 DEF WorksFor, Worker
    <3>3. x \in WorksFor(s)
      BY <3>1 DEF WorksFor
    <3>4. \A h \in Goals \ {x} : MayWrite(h)' => MayWrite(h)
      BY <1>1, <1>3, <2>1 DEF MayWrite, Exists
    <3>5. CASE ReadOnly(s)
      <4>1. goal[x].mode = "readonly"
        BY <3>2, <3>5 DEF ReadOnly
      <4> QED
        BY <1>1, <3>1, <3>4, <4>1, CoversCases, OwnerMoves
    <3>6. CASE Unprotected(s)
      <4>1. goal[x].mode # "scoped" /\ \A h \in Goals : MayWrite(h) => goal[h].mode # "scoped"
        BY <3>3, <3>6, MayWriteHeld DEF Unprotected
      <4> QED
        BY <1>1, <3>1, <3>4, <4>1, OwnerMoves
    <3> QED
      BY <1>3, <2>4, <3>5, <3>6
  <2> QED
    BY <2>2, <2>3, <2>4
<1>4. ASSUME NEW c \in Calls, NEW s \in Sessions, BeginShell(c, s) PROVE OneOwnerPerFile'
  <2>1. CASE Denied(c)
    BY <1>4, <1>2, <2>1, NoGoalAssumption DEF Denied, Over, Unmade, TypeOK
  <2>2. CASE ~Denied(c)
    BY <1>4, <1>3, <2>2 DEF BeginShell
  <2> QED
    BY <2>1, <2>2
<1>5. ASSUME NEW c \in Calls, NEW s \in Sessions, NEW f \in Files, BeginFreeWrite(c, s, f) PROVE OneOwnerPerFile'
  BY <1>5, <1>3 DEF BeginFreeWrite
<1>6. ASSUME NEW c \in Calls, NEW s \in Sessions, NEW f \in Files, BeginTicketedWrite(c, s, f) PROVE OneOwnerPerFile'
  <2>1. CASE Over(c, "denied") /\ resv' = resv
    BY <1>2, <2>1, NoGoalAssumption DEF Over, Unmade, TypeOK
  <2>2. CASE Made(c, s, "denied", "write", {f}, GoalFor(s), FALSE) /\ resv' = resv
    <3>1. c \notin resv
      BY <1>6 DEF BeginTicketedWrite, Begins, FenceInv, ReservedTools
    <3> QED
      BY <1>2, <2>2, <3>1 DEF Made, TypeOK
  <2>3. CASE ~Refused(s, f) /\ Made(c, s, "running", "write", {f}, GoalFor(s), TRUE) /\ resv' = resv \cup {c}
    <3>1. GoalFor(s) # NoGoal => MayWrite(GoalFor(s))
      <4>1. SUFFICES ASSUME GoalFor(s) # NoGoal PROVE MayWrite(GoalFor(s))
        OBVIOUS
      <4>2. GoalFor(s) \in Goals /\ GoalFor(s) \in WorksFor(s) /\ Exists(GoalFor(s))
        BY <4>1, GoalForType, GoalForWorks DEF WorksFor
      <4>3. goal[GoalFor(s)].st = "active"
        BY <2>3, <4>2 DEF Refused, Suspended
      <4> QED
        BY <4>2, <4>3 DEF MayWrite
    <3>2. Begins(c, s)
      BY <1>6 DEF BeginTicketedWrite
    <3> QED
      BY <1>3, <2>3, <3>1, <3>2
  <2> QED
    BY <1>6, <2>1, <2>2, <2>3 DEF BeginTicketedWrite, Denied
<1>7. ASSUME NEW c \in Calls, NEW s \in Sessions, NEW kind \in Operations, AskOperation(c, s, kind) PROVE OneOwnerPerFile'
  <2>1. c \notin resv
    BY <1>7 DEF AskOperation, Begins, FenceInv, ReservedTools
  <2> QED
    BY <1>7, <1>2, <2>1 DEF AskOperation, Made, TypeOK
<1>8. ASSUME NEW c \in Calls, ToolExit(c) \/ HookLost(c) PROVE OneOwnerPerFile'
  <2>1. \A d \in Calls : call'[d].goal = call[d].goal
    BY <1>8 DEF ToolExit, HookLost, TypeOK, CallRecords
  <2> QED
    BY <1>8, <1>2, <2>1 DEF ToolExit, HookLost, TypeOK
<1>9. ASSUME NEW c \in Calls, AfterHook(c) \/ OperationEnd(c) PROVE OneOwnerPerFile'
  BY <1>9, <1>2, NoGoalAssumption DEF AfterHook, OperationEnd, Over, Unmade, TypeOK
<1>10. ASSUME NEW c \in Calls, BeginOperation(c) PROVE OneOwnerPerFile'
  <2>1. \A d \in Calls : call'[d].goal \in Goals => call'[d].goal = call[d].goal
    <3>1. CASE Over(c, "denied")
      BY <3>1, NoGoalAssumption DEF Over, Unmade, TypeOK
    <3>2. CASE call' = [call EXCEPT ![c].st = "running"]
      BY <3>2 DEF TypeOK, CallRecords
    <3> QED
      BY <1>10, <3>1, <3>2 DEF BeginOperation
  <2> QED
    BY <1>10, <1>2, <2>1 DEF BeginOperation, TypeOK
<1> QED
  BY <1>4, <1>5, <1>6, <1>7, <1>8, <1>9, <1>10 DEF Tools

\* Closing flags are only reset, with what the goals are otherwise.
LEMMA UnclosedStays ==
    ASSUME TypeOK, NEW R, NEW h \in Goals
    PROVE  /\ Unclosed(R)[h].st = goal[h].st /\ Unclosed(R)[h].mode = goal[h].mode
           /\ Unclosed(R)[h].scope = goal[h].scope /\ (Unclosed(R)[h].closing => goal[h].closing)
BY DEF Unclosed, TypeOK, GoalRecords

LEMMA OwnersMaintenance ==
    ASSUME TypeOK, OneOwnerPerFile, Maintenance
    PROVE  OneOwnerPerFile'
<1> USE DEF tables, outside
<1>1. resv' \subseteq resv /\ UNCHANGED call
  BY DEF Maintenance, reconcileIdleSessionCalls, releaseAbsentSessionWorkspaceCalls, releaseTerminalWorkspaceCalls,
         sweepStaleWorkspaceState, ReconcileSweep, TerminalProof
<1>2. \A h \in Goals : /\ goal'[h].st = goal[h].st /\ goal'[h].mode = goal[h].mode
                       /\ goal'[h].scope = goal[h].scope /\ (goal'[h].closing => goal[h].closing)
  BY UnclosedStays DEF Maintenance, reconcileIdleSessionCalls, releaseAbsentSessionWorkspaceCalls,
     releaseTerminalWorkspaceCalls, sweepStaleWorkspaceState, ReconcileSweep
<1>3. hist.granted \subseteq hist'.granted
  BY ReleasedGrows DEF Next
<1> QED
  BY <1>1, <1>2, <1>3, OwnersStay DEF MayWrite, Exists

\* What assertScopeAvailable has looked at.
LEMMA ScopeTaken ==
    ASSUME NEW g \in Goals, NEW scope, NEW closing, assertScopeAvailable(g, scope, closing)
    PROVE  \A h \in Goals \ {g} : MayWrite(h) => Owns(h) \cap Covers(goal[g].mode, scope) = {}
BY MayWriteHeld, CoversCases DEF assertScopeAvailable

LEMMA OwnersLifecycle ==
    ASSUME TypeOK, OneOwnerPerFile, Lifecycle
    PROVE  OneOwnerPerFile'
<1> USE DEF tables, outside, Verb
<1>1. /\ UNCHANGED call /\ resv' \subseteq resv
      /\ hist.granted \subseteq hist'.granted
  BY VerbsSpare
<1>2. ASSUME NEW g \in Goals, \A h \in Goals \ {g} : goal'[h] = goal[h],
             goal'[g].mode = goal[g].mode, goal'[g].scope = goal[g].scope,
             Exists(g)' => Exists(g),
             goal'[g].st = "active" \/ goal'[g].closing => goal[g].st = "active" \/ goal[g].closing
      PROVE  OneOwnerPerFile'
  BY <1>1, <1>2, OwnersStay DEF MayWrite, Exists
<1>3. ASSUME NEW g \in Goals, grantWriteScope(g) PROVE OneOwnerPerFile'
  <2>1. CASE Exists(g)
    <3>1. /\ \A h \in Goals \ {g} : goal'[h] = goal[h]
          /\ goal'[g].mode = goal[g].mode /\ goal'[g].scope = goal[g].scope \cup pending.granting[g]
          /\ goal'[g].st = goal[g].st /\ goal'[g].closing = goal[g].closing
      BY <1>3, <2>1 DEF grantWriteScope, TypeOK, GoalRecords
    <3>2. hist'.granted = hist.granted \cup pending.granting[g]
      BY <1>3 DEF grantWriteScope, TypeOK, HistRecords
    <3>3. Covers(goal[g].mode, goal'[g].scope) \subseteq Covers(goal[g].mode, goal[g].scope) \cup pending.granting[g]
      <4>1. goal[g].mode \in Modes
        BY DEF TypeOK, GoalRecords
      <4> QED
        BY <3>1, <4>1, CoversCases DEF Modes
    <3>4. MayWrite(g)' => MayWrite(g)
      BY <1>1, <3>1 DEF MayWrite, Exists
    <3>5. CASE MayWrite(g)
      <4>1. \A h \in Goals \ {g} : MayWrite(h) /\ (goal[g].mode = "scoped" \/ goal[h].mode = "scoped") =>
              Owns(h) \cap Owns(g) \subseteq hist.granted
        BY <3>5 DEF OneOwnerPerFile
      <4>2. \A h \in Goals \ {g} : MayWrite(h) /\ (goal'[g].mode = "scoped" \/ goal[h].mode = "scoped") =>
              Owns(h) \cap Covers(goal'[g].mode, goal'[g].scope) \subseteq hist'.granted
        BY <3>1, <3>2, <3>3, <4>1 DEF Owns
      <4> QED
        BY <1>1, <3>1, <4>2, OwnerMoves DEF MayWrite, Exists
    <3>6. CASE ~MayWrite(g)
      BY <1>1, <3>1, <3>4, <3>6, OwnersStay DEF MayWrite, Exists
    <3> QED
      BY <3>5, <3>6
  <2>2. CASE ~Exists(g)
    BY <1>1, <1>3, <2>2, OwnersStay DEF grantWriteScope, MayWrite, Exists
  <2> QED
    BY <2>1, <2>2
<1>4. ASSUME NEW g \in Goals, PauseClose(g) \/ PausePark(g) \/ pause(g) \/ attachWorker(g) \/ clear(g) \/ complete(g)
      PROVE  OneOwnerPerFile'
  <2>1. goal[g] \in GoalRecords
    BY DEF TypeOK
  <2>2. /\ \A h \in Goals \ {g} : goal'[h] = goal[h]
        /\ goal'[g].mode = goal[g].mode /\ goal'[g].scope = goal[g].scope
    BY <1>4, <2>1 DEF PauseClose, PausePark, pause, attachWorker, clear, complete, Parked, TypeOK, GoalRecords
  <2>3. /\ Exists(g)' => Exists(g)
        /\ goal'[g].st = "active" \/ goal'[g].closing => goal[g].st = "active" \/ goal[g].closing
    BY <1>4, <2>1 DEF PauseClose, PausePark, pause, attachWorker, clear, complete, Parked, TypeOK, GoalRecords, Exists
  <2> QED
    BY <1>2, <2>2, <2>3
<1>5. ASSUME NEW g \in Goals, tick(g) PROVE OneOwnerPerFile'
  <2>1. /\ \A h \in Goals \ {g} : goal'[h] = goal[h]
        /\ goal'[g].mode = goal[g].mode /\ goal'[g].scope = goal[g].scope
    BY <1>5 DEF tick, TypeOK, GoalRecords
  <2>2. \A h \in Goals \ {g} : MayWrite(h) => Owns(h) \cap Covers(goal[g].mode, goal[g].scope) = {}
    BY <1>5, ScopeTaken DEF tick
  <2> QED
    BY <1>1, <2>1, <2>2, OwnerMoves DEF MayWrite, Exists
<1>6. ASSUME NEW g \in Goals, NEW k \in Contracts, start(g, k) PROVE OneOwnerPerFile'
  <2>1. /\ \A h \in Goals \ {g} : goal'[h] = goal[h]
        /\ goal'[g].mode = k.mode /\ goal'[g].scope = k.scope
    BY <1>6 DEF start, TypeOK, GoalRecords
  <2>2. \A h \in Goals \ {g} : MayWrite(h) => Owns(h) \cap Covers(k.mode, k.scope) = {}
    BY <1>6, MayWriteHeld, CoversCases DEF start
  <2> QED
    BY <1>1, <2>1, <2>2, OwnerMoves DEF MayWrite, Exists
<1>7. ASSUME NEW g \in Goals, NEW f \in Files, claimGoalScope(g, f) PROVE OneOwnerPerFile'
  <2>1. /\ \A h \in Goals \ {g} : goal'[h] = goal[h]
        /\ goal'[g].mode = goal[g].mode /\ goal'[g].scope = goal[g].scope \cup {f}
    BY <1>7 DEF claimGoalScope, TypeOK, GoalRecords
  <2>2. \A h \in Goals \ {g} : MayWrite(h) => Owns(h) \cap Covers(goal[g].mode, goal[g].scope \cup {f}) = {}
    BY <1>7, ScopeTaken DEF claimGoalScope
  <2> QED
    BY <1>1, <2>1, <2>2, OwnerMoves DEF MayWrite, Exists
<1>8. ASSUME NEW g \in Goals, NEW f \in Files, AskGrant(g, f) PROVE OneOwnerPerFile'
  BY <1>1, <1>8, OwnersStay DEF AskGrant, MayWrite, Exists
<1>9. ASSUME NEW g \in Goals, NEW P \in SUBSET Calls, resume(g, P) PROVE OneOwnerPerFile'
  <2>1. PICK u : u = Unclosed(resv)
    OBVIOUS
  <2>2. u \in [Goals -> GoalRecords]
    BY <2>1, UnclosedType
  <2>3. goal' = [u EXCEPT ![g] = [@ EXCEPT !.st = "active", !.closing = FALSE, !.n = Rotated(g)]]
    BY <1>9, <2>1 DEF resume
  <2>4. /\ \A h \in Goals \ {g} : goal'[h] = u[h]
        /\ goal'[g].mode = u[g].mode /\ goal'[g].scope = u[g].scope
    BY <2>2, <2>3 DEF GoalRecords
  <2>5. \A h \in Goals : /\ u[h].st = goal[h].st /\ u[h].mode = goal[h].mode
                         /\ u[h].scope = goal[h].scope /\ (u[h].closing => goal[h].closing)
    BY <2>1, UnclosedStays
  <2>6. \A h \in Goals \ {g} : MayWrite(h) => Owns(h) \cap Covers(goal[g].mode, goal[g].scope) = {}
    BY <1>9, ScopeTaken DEF resume
  <2> QED
    BY <1>1, <2>4, <2>5, <2>6, OwnerMoves DEF MayWrite, Exists
<1>10. ASSUME NEW C \in SUBSET Calls, releaseWorkspace(C) PROVE OneOwnerPerFile'
  <2>1. \A h \in Goals : /\ goal'[h].st = goal[h].st /\ goal'[h].mode = goal[h].mode
                         /\ goal'[h].scope = goal[h].scope /\ (goal'[h].closing => goal[h].closing)
    BY <1>10, UnclosedStays DEF releaseWorkspace
  <2> QED
    BY <1>1, <2>1, OwnersStay DEF MayWrite, Exists
<1> QED
  BY <1>3, <1>4, <1>5, <1>6, <1>7, <1>8, <1>9, <1>10 DEF Lifecycle

LEMMA OwnersStep == TypeOK /\ FenceInv /\ OneOwnerPerFile /\ [Next]_vars => OneOwnerPerFile'
<1> SUFFICES ASSUME TypeOK, FenceInv, OneOwnerPerFile, [Next]_vars PROVE OneOwnerPerFile'
  OBVIOUS
<1>1. hist.granted \subseteq hist'.granted
  BY ReleasedGrows
<1>2. CASE UNCHANGED <<goal, resv>> /\ \A c \in Calls : call'[c].goal = call[c].goal
  BY <1>1, <1>2, OwnersStay DEF MayWrite, Exists, TypeOK
<1>3. CASE Turns
  BY <1>2, <1>3 DEF Turns, TurnStart, TurnEnd, SessionGone, tables
<1>4. CASE Parking
  BY <1>2, <1>4 DEF Parking, fireFenceAwaits, AskPark, Park, tables
<1>5. CASE Crash
  BY <1>2, <1>5 DEF Crash, TypeOK, CallRecords, tables
<1>6. CASE UNCHANGED vars
  BY <1>2, <1>6 DEF vars
<1> QED
  BY <1>3, <1>4, <1>5, <1>6, OwnersTools, OwnersMaintenance, OwnersLifecycle DEF Next

(* A scoped goal that may write shares no file with another goal that may,  *)
(* unless grantWriteScope gave it the file: start, resume, the schedule and *)
(* claims look at every goal that is held, and calls join no other goal.    *)
THEOREM OwnersApart == Spec => []OneOwnerPerFile
<1>1. Init => OneOwnerPerFile
  BY DEF Init, OneOwnerPerFile, MayWrite, Exists
<1> QED
  BY <1>1, InitType, TypeStep, InitFence, FenceStep, OwnersStep, PTL DEF Spec
-----------------------------------------------------------------------------
(***************************************************************************)
(* Activation over a quiet workspace: what start, resume and the schedule   *)
(* see of the reservations is what executes.                                *)
(***************************************************************************)
QuietFor(scope) ==
    \A c \in Calls \ hist.released : Writes(c) => call[c].kind = "write" /\ call[c].file \cap scope = {}

QuietActivated ==
    \A g \in Goals : goal[g].st # "active" /\ goal'[g].st = "active" /\ goal'[g].mode = "scoped" => QuietFor(goal'[g].scope)

LEMMA ReservationsTell ==
    ASSUME TypeOK, FenceInv, NEW scope, \A c \in resv : ~Uncontrolled(c) /\ call[c].file \cap scope = {}
    PROVE  QuietFor(scope)
BY DEF QuietFor, FenceInv, FenceHeld, ShellsNameNothing, Uncontrolled, Writes, TypeOK

LEMMA ActivationQuiet == TypeOK /\ FenceInv /\ [Next]_vars => QuietActivated
<1> SUFFICES ASSUME TypeOK, FenceInv, [Next]_vars,
                    NEW g \in Goals, goal[g].st # "active", goal'[g].st = "active", goal'[g].mode = "scoped"
             PROVE  QuietFor(goal'[g].scope)
  BY DEF QuietActivated
<1> USE DEF tables, outside, Verb
<1>1. ~UNCHANGED goal
  OBVIOUS
<1>2. CASE Turns \/ Tools \/ Parking \/ Crash \/ UNCHANGED vars
  BY <1>1, <1>2 DEF Turns, TurnStart, TurnEnd, SessionGone, Tools, BeginShell, BeginFreeWrite, BeginTicketedWrite, AskOperation,
     ToolExit, AfterHook, HookLost, BeginOperation, OperationEnd, Parking, fireFenceAwaits, AskPark, Park, Crash, vars
<1>3. CASE Maintenance
  <2>1. goal'[g].st = goal[g].st
    BY <1>3, UnclosedStays DEF Maintenance, reconcileIdleSessionCalls, releaseAbsentSessionWorkspaceCalls,
       releaseTerminalWorkspaceCalls, sweepStaleWorkspaceState, ReconcileSweep
  <2> QED
    BY <2>1
<1>4. CASE Lifecycle
  <2>1. ASSUME NEW h \in Goals, NEW scope, NEW closing, assertScopeAvailable(h, scope, closing), goal[h].mode = "scoped"
        PROVE  QuietFor(scope)
    BY <2>1, CoversCases, ReservationsTell DEF assertScopeAvailable
  <2>2. ASSUME NEW h \in Goals, NEW k \in Contracts, start(h, k) PROVE QuietFor(goal'[g].scope)
    <3>1. g = h /\ k.mode = "scoped" /\ goal'[g].scope = k.scope
      BY <2>2 DEF start, TypeOK, GoalRecords
    <3> QED
      BY <2>2, <3>1, CoversCases, ReservationsTell DEF start
  <2>3. ASSUME NEW h \in Goals, tick(h) PROVE QuietFor(goal'[g].scope)
    <3>1. g = h /\ goal[h].mode = "scoped" /\ goal'[g].scope = goal[h].scope
      BY <2>3 DEF tick, TypeOK, GoalRecords
    <3> QED
      BY <2>1, <2>3, <3>1 DEF tick
  <2>4. ASSUME NEW h \in Goals, NEW P \in SUBSET Calls, resume(h, P) PROVE QuietFor(goal'[g].scope)
    <3>1. PICK u : u = Unclosed(resv)
      OBVIOUS
    <3>2. u \in [Goals -> GoalRecords]
      BY <3>1, UnclosedType
    <3>3. \A x \in Goals : u[x].st = goal[x].st /\ u[x].mode = goal[x].mode /\ u[x].scope = goal[x].scope
      BY <3>1, UnclosedStays
    <3>4. goal' = [u EXCEPT ![h] = [@ EXCEPT !.st = "active", !.closing = FALSE, !.n = Rotated(h)]]
      BY <2>4, <3>1 DEF resume
    <3>5. g = h /\ goal'[g].mode = u[h].mode /\ goal'[g].scope = u[h].scope
      BY <3>2, <3>3, <3>4 DEF GoalRecords
    <3> QED
      BY <2>1, <2>4, <3>3, <3>5 DEF resume
  <2>5. ASSUME NEW h \in Goals, grantWriteScope(h) \/ PauseClose(h) \/ PausePark(h) \/ pause(h) \/ attachWorker(h) \/ clear(h)
                                  \/ complete(h) \/ \E f \in Files : claimGoalScope(h, f) \/ AskGrant(h, f)
        PROVE  FALSE
    <3>1. CASE goal' = goal
      BY <1>1, <3>1
    <3>2. CASE grantWriteScope(h) \/ PauseClose(h) \/ attachWorker(h) \/ \E f \in Files : claimGoalScope(h, f) \/ AskGrant(h, f)
      <4>1. goal'[g].st = goal[g].st
        <5>1. CASE grantWriteScope(h)
          BY <5>1 DEF grantWriteScope, TypeOK, GoalRecords
        <5>2. CASE PauseClose(h) \/ attachWorker(h)
          BY <5>2 DEF PauseClose, attachWorker, TypeOK, GoalRecords
        <5>3. ASSUME NEW f \in Files, claimGoalScope(h, f) PROVE goal'[g].st = goal[g].st
          BY <5>3 DEF claimGoalScope, TypeOK, GoalRecords
        <5> QED
          BY <3>2, <5>1, <5>2, <5>3 DEF AskGrant
      <4> QED
        BY <4>1
    <3>3. CASE PausePark(h) \/ pause(h) \/ clear(h) \/ complete(h)
      <4>1. goal'[g].st = goal[g].st \/ goal'[g].st \in {"paused", "gone", "complete"}
        BY <3>3 DEF PausePark, pause, Parked, clear, complete, TypeOK, GoalRecords
      <4> QED
        BY <4>1
    <3> QED
      BY <2>5, <3>2, <3>3
  <2>6. ASSUME NEW C \in SUBSET Calls, releaseWorkspace(C) PROVE FALSE
    BY <2>6, UnclosedStays DEF releaseWorkspace
  <2> QED
    BY <1>4, <2>2, <2>3, <2>4, <2>5, <2>6 DEF Lifecycle
<1> QED
  BY <1>2, <1>3, <1>4 DEF Next

(* When a scoped goal becomes active, no shell executes anywhere and no     *)
(* tool is writing its files, unless the owner declared the call dead.      *)
THEOREM ActivatesOverQuiet == Spec => QuietActivation
<1>1. TypeOK /\ FenceInv /\ [Next]_vars => [QuietActivated]_vars
  BY ActivationQuiet
<1>2. QuietActivation <=> [][QuietActivated]_vars
  BY DEF QuietActivation, QuietActivated, QuietFor
<1> QED
  BY <1>1, <1>2, InitType, TypeStep, InitFence, FenceStep, PTL DEF Spec
=============================================================================
