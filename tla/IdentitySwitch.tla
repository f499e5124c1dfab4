---------------------------- MODULE IdentitySwitch ----------------------------
(***************************************************************************)
(* Which model and agent a worker runs under: what the goal is configured   *)
(* with, what its session at the host has, and what waits for the next turn. *)
(*                                                                          *)
(*   application/goal-service.ts   switches, deferred switches, fallbacks   *)
(*   server/host-adapter.ts        what a host does with a switch           *)
(*   domain/provider-limit.ts      errors that are a provider's limit       *)
(*                                                                          *)
(* The operations of a goal run one at a time (withGoalOperation): "op" is  *)
(* the one in progress, a switch of the owner, a turn or a compaction that  *)
(* first applies what is deferred, or the note of a limit.  Not serialized: *)
(* the worker's turns and their ends, the user typing into its session, the *)
(* engine charging a failed turn, and the end of the plugin.                *)
(*                                                                          *)
(* Abstractions.  The goal has no file scope, and is configured with both a *)
(* model and an agent, so that what to roll back to is known.  A host that  *)
(* cannot switch refuses before anything changes: such requests are left    *)
(* out.  No other failure comes between a charge and the note of its limit, *)
(* and the engine does not judge a turn before its prompt was taken.        *)
(***************************************************************************)
EXTENDS Naturals, FiniteSets

CONSTANTS
    Models, Agents, None,
    Fallbacks,   \* config.fallbackModels
    Surfaces,    \* what a host applies to a session at once: v2 both, v1 less
    Faults,      \* what may fail
    MaxFaults,   \* bound: how often it may
    MaxTurns,    \* bound: prompts, the user's too
    MaxVerbs     \* bound: requests of the owner

ASSUME NoneAssumption == None \notin Models \cup Agents
ASSUME FallbacksAssumption == Fallbacks \subseteq Models
ASSUME SurfacesAssumption == Surfaces \subseteq SUBSET {"model", "agent"}
ASSUME FaultsAssumption == Faults \subseteq {"catalog", "status", "host", "state", "prompt", "crash"}
ASSUME BoundsAssumption == MaxFaults \in Nat /\ MaxTurns \in Nat /\ MaxVerbs \in Nat

VARIABLES
    goal,     \* status, blocker.kind = "provider-limit", config.model and config.agent
    deferred, \* modelSwitch.pending and its reason, agentSwitch.pending, pendingIdentity
    tried,    \* modelFallback.attempted
    lease,    \* the runtime is running under a valid lease
    session,  \* external: the identity of the worker session
    surface,  \* external: what this host applies to a session at once
    worker,   \* external: idle, in a turn of the goal, or in one of the user
    limits,   \* models of charged turns whose limit the engine has to note
    op,       \* the goal's operation in progress
    torn,     \* history: a switch was cut short where nothing could undo it
    prepared, \* history: how often each fallback was prepared
    bound

vars == <<goal, deferred, tried, lease, session, surface, worker, limits, op, torn, prepared, bound>>

Nothing == [model |-> None, why |-> "none", agent |-> None, both |-> <<None, None>>]
Rest == [at |-> "rest", for |-> "owner", want |-> <<None, None>>, resume |-> FALSE, lease |-> FALSE,
         changed |-> {}, was |-> <<None, None>>, snap |-> Nothing, pick |-> None]

Configured == <<goal.model, goal.agent>>
Identity == <<session.model, session.agent>>

Init ==
    /\ \E m \in Models, a \in Agents :
          /\ goal = [st |-> "active", limit |-> FALSE, model |-> m, agent |-> a]
          /\ session = [model |-> m, agent |-> a]
    /\ deferred = Nothing /\ tried = {} /\ lease = FALSE
    /\ surface \in Surfaces
    /\ worker = "idle" /\ limits = {} /\ op = Rest /\ torn = FALSE
    /\ prepared = [m \in Models |-> 0]
    /\ bound = [turns |-> 0, verbs |-> 0, faults |-> 0]
-----------------------------------------------------------------------------
Spend(what, most) == bound[what] < most /\ bound' = [bound EXCEPT ![what] = @ + 1]
Fails(what) == what \in Faults /\ Spend("faults", MaxFaults)
At(l) == op.at = l
Goto(l) == op' = [op EXCEPT !.at = l]
Has(want) == want # None
Kind(want) == IF Has(want[1]) /\ Has(want[2]) THEN "both" ELSE IF Has(want[1]) THEN "model" ELSE "agent"
Combined == Kind(op.want) = "both"

\* Where an operation goes on after a switch, and where when it threw.
Done ==
    IF op.for = "owner" THEN IF op.resume THEN "resume" ELSE "rest"
    ELSE IF Combined THEN "turn-model" ELSE IF Has(op.want[1]) THEN "turn-agent" ELSE "acquire"
Thrown == IF op.for = "owner" THEN "rest" ELSE "failed"
Finish(l) ==
    op' = IF l = "rest" THEN Rest
          ELSE IF l \in {"turn-model", "turn-agent", "acquire"} THEN [Rest EXCEPT !.at = l, !.for = op.for, !.snap = op.snap]
          ELSE [op EXCEPT !.at = l]
-----------------------------------------------------------------------------
(* switchIdentity(), switchModel() and switchAgent(): a stored combined     *)
(* request completes one that names only half of it.                        *)
Merged(m, a) ==
    IF deferred.both = <<None, None>> THEN <<m, a>>
    ELSE <<IF Has(m) THEN m ELSE deferred.both[1], IF Has(a) THEN a ELSE deferred.both[2]>>

\* A switch of the model alone resumes only from a provider's limit.
Resumable(kind) == goal.st = "blocked" /\ (kind = "model" => goal.limit)

Ask(m, a, resume) ==
    /\ At("rest") /\ (Has(m) \/ Has(a))
    /\ goal.st # "complete" /\ Spend("verbs", MaxVerbs)
    /\ LET want == Merged(m, a) IN
       /\ resume => Resumable(Kind(want))
       /\ op' = [Rest EXCEPT !.at = "status", !.want = want, !.resume = resume, !.lease = lease, !.was = Configured]
    /\ UNCHANGED <<goal, deferred, tried, lease, session, surface, worker, limits, torn, prepared>>

\* The worker is asked after, the lease is the one read before.
Busy == worker # "idle" \/ op.lease

FindStatus ==
    /\ At("status")
    /\ \/ /\ Goto(IF Busy THEN "defer" ELSE IF Combined THEN "model-status" ELSE IF Has(op.want[1]) THEN "model" ELSE "agent")
          /\ UNCHANGED bound
       \/ Fails("status") /\ Goto("defer")
    /\ UNCHANGED <<goal, deferred, tried, lease, session, surface, worker, limits, torn, prepared>>

Deferring(kind, d) ==
    /\ At("defer") /\ Kind(op.want) = kind
    /\ deferred' = d
    /\ Finish(IF op.for = "owner" THEN "rest" ELSE "turn-model")
    /\ UNCHANGED <<goal, tried, lease, session, surface, worker, limits, torn, prepared, bound>>

DeferModel == Deferring("model", [deferred EXCEPT !.model = op.want[1], !.why = "owner"])
DeferAgent == Deferring("agent", [deferred EXCEPT !.agent = op.want[2]])
DeferIdentity == Deferring("both", [Nothing EXCEPT !.both = op.want])

\* Each half of a combined switch looks again, and gives up if busy.
LookAgain ==
    /\ At("model-status") \/ At("agent-status")
    /\ LET half == IF At("model-status") THEN "model" ELSE "agent" IN
       \/ worker = "idle" /\ ~lease /\ Goto(half) /\ UNCHANGED bound
       \/ (worker # "idle" \/ lease) /\ Goto("rollback") /\ UNCHANGED bound
       \/ Fails("status") /\ Goto("rollback")
    /\ UNCHANGED <<goal, deferred, tried, lease, session, surface, worker, limits, torn, prepared>>

(* applyModel() and applyAgent(): the host, then the state.  A host that    *)
(* answers too late counts as one that refused, and switches all the same.  *)
HostTakes(d, value) ==
    /\ At(d)
    /\ \/ /\ session' = [session EXCEPT ![d] = IF d \in surface THEN value ELSE @]
          /\ op' = [op EXCEPT !.changed = @ \cup {d}, !.at = IF Combined /\ d = "model" THEN "agent-status" ELSE "persist"]
          /\ UNCHANGED <<torn, bound>>
       \/ /\ d \in surface /\ Fails("host")
          /\ \/ UNCHANGED <<session, torn>>
             \/ session' = [session EXCEPT ![d] = value] /\ torn' = TRUE
          /\ Finish(IF Combined THEN "rollback" ELSE Thrown)
    /\ UNCHANGED <<goal, deferred, tried, lease, surface, worker, limits, prepared>>

HostModel == HostTakes("model", op.want[1])
HostAgent == HostTakes("agent", op.want[2])

\* Mutant: a failed save leaves the host as it is.
SavingOrLeave(kind, g, d) ==
    /\ At("persist") /\ Kind(op.want) = kind
    /\ \/ goal' = g /\ deferred' = d /\ Finish(Done) /\ UNCHANGED bound
       \/ Fails("state") /\ Finish(Thrown) /\ UNCHANGED <<goal, deferred>>
    /\ UNCHANGED <<tried, lease, session, surface, worker, limits, torn, prepared>>

Saving(kind, g, d) ==
    /\ At("persist") /\ Kind(op.want) = kind
    /\ \/ goal' = g /\ deferred' = d /\ Finish(Done) /\ UNCHANGED bound
       \/ Fails("state") /\ Goto("rollback") /\ UNCHANGED <<goal, deferred>>
    /\ UNCHANGED <<tried, lease, session, surface, worker, limits, torn, prepared>>

SaveModel == Saving("model", [goal EXCEPT !.model = op.want[1]], [deferred EXCEPT !.model = None, !.why = "none"])
SaveAgent == Saving("agent", [goal EXCEPT !.agent = op.want[2]], [deferred EXCEPT !.agent = None])
SaveIdentity == Saving("both", [goal EXCEPT !.model = op.want[1], !.agent = op.want[2]], Nothing)

\* What the host accepted is switched back; it may refuse that too.
Rollback ==
    /\ At("rollback")
    /\ \/ /\ session' = [d \in {"model", "agent"} |->
                           IF d \in op.changed \cap surface THEN op.was[IF d = "model" THEN 1 ELSE 2] ELSE session[d]]
          /\ UNCHANGED <<torn, bound>>
       \/ op.changed \cap surface # {} /\ Fails("host") /\ torn' = TRUE /\ UNCHANGED session
    /\ Finish(Thrown)
    /\ UNCHANGED <<goal, deferred, tried, lease, surface, worker, limits, prepared>>

Resuming(kind, may) ==
    /\ At("resume") /\ Kind(op.want) = kind
    /\ goal' = IF may THEN [goal EXCEPT !.st = "active", !.limit = FALSE] ELSE goal
    /\ op' = [Rest EXCEPT !.at = "continue", !.for = "prompt"]
    /\ UNCHANGED <<deferred, tried, lease, session, surface, worker, limits, torn, prepared, bound>>

ResumeModel == Resuming("model", Resumable("model"))
ResumeAgent == Resuming("agent", Resumable("agent"))
ResumeIdentity == Resuming("both", TRUE)
-----------------------------------------------------------------------------
(* continueTurn() and compact(): what is deferred is applied first, from    *)
(* the goal as it was read when the operation began.                        *)
Continue ==
    /\ At("rest") /\ goal.st = "active" /\ ~lease /\ bound.turns < MaxTurns
    /\ \E what \in {"prompt", "compact"} : op' = [Rest EXCEPT !.at = "continue", !.for = what]
    /\ UNCHANGED <<goal, deferred, tried, lease, session, surface, worker, limits, torn, prepared, bound>>

BeginTurn ==
    /\ At("continue")
    /\ IF goal.st = "active" /\ ~lease /\ worker = "idle"
       THEN op' = [op EXCEPT !.at = "turn-both", !.snap = deferred]
       ELSE Finish("rest")
    /\ UNCHANGED <<goal, deferred, tried, lease, session, surface, worker, limits, torn, prepared, bound>>

(* One after the other: the combined request, the model, the agent.         *)
Apply(d, want, next, where) ==
    /\ At(d)
    /\ \/ want = <<None, None>> /\ Finish(next) /\ UNCHANGED bound
       \/ /\ want # <<None, None>> /\ UNCHANGED bound
          /\ op' = [op EXCEPT !.at = where, !.want = want, !.lease = lease, !.changed = {}, !.was = Configured]
       \/ want # <<None, None>> /\ Fails("catalog") /\ op' = [op EXCEPT !.at = "failed", !.want = want]
    /\ UNCHANGED <<goal, deferred, tried, lease, session, surface, worker, limits, torn, prepared>>

applyPendingIdentity == Apply("turn-both", op.snap.both, "turn-model", "status")
applyPendingModel == Apply("turn-model", <<op.snap.model, None>>, "turn-agent", "model")
applyPendingAgent == Apply("turn-agent", <<None, op.snap.agent>>, "acquire", "agent")

\* A deferred switch that was not accepted is dropped, and blocks the goal.
SwitchFailed(kind, d) ==
    /\ At("failed") /\ Kind(op.want) = kind
    /\ deferred' = d
    /\ goal' = IF goal.st = "active" THEN [goal EXCEPT !.st = "blocked", !.limit = FALSE] ELSE goal
    /\ lease' = FALSE /\ Finish("rest")
    /\ UNCHANGED <<tried, session, surface, worker, limits, torn, prepared, bound>>

ModelFailed == SwitchFailed("model", [deferred EXCEPT !.model = None, !.why = "none"])
AgentFailed == SwitchFailed("agent", [deferred EXCEPT !.agent = None])
IdentityFailed == SwitchFailed("both", [deferred EXCEPT !.both = <<None, None>>])

Acquire ==
    /\ At("acquire")
    /\ IF op.for = "prompt" /\ goal.st = "active" /\ ~lease
       THEN lease' = TRUE /\ Goto("prompt")
       ELSE Finish("rest") /\ UNCHANGED lease
    /\ UNCHANGED <<goal, deferred, tried, session, surface, worker, limits, torn, prepared, bound>>

\* promptWorker() brings the configured identity along, on every host.
PromptWorker ==
    /\ At("prompt")
    /\ \/ /\ session' = [model |-> goal.model, agent |-> goal.agent] /\ torn' = FALSE
          /\ worker' = (IF worker = "idle" THEN "turn" ELSE worker)
          /\ Spend("turns", MaxTurns) /\ Finish("rest")
          /\ UNCHANGED <<goal, lease>>
       \/ /\ Fails("prompt")
          /\ lease' = FALSE
          /\ \E st \in {goal.st, "blocked"} : goal' = [goal EXCEPT !.st = st, !.limit = FALSE]
          /\ op' = [Rest EXCEPT !.at = "limit", !.pick = goal.model]
          /\ UNCHANGED <<session, torn, worker>>
    /\ UNCHANGED <<deferred, tried, surface, limits, prepared>>
-----------------------------------------------------------------------------
(* observeProviderError(): the next fallback is prepared as a deferred      *)
(* switch, from the goal as it is read, and noted in a second step.         *)
NoteLimit(m) ==
    /\ At("rest") /\ m \in limits
    /\ limits' = limits \ {m}
    /\ op' = [Rest EXCEPT !.at = "limit", !.pick = m]
    /\ UNCHANGED <<goal, deferred, tried, lease, session, surface, worker, torn, prepared, bound>>

\* Mutant: a fallback is prepared beside what the owner asked for.
EligibleAnyway(m) == m = goal.model /\ goal.st \in {"active", "blocked"}

Eligible(m) ==
    /\ m = goal.model /\ goal.st \in {"active", "blocked"}
    /\ deferred.both = <<None, None>> /\ deferred.why # "owner"

Choose(m) ==
    IF deferred.why = "quota" THEN {deferred.model}
    ELSE LET left == Fallbacks \ (tried \cup {m}) IN left \cup {None}

\* The catalog may know any of the untried fallbacks as usable, or none.
ReadLimit ==
    /\ At("limit")
    /\ \/ /\ Eligible(op.pick)
          /\ \E f \in Choose(op.pick) : op' = [op EXCEPT !.at = "note", !.pick = f, !.snap = deferred]
       \/ ~Eligible(op.pick) /\ op' = [op EXCEPT !.at = "note-blocker"]
    /\ UNCHANGED <<goal, deferred, tried, lease, session, surface, worker, limits, torn, prepared, bound>>

Stamped(same) == IF same /\ goal.st = "blocked" THEN [goal EXCEPT !.limit = TRUE] ELSE goal

\* What the catalog passed over counts as tried: all of it when nothing is usable,
\* none of it when the host could not say or cannot switch.
NoteFallback ==
    /\ At("note")
    /\ goal' = Stamped(TRUE)
    /\ \E passed \in SUBSET Fallbacks :
          /\ Has(op.pick) \/ passed \in {{}, Fallbacks}
          /\ op.snap.why = "quota" => passed = {}
          /\ tried' = tried \cup {goal.model} \cup passed \cup (IF Has(op.pick) THEN {op.pick} ELSE {})
    /\ deferred' = IF Has(op.pick) /\ deferred.why # "owner" THEN [deferred EXCEPT !.model = op.pick, !.why = "quota"] ELSE deferred
    /\ prepared' = [m \in Models |-> IF m = op.pick /\ op.snap.model # m THEN prepared[m] + 1 ELSE prepared[m]]
    /\ Finish("rest")
    /\ UNCHANGED <<lease, session, surface, worker, limits, torn, bound>>

NoteBlocker ==
    /\ At("note-blocker")
    /\ goal' = Stamped(op.pick = goal.model)
    /\ Finish("rest")
    /\ UNCHANGED <<deferred, tried, lease, session, surface, worker, limits, torn, prepared, bound>>
-----------------------------------------------------------------------------
(* Beside the operations: turns end, fail and are charged, the user types.  *)
TurnOver ==
    /\ worker # "idle" /\ worker' = "idle"
    /\ UNCHANGED <<goal, deferred, tried, lease, session, surface, limits, op, torn, prepared, bound>>

\* The engine closes a turn that is over; the worker may have ended the goal.
CloseTurn ==
    /\ worker = "idle" /\ lease /\ ~At("prompt") /\ lease' = FALSE
    /\ \E st \in {goal.st, "blocked", "complete"} : goal' = IF goal.st = "active" THEN [goal EXCEPT !.st = st, !.limit = FALSE] ELSE goal
    /\ UNCHANGED <<deferred, tried, session, surface, worker, limits, op, torn, prepared, bound>>

ChargeTurn ==
    /\ worker = "idle" /\ lease /\ ~At("prompt") /\ lease' = FALSE
    /\ \E st \in {goal.st, "blocked"} : goal' = IF goal.st = "active" THEN [goal EXCEPT !.st = st, !.limit = FALSE] ELSE goal
    /\ limits' = limits \cup {goal.model}
    /\ UNCHANGED <<deferred, tried, session, surface, worker, op, torn, prepared, bound>>

UserTypes ==
    /\ worker = "idle" /\ Spend("turns", MaxTurns) /\ worker' = "user"
    /\ UNCHANGED <<goal, deferred, tried, lease, session, surface, limits, op, torn, prepared>>

Verb ==
    /\ At("rest") /\ Spend("verbs", MaxVerbs)
    /\ \/ goal.st = "active" /\ goal' = [goal EXCEPT !.st = "paused"] /\ UNCHANGED op
       \/ /\ goal.st \in {"paused", "blocked"} /\ goal' = [goal EXCEPT !.st = "active", !.limit = FALSE]
          /\ op' = [Rest EXCEPT !.at = "continue", !.for = "prompt"]
    /\ UNCHANGED <<deferred, tried, lease, session, surface, worker, limits, torn, prepared>>

Crash ==
    /\ Fails("crash") /\ op' = Rest /\ limits' = {}
    /\ torn' = (torn \/ Identity # Configured)
    /\ UNCHANGED <<goal, deferred, tried, lease, session, surface, worker, prepared>>
-----------------------------------------------------------------------------
Step ==
    \/ FindStatus \/ DeferModel \/ DeferAgent \/ DeferIdentity \/ LookAgain
    \/ HostModel \/ HostAgent \/ SaveModel \/ SaveAgent \/ SaveIdentity \/ Rollback
    \/ ResumeModel \/ ResumeAgent \/ ResumeIdentity
    \/ BeginTurn \/ applyPendingIdentity \/ applyPendingModel \/ applyPendingAgent
    \/ ModelFailed \/ AgentFailed \/ IdentityFailed
    \/ Acquire \/ PromptWorker \/ ReadLimit \/ NoteFallback \/ NoteBlocker

Next ==
    \/ \E m \in Models \cup {None}, a \in Agents \cup {None}, resume \in BOOLEAN : Ask(m, a, resume)
    \/ Continue \/ Step
    \/ \E m \in Models : NoteLimit(m)
    \/ TurnOver \/ CloseTurn \/ ChargeTurn \/ UserTypes \/ Verb \/ Crash

Spec == Init /\ [][Next]_vars
-----------------------------------------------------------------------------
Places == {"rest", "status", "defer", "model-status", "model", "agent-status", "agent", "persist", "rollback", "resume",
           "continue", "turn-both", "turn-model", "turn-agent", "failed", "acquire", "prompt", "limit", "note", "note-blocker"}
Goals == [st : {"active", "paused", "blocked", "complete"}, limit : BOOLEAN, model : Models, agent : Agents]
Deferrals == [model : Models \cup {None}, why : {"none", "owner", "quota"}, agent : Agents \cup {None},
              both : (Models \X Agents) \cup {<<None, None>>}]
Wants == (Models \cup {None}) \X (Agents \cup {None})
Operations == [at : Places, for : {"owner", "prompt", "compact"}, want : Wants, resume : BOOLEAN, lease : BOOLEAN,
               changed : SUBSET {"model", "agent"}, was : Wants, snap : Deferrals, pick : Models \cup {None}]

TypeOK ==
    /\ goal \in Goals /\ deferred \in Deferrals /\ op \in Operations
    /\ tried \subseteq Models /\ limits \subseteq Models /\ lease \in BOOLEAN /\ torn \in BOOLEAN
    /\ session \in [model : Models, agent : Agents] /\ surface \in Surfaces
    /\ worker \in {"idle", "turn", "user"}
    /\ prepared \in [Models -> Nat]
    /\ bound \in [turns : 0 .. MaxTurns, verbs : 0 .. MaxVerbs, faults : 0 .. MaxFaults]

(* The worker's session has the identity its goal is configured with: in    *)
(* every turn of the goal, on every host, and between operations for what   *)
(* the host switches at once, though half of a combined switch may be       *)
(* refused, found busy, or not saved.  Only a host that answers too late or *)
(* refuses a rollback, or a crash, leaves it torn, until the next prompt.   *)
IdentityHolds ==
    /\ worker = "turn" => Identity = Configured
    /\ At("rest") /\ ~torn => \A d \in surface : session[d] = goal[d]

(* A provider's limit never outranks the owner: what the owner asked for    *)
(* and could not have at once is not replaced by a fallback, and no fallback *)
(* is prepared twice, so that limits cannot send a goal round and round.    *)
QuotaYields ==
    [][ /\ deferred.why = "owner" \/ deferred.both # <<None, None>> => deferred'.why # "quota"
        /\ \A m \in Models : prepared'[m] <= 1 ]_vars
=============================================================================
