--------------------------- MODULE TranscriptTurn ---------------------------
(***************************************************************************)
(* How the engine learns that a turn is over on a host that keeps no        *)
(* execution record (application/loop-engine.ts without readExecution, the  *)
(* v1 adapter): from events that may be lost, a status, and the transcript. *)
(* An idle report stages a candidate; one that survives confirmIdleMs is    *)
(* confirmed against the transcript.  The sweep repeats what events missed, *)
(* recovers turns that stay quiet, and tells the owner of what it cannot    *)
(* explain.  Both threads, the owner and the worker interleave at every     *)
(* await.  Limits and compaction after a turn are those of GoalTurn.        *)
(*                                                                          *)
(* A turn, its run and its prompt are one number, the run generation; a     *)
(* running goal always has its prompt.  Left out: v2 hosts without          *)
(* session.wait, and runs persisted by versions that kept no prompt.        *)
(***************************************************************************)
EXTENDS Naturals, Sequences, FiniteSets

CONSTANTS
    MaxFailures,  \* config.maxFailures
    UnknownLimit, \* unknownStatusThreshold
    Verbs,        \* what the owner and the worker may do besides taking turns;
                  \* "unknown": the status probe of a sweep fails
    Faults,       \* "blind": a transcript read that fails or misses the prompt;
                  \* "probe": a status probe that fails before a prompt; "refused":
                  \* a prompt the host refuses; "hook": an after-hook that never runs
    MaxVerbs,     \* bound: how many of the verbs, from the first turn on
    MaxTurns,     \* bound: turns opened; the worker still runs the last one
    MaxEvents     \* bound: events on their way; the others are lost

ASSUME LimitsAssumption ==
    /\ MaxFailures \in Nat \ {0} /\ UnknownLimit \in Nat \ {0}
    /\ MaxVerbs \in Nat /\ MaxTurns \in Nat \ {0} /\ MaxEvents \in Nat

VARIABLES
    goal,   \* status, and whether it is manual
    rt,     \* its GoalRuntimeState
    thread, \* what the event handler, the sweep and the owner's call are at
    held,   \* the threads whose idle candidate has not been cleared since they read it
    op,     \* the thread that runs an operation of the goal, or "none"
    fence,  \* a workspace operation; an await the goal is parked on
    host,   \* the worker session: what executes, and its transcript
    wire,   \* events not yet handled
    verbs,  \* bound: verbs used
    hist    \* history: turns recorded complete, and how often each was charged as outputless

vars == <<goal, rt, thread, held, op, fence, host, wire, verbs, hist>>
outside == <<fence, host, wire, verbs>>

None == 0
Turns == 1 .. MaxTurns
Foreign == MaxTurns + 1
Threads == {"event", "sweep", "owner"}

NewRuntime ==
    [phase |-> "idle", lease |-> FALSE, gen |-> 0, run |-> FALSE, done |-> FALSE,
     tools |-> {}, cand |-> "none", quiet |-> FALSE, failed |-> "no", idleTold |-> FALSE,
     runTold |-> FALSE, unknown |-> 0, fails |-> 0, retry |-> "none"]

\* What a thread remembers over its awaits: the generation it read, whether
\* that turn had been seen to end, whether its work is fenced to that run
\* (of a charge), and what the sweep's snapshot said.
NoSnapshot == [phase |-> "none", gen |-> 0, stale |-> FALSE, quiet |-> FALSE, tell |-> FALSE,
               wedged |-> FALSE, lost |-> FALSE]

Rest == [at |-> "rest", gen |-> 0, done |-> FALSE, sure |-> FALSE, snap |-> NoSnapshot]

Init ==
    /\ goal = [status |-> "active", manual |-> FALSE]
    /\ rt = NewRuntime
    /\ thread = [t \in Threads |-> Rest]
    /\ held = {} /\ op = "none"
    /\ fence = [checks |-> FALSE, await |-> FALSE]
    /\ host = [work |-> None, queue |-> {}, last |-> None, gap |-> FALSE, tool |-> FALSE,
               out |-> [t \in Turns |-> "none"]]
    /\ wire = <<>> /\ verbs = 0
    /\ hist = [complete |-> {}, charged |-> [t \in Turns |-> 0]]
-----------------------------------------------------------------------------
(* domain/runtime.ts *)

acquireLease(r) ==
    [r EXCEPT !.phase = "running", !.lease = TRUE, !.gen = @ + 1, !.run = TRUE, !.done = FALSE,
              !.tools = {}, !.cand = "none", !.quiet = FALSE, !.failed = "no",
              !.idleTold = FALSE, !.runTold = FALSE]

\* What is only compared with the running generation is dropped with it.
releaseLease(r) ==
    [r EXCEPT !.phase = "idle", !.lease = FALSE, !.done = FALSE,
              !.tools = {}, !.cand = "none", !.quiet = FALSE, !.failed = "no",
              !.idleTold = FALSE, !.runTold = FALSE]

\* releaseLease, and activeRunID = undefined.
Closed(r) == [releaseLease(r) EXCEPT !.run = FALSE]

recordActivity(r) == [r EXCEPT !.cand = "none", !.quiet = FALSE]
addToolCall(r) == [recordActivity(r) EXCEPT !.tools = @ \cup {"live"}]
removeToolCall(r) == [recordActivity(r) EXCEPT !.tools = @ \ {"live"}]

LeaseHeld == rt.phase = "running" /\ rt.lease

hasExecutionLeak(r) ==
    r.phase # "idle" \/ r.run \/ r.lease \/ r.done \/ r.cand # "none" \/ r.tools # {}

continuationGuard == goal.status = "active" /\ ~fence.checks /\ rt.tools = {}

EngineDriven == goal.status = "active" /\ ~goal.manual

Go(t, at) == thread' = [thread EXCEPT ![t] = [Rest EXCEPT !.at = at]]
Then(t, at) == thread' = [thread EXCEPT ![t].at = at]
End(t) == thread' = [thread EXCEPT ![t] = Rest]
Verb(v) == v \in Verbs /\ verbs < MaxVerbs /\ rt.gen \in 1 .. MaxTurns - 1 /\ verbs' = verbs + 1
-----------------------------------------------------------------------------
(* External: the worker session.  session.status omits idle sessions, and   *)
(* reports idle between the steps of a turn; a user's prompt takes over     *)
(* what runs.  Any event may be lost, and they arrive in order.             *)

sessionStatus == IF host.gap \/ (host.work = None /\ host.queue = {}) THEN "idle" ELSE "busy"

Event(kind, t) == [kind |-> kind, turn |-> t]

\* How the last assistant message under each turn's prompt ended.
Answered(t, how) == [o \in Turns |-> IF o = t THEN how ELSE host.out[o]]

Prompted(t) ==
    [host EXCEPT !.last = t, !.gap = FALSE,
        !.work = IF @ = None THEN @ ELSE t,
        !.queue = IF host.work = None THEN @ \cup {t} ELSE @]

\* Some of the events es, which are at most three, reach the plugin in order.
Emit(es) ==
    \E D \in SUBSET DOMAIN es :
        LET Kept(i) == IF i \in D THEN <<es[i]>> ELSE <<>>
        IN  /\ Len(wire) + Cardinality(D) <= MaxEvents
            /\ wire' = wire \o Kept(1) \o Kept(2) \o Kept(3)

TurnStarts(t) ==
    /\ host.work = None /\ t \in host.queue
    /\ host' = [host EXCEPT !.work = t, !.queue = @ \ {t}]
    /\ Emit(<<Event("busy", t)>>)
    /\ UNCHANGED <<goal, rt, thread, op, fence, verbs, hist>>

\* A step of the model ends in tool calls, and the session may look idle.
StepEnds(t) ==
    /\ host.work = t /\ t # MaxTurns /\ ~host.gap /\ ~host.tool
    /\ host' = [host EXCEPT !.gap = TRUE, !.out = Answered(t, "step")]
    /\ Emit(<<Event("step", t), Event("idle", t)>>)
    /\ UNCHANGED <<goal, rt, thread, op, fence, verbs, hist>>

NextStep(t) ==
    /\ host.work = t /\ host.gap
    /\ host' = [host EXCEPT !.gap = FALSE]
    /\ Emit(<<Event("busy", t), Event("part", t)>>)
    /\ UNCHANGED <<goal, rt, thread, op, fence, verbs, hist>>

\* "over" carries time.completed: so does a message that ended in an error.
\* Messages of other prompts match nothing in the runtime.
EventsOf(t, how) ==
    CASE how = "done" /\ t \in Turns   -> <<Event("over", t), Event("part", t), Event("idle", t)>>
      [] how = "done" /\ t \notin Turns -> <<Event("idle", t)>>
      [] how = "empty" -> <<Event("empty", t), Event("idle", t)>>
      [] how = "failed" /\ t \in Turns -> <<Event("over", t), Event("error", t), Event("idle", t)>>
      [] how = "failed" /\ t \notin Turns -> <<Event("error", t), Event("idle", t)>>

TurnEnds(t, how) ==
    /\ host.work = t /\ t # MaxTurns /\ ~host.gap /\ ~host.tool
    /\ host' = [host EXCEPT !.work = None, !.out = Answered(t, how)]
    /\ Emit(EventsOf(t, how))
    /\ UNCHANGED <<goal, rt, thread, op, fence, verbs, hist>>

ForeignPrompt ==
    /\ Verb("foreign")
    /\ host' = Prompted(Foreign)
    /\ UNCHANGED <<goal, rt, thread, op, fence, wire, hist>>

\* tool.execute.before of the plugin, whatever the goal's phase is.
ToolStarts ==
    /\ host.work # None /\ ~host.gap /\ ~host.tool
    /\ Verb("tool")
    /\ host' = [host EXCEPT !.tool = TRUE]
    /\ rt' = addToolCall(rt)
    /\ UNCHANGED <<goal, thread, op, fence, wire, hist>>

\* tool.execute.after; v1 may skip it when the executor throws.
ToolEnds ==
    /\ host.tool
    /\ host' = [host EXCEPT !.tool = FALSE]
    /\ \/ rt' = removeToolCall(rt)
       \/ /\ "hook" \in Faults
          /\ rt' = [rt EXCEPT !.tools = {IF c = "live" THEN "lost" ELSE c : c \in @}]
    /\ UNCHANGED <<goal, thread, op, fence, wire, verbs, hist>>

\* Completion checks, of this goal or another, and a command awaited.
ChecksBegin ==
    /\ Verb("checks") /\ ~fence.checks
    /\ fence' = [fence EXCEPT !.checks = TRUE]
    /\ UNCHANGED <<goal, rt, thread, op, host, wire, hist>>

ChecksEnd ==
    /\ fence.checks
    /\ fence' = [fence EXCEPT !.checks = FALSE]
    /\ UNCHANGED <<goal, rt, thread, op, host, wire, verbs, hist>>

Park ==
    /\ Verb("park") /\ host.work \in Turns /\ goal.status = "active" /\ ~fence.await
    /\ fence' = [fence EXCEPT !.await = TRUE]
    /\ UNCHANGED <<goal, rt, thread, op, host, wire, hist>>

\* Timers: confirmIdleMs and retryAfter; idleRecoverMs, which outlasts the
\* gap between two steps; idleUnconfirmedMs; the lease.
Passes(r) == rt' = r /\ rt' # rt /\ UNCHANGED <<goal, thread, op, outside, hist>>
Ripen == Passes([rt EXCEPT !.cand = IF @ = "fresh" THEN "ripe" ELSE @])
RetryDue == Passes([rt EXCEPT !.retry = IF @ = "set" THEN "due" ELSE @])
Quieten == ~host.gap /\ Passes([rt EXCEPT !.quiet = rt.phase = "running"])
Linger == Passes([rt EXCEPT !.failed = IF @ = "fresh" THEN "old" ELSE @])
LeaseExpires == Passes([rt EXCEPT !.lease = FALSE])

Time == Ripen \/ RetryDue \/ Quieten \/ Linger \/ LeaseExpires
Worker ==
    \/ \E t \in Turns : StepEnds(t) \/ NextStep(t)
    \/ \E t \in Turns \cup {Foreign} :
          \/ TurnStarts(t)
          \/ \E how \in {"done", "failed"} \cup {h \in {"empty"} : t \in Turns} : TurnEnds(t, how)
    \/ ForeignPrompt \/ ToolStarts \/ ToolEnds \/ ChecksBegin \/ ChecksEnd \/ Park
-----------------------------------------------------------------------------

(* Turns, by whichever thread asks for one: loop-engine continueGoal, and   *)
(* GoalService.continueTurn under withGoalOperation.                         *)

continuing(t) == \E u \in Threads \ {"owner", t} :
    thread[u].at \in {"queued", "acquire", "dispatch", "record"}

Drop(t) == End(t) /\ op' = "none" /\ UNCHANGED <<goal, rt, outside, hist>>

Ask(t) ==
    /\ thread[t].at = "ask"
    /\ IF continuing(t) \/ ~EngineDriven THEN End(t) ELSE Go(t, "queued")
    /\ UNCHANGED <<goal, rt, op, outside, hist>>

\* The guard, then the probe; what they saw is checked again at Acquire.
Enter(t) ==
    /\ thread[t].at = "queued" /\ op \in {"none", t}
    /\ \/ /\ continuationGuard /\ ~LeaseHeld /\ sessionStatus = "idle"
          /\ Go(t, "acquire") /\ op' = t
          /\ UNCHANGED <<goal, rt, outside, hist>>
       \/ /\ ~continuationGuard \/ LeaseHeld \/ sessionStatus = "busy" \/ "probe" \in Faults
          /\ Drop(t)

Acquire(t) ==
    /\ thread[t].at = "acquire"
    /\ IF continuationGuard /\ ~LeaseHeld /\ rt.gen < MaxTurns
       THEN /\ rt' = acquireLease(rt)
            /\ thread' = [thread EXCEPT ![t] = [Rest EXCEPT !.at = "dispatch", !.gen = rt'.gen]]
            /\ UNCHANGED <<goal, op, outside, hist>>
       ELSE Drop(t)

OwnRun(t) == rt.run /\ rt.gen = thread[t].gen

\* dispatchOrRecordFailure; the host answers "refused" or takes the prompt.
Dispatch(t) ==
    /\ thread[t].at = "dispatch"
    /\ LET g == thread[t].gen IN
       \/ /\ continuationGuard /\ OwnRun(t)
          /\ host' = Prompted(g) /\ Emit(<<Event("user", g)>>)
          /\ End(t) /\ op' = "none"
          /\ UNCHANGED <<goal, rt, fence, verbs, hist>>
       \/ /\ continuationGuard /\ OwnRun(t) /\ "refused" \in Faults
          /\ Then(t, "record")
          /\ UNCHANGED <<goal, rt, op, outside, hist>>
       \/ /\ ~(continuationGuard /\ OwnRun(t))
          /\ rt' = IF OwnRun(t) THEN Closed(rt) ELSE rt
          /\ End(t) /\ op' = "none"
          /\ UNCHANGED <<goal, outside, hist>>

\* The bounded failure path: blocked, or a retry after a backoff.
Failing(r) ==
    IF rt.fails + 1 >= MaxFailures
    THEN /\ goal' = [goal EXCEPT !.status = "blocked"]
         /\ rt' = [r EXCEPT !.fails = @ + 1]
    ELSE /\ rt' = [r EXCEPT !.fails = @ + 1, !.phase = "waiting_retry", !.retry = "set"]
         /\ UNCHANGED goal

recordPromptFailure(t) ==
    /\ thread[t].at = "record"
    /\ IF OwnRun(t) THEN Failing(Closed(rt)) ELSE UNCHANGED <<goal, rt>>
    /\ End(t) /\ op' = "none"
    /\ UNCHANGED <<outside, hist>>

Continue(t) ==
    Ask(t) \/ Enter(t) \/ Acquire(t) \/ Dispatch(t) \/ recordPromptFailure(t)
-----------------------------------------------------------------------------
(* handleSessionIdle, for an idle event or the sweep.                        *)

Stage(t) ==
    /\ thread[t].at = "stage"
    /\ IF continuing(t) \/ ~EngineDriven \/ rt.phase # "running"
       THEN End(t) /\ UNCHANGED rt
       ELSE IF rt.tools = {} /\ rt.cand = "ripe"
       THEN /\ UNCHANGED rt
            /\ thread' = [thread EXCEPT ![t] =
                             [Rest EXCEPT !.at = "inspect", !.gen = rt.gen, !.done = rt.done]]
       ELSE /\ rt' = [rt EXCEPT !.cand = IF rt.tools # {} THEN "none" ELSE "fresh"]
            /\ End(t)
    /\ UNCHANGED <<goal, op, outside, hist>>

\* Mutant: a message that ended in tool calls counts as completed.
FinishIgnored(g, done) ==
    LET out == host.out[g]
        Judged(known) ==
            IF ~done /\ known /\ out = "empty" THEN "charge"
            ELSE IF ~done /\ ~(known /\ host.last = g /\ out # "none") THEN "stamp"
            ELSE "confirm"
    IN  {Judged(known) : known \in {TRUE} \cup {b \in {FALSE} : "blind" \in Faults}}

\* inspectPromptTurn; done is the completion that events reported.
Verdicts(g, done) ==
    LET out == host.out[g]
        Judged(known) ==
            LET latest == known /\ host.last = g
                completed == known /\ out \in {"done", "failed"}
            IN  IF ~done /\ known /\ out = "empty" THEN "charge"
                ELSE IF \/ known /\ out = "step"
                        \/ ~done /\ (~latest \/ ~completed)
                THEN "stamp" ELSE "confirm"
    IN  {Judged(known) : known \in {TRUE} \cup {b \in {FALSE} : "blind" \in Faults}}

Inspect(t) ==
    /\ thread[t].at = "inspect"
    /\ \E v \in Verdicts(thread[t].gen, thread[t].done) :
          thread' = [thread EXCEPT ![t] = [@ EXCEPT !.at = v, !.done = FALSE, !.sure = v = "charge"]]
    /\ UNCHANGED <<goal, rt, op, outside, hist>>

Stamp(t) ==
    /\ thread[t].at = "stamp"
    /\ rt' = [rt EXCEPT !.failed = IF rt.gen = thread[t].gen /\ @ = "no" THEN "fresh" ELSE @]
    /\ End(t)
    /\ UNCHANGED <<goal, op, outside, hist>>

Confirm(t) ==
    /\ thread[t].at = "confirm"
    /\ IF EngineDriven /\ rt.phase = "running" /\ rt.gen = thread[t].gen /\ t \in held /\ rt.tools = {}
       THEN /\ rt' = Closed(rt)
            /\ hist' = [hist EXCEPT !.complete = @ \cup {rt.gen}]
            /\ Go(t, "ask")
       ELSE End(t) /\ UNCHANGED <<rt, hist>>
    /\ UNCHANGED <<goal, op, outside>>

\* Mutant: an outputless turn is charged without the fence to its run.
ChargeAnyRun(t) ==
    /\ thread[t].at = "charge"
    /\ IF goal.status = "active" /\ rt.gen = thread[t].gen
       THEN /\ Failing([rt EXCEPT !.phase = "idle", !.run = @ /\ ~thread[t].sure, !.cand = "none"])
            /\ hist' = IF thread[t].sure THEN [hist EXCEPT !.charged[rt.gen] = @ + 1] ELSE hist
       ELSE UNCHANGED <<goal, rt, hist>>
    /\ End(t)
    /\ UNCHANGED <<op, outside>>

\* handleSessionError.  A session.error names no turn: it is fenced by the
\* generation its handler read, an outputless turn by its run as well.
Charge(t) ==
    /\ thread[t].at = "charge"
    /\ IF /\ goal.status = "active" /\ rt.gen = thread[t].gen
          /\ thread[t].sure => rt.run /\ rt.phase = "running"
       THEN LET r == IF rt.phase = "running" THEN releaseLease(rt) ELSE [rt EXCEPT !.cand = "none"]
            IN  /\ Failing([r EXCEPT !.run = @ /\ ~thread[t].sure])
                /\ hist' = IF thread[t].sure THEN [hist EXCEPT !.charged[rt.gen] = @ + 1] ELSE hist
       ELSE UNCHANGED <<goal, rt, hist>>
    /\ End(t)
    /\ UNCHANGED <<op, outside>>

Judge(t) == Stage(t) \/ Inspect(t) \/ Stamp(t) \/ Confirm(t) \/ Charge(t)
-----------------------------------------------------------------------------
(* handleEvent.  One event at a time: what two handlers could interleave is  *)
(* what the event and the sweep threads do.                                  *)

EventThread == thread["event"].at = "rest"

Take(kinds) == /\ EventThread /\ wire # <<>> /\ Head(wire).kind \in kinds
               /\ wire' = Tail(wire)
               /\ UNCHANGED <<goal, op, fence, host, verbs, hist>>

Mine == goal.status = "active" /\ rt.phase = "running" /\ rt.gen = Head(wire).turn

\* handleMessageActivity; an assistant message that closed without output is
\* charged to the run the transaction left behind.  A part of a message the
\* runtime does not know changes nothing, as if it had been lost.
MessageActivity ==
    /\ Take({"user", "step", "over", "empty", "part"})
    /\ LET kind == Head(wire).kind IN
       IF ~Mine THEN UNCHANGED <<rt, thread>>
       ELSE IF kind = "empty"
       THEN /\ rt' = recordActivity(rt)
            /\ thread' = [thread EXCEPT !["event"] =
                             [Rest EXCEPT !.at = "charge", !.gen = rt.gen, !.sure = rt.run]]
       ELSE /\ rt' = CASE kind = "user" -> recordActivity(rt)
                      [] kind = "part" -> IF rt.done THEN rt ELSE recordActivity(rt)
                      [] OTHER -> [recordActivity(rt) EXCEPT !.done = kind = "over"]
            /\ UNCHANGED thread

SessionStatus ==
    /\ Take({"busy"})
    /\ rt' = IF goal.status = "active" THEN recordActivity(rt) ELSE rt
    /\ UNCHANGED thread

SessionIdle ==
    /\ Take({"idle"})
    /\ IF EngineDriven THEN Go("event", "stage") ELSE UNCHANGED thread
    /\ UNCHANGED rt

SessionError ==
    /\ Take({"error"})
    /\ IF goal.status = "active"
       THEN thread' = [thread EXCEPT !["event"] = [Rest EXCEPT !.at = "charge", !.gen = rt.gen]]
       ELSE UNCHANGED thread
    /\ UNCHANGED rt

handleEvent == MessageActivity \/ SessionStatus \/ SessionIdle \/ SessionError
-----------------------------------------------------------------------------
(* maintenance.  The sweep decides on the runtime it read at its start.      *)

Sweep == thread["sweep"]
SweepAt(at) == Sweep.at = at

ClearLeak ==
    /\ SweepAt("rest") /\ goal.status # "active" /\ hasExecutionLeak(rt)
    /\ rt' = [Closed(rt) EXCEPT !.unknown = 0]
    /\ UNCHANGED <<goal, thread, op, outside, hist>>

\* What the sweep reads of the runtime it took at its start.
Snapshot ==
    LET running == rt.phase = "running" IN
    [phase |-> rt.phase,
     gen |-> IF running THEN rt.gen ELSE 0,
     stale |-> rt.phase = "idle" /\ rt.run,
     quiet |-> running /\ rt.quiet,
     tell |-> running /\ rt.failed = "old" /\ ~rt.idleTold,
     wedged |-> running /\ rt.quiet /\ rt.run /\ ~rt.lease /\ ~rt.runTold,
     lost |-> rt.unknown > 0]

SweepStart ==
    /\ SweepAt("rest") /\ EngineDriven
    /\ \/ rt.phase \in {"running", "idle"} \/ rt.retry = "due"
    /\ thread' = [thread EXCEPT !["sweep"] = [Rest EXCEPT !.at = "swept", !.snap = Snapshot]]
    /\ UNCHANGED <<goal, rt, op, outside, hist>>

RetryReady ==
    /\ SweepAt("swept") /\ Sweep.snap.phase = "waiting_retry"
    /\ rt' = [rt EXCEPT !.phase = "idle", !.retry = "none"]
    /\ Go("sweep", "ask")
    /\ UNCHANGED <<goal, op, outside, hist>>

ClearStaleRun == IF Sweep.snap.stale /\ rt.phase = "idle" /\ rt.run THEN Closed(rt) ELSE rt

\* The owner is told that the worker is unreachable when the count reaches
\* its limit; both go with the next status that is known.
StatusUnknown ==
    /\ SweepAt("swept") /\ Sweep.snap.phase \in {"running", "idle"} /\ Verb("unknown")
    /\ LET n == IF rt.unknown < UnknownLimit THEN rt.unknown + 1 ELSE UnknownLimit
       IN  rt' = [ClearStaleRun EXCEPT !.unknown = n]
    /\ End("sweep")
    /\ UNCHANGED <<goal, op, fence, host, wire, hist>>

\* The owner is told once per generation; otherwise the idle is staged.
Unconfirmed(snap) == IF snap.tell THEN Then("sweep", "tell") ELSE Go("sweep", "stage")

ReadStatus ==
    /\ SweepAt("swept") /\ Sweep.snap.phase \in {"running", "idle"}
    /\ rt' = IF Sweep.snap.lost
             THEN [ClearStaleRun EXCEPT !.unknown = 0] ELSE ClearStaleRun
    /\ LET snap == Sweep.snap IN
       CASE sessionStatus = "idle" /\ snap.phase = "idle" -> Go("sweep", "ask")
         [] sessionStatus = "idle" /\ snap.quiet -> Then("sweep", "recover")
         [] sessionStatus = "idle" /\ ~snap.quiet /\ snap.phase = "running" -> Unconfirmed(snap)
         [] sessionStatus = "busy" /\ snap.wedged -> Then("sweep", "stuck")
         [] OTHER -> End("sweep")
    /\ UNCHANGED <<goal, op, outside, hist>>

IdleRecover ==
    /\ SweepAt("recover")
    /\ IF /\ EngineDriven /\ rt.phase = "running" /\ rt.gen = Sweep.snap.gen
          /\ ~fence.checks /\ ~fence.await /\ rt.tools = {}
       THEN /\ rt' = Closed(rt)
            /\ Go("sweep", "ask")
       ELSE Unconfirmed(Sweep.snap) /\ UNCHANGED rt
    /\ UNCHANGED <<goal, op, outside, hist>>

IdleStuck ==
    /\ SweepAt("tell")
    /\ rt' = [rt EXCEPT !.idleTold = @ \/ (rt.gen = Sweep.snap.gen /\ rt.phase = "running")]
    /\ End("sweep")
    /\ UNCHANGED <<goal, op, outside, hist>>

RunStuck ==
    /\ SweepAt("stuck")
    /\ rt' = [rt EXCEPT !.runTold = @ \/ (rt.run /\ rt.gen = Sweep.snap.gen)]
    /\ End("sweep")
    /\ UNCHANGED <<goal, op, outside, hist>>

maintenance ==
    \/ ClearLeak \/ SweepStart \/ RetryReady \/ StatusUnknown
    \/ ReadStatus \/ IdleRecover \/ IdleStuck \/ RunStuck
-----------------------------------------------------------------------------
(* The owner, and the wake of an await (wakeGoalForAwait).  The owner's own   *)
(* nudge is the same without an await.                                       *)

Idle(t) == thread[t].at = "rest"

nudgeUnlocked ==
    /\ op = "none" /\ continuationGuard /\ sessionStatus = "idle"
    /\ op' = "owner" /\ Go("owner", "reset")
    /\ UNCHANGED <<goal, rt, host, wire, hist>>

Wake ==
    /\ Idle("owner") /\ fence.await
    /\ fence' = [fence EXCEPT !.await = FALSE]
    /\ nudgeUnlocked \/ UNCHANGED <<goal, rt, thread, op, host, wire, hist>>
    /\ UNCHANGED verbs

\* Idle was confirmed: the continuation skips the probe.
Reset ==
    /\ thread["owner"].at = "reset"
    /\ IF continuationGuard
       THEN /\ rt' = [rt EXCEPT !.phase = "idle", !.run = FALSE, !.cand = "none", !.tools = {}]
            /\ Go("owner", "acquire")
            /\ UNCHANGED <<goal, op, outside, hist>>
       ELSE Drop("owner")

Pause ==
    /\ Idle("owner") /\ op = "none" /\ goal.status = "active" /\ Verb("pause")
    /\ goal' = [goal EXCEPT !.status = "paused"]
    /\ rt' = Closed(rt)
    /\ op' = "owner" /\ Go("owner", "abort")
    /\ UNCHANGED <<fence, host, wire, hist>>

Abort ==
    /\ thread["owner"].at = "abort"
    /\ host' = [host EXCEPT !.work = None, !.gap = FALSE, !.tool = FALSE,
                  !.out = IF host.work \in Turns THEN Answered(host.work, "failed") ELSE @]
    /\ IF host.work = None THEN UNCHANGED wire
       ELSE Emit(<<Event("error", host.work), Event("idle", host.work)>>)
    /\ fence' = [fence EXCEPT !.await = FALSE]
    /\ op' = "none" /\ End("owner")
    /\ UNCHANGED <<goal, rt, verbs, hist>>

Resume ==
    /\ Idle("owner") /\ op = "none" /\ goal.status \in {"paused", "blocked"} /\ Verb("resume")
    /\ goal' = [goal EXCEPT !.status = "active"]
    /\ op' = "owner" /\ Go("owner", "queued")
    /\ UNCHANGED <<rt, fence, host, wire, hist>>

setInteractive ==
    /\ op = "none" /\ Verb("manual")
    /\ goal' = [goal EXCEPT !.manual = ~@]
    /\ UNCHANGED <<rt, thread, op, fence, host, wire, hist>>

Owner == Wake \/ Reset \/ Pause \/ Abort \/ Resume \/ setInteractive
-----------------------------------------------------------------------------
Step ==
    \/ Worker \/ Time \/ handleEvent \/ maintenance \/ Owner
    \/ \E t \in Threads : Continue(t) \/ Judge(t)

\* A candidate read by a thread is the same one at its confirmation only if
\* nothing cleared it in between (idleCandidateAt = candidate.candidateAt).
Next ==
    /\ Step
    /\ held' = {t \in Threads :
                  /\ thread'[t].at \in {"inspect", "confirm"}
                  /\ t \in held \/ thread[t].at = "stage"
                  /\ rt'.cand = "ripe"}

Spec == Init /\ [][Next]_vars
-----------------------------------------------------------------------------
Outcomes == {"none", "step", "done", "empty", "failed"}
Events == [kind : {"busy", "step", "idle", "part", "over", "empty", "error", "user"}, turn : Turns \cup {Foreign}]
Runtimes ==
    [phase : {"idle", "running", "waiting_retry"}, lease : BOOLEAN, gen : 0 .. MaxTurns, run : BOOLEAN,
     done : BOOLEAN, tools : SUBSET {"live", "lost"}, cand : {"none", "fresh", "ripe"}, quiet : BOOLEAN,
     failed : {"no", "fresh", "old"}, idleTold : BOOLEAN, runTold : BOOLEAN, unknown : 0 .. UnknownLimit,
     fails : Nat, retry : {"none", "set", "due"}]
Snapshots ==
    [phase : {"none", "idle", "running", "waiting_retry"}, gen : 0 .. MaxTurns, stale : BOOLEAN, quiet : BOOLEAN,
     tell : BOOLEAN, wedged : BOOLEAN, lost : BOOLEAN]
Places ==
    {"rest", "ask", "queued", "acquire", "dispatch", "record", "stage", "inspect", "stamp", "confirm", "charge",
     "swept", "recover", "tell", "stuck", "reset", "abort"}
ThreadRecords == [at : Places, gen : 0 .. MaxTurns, done : BOOLEAN, sure : BOOLEAN, snap : Snapshots]
Sessions ==
    [work : Turns \cup {None, Foreign}, queue : SUBSET (Turns \cup {Foreign}), last : Turns \cup {None, Foreign},
     gap : BOOLEAN, tool : BOOLEAN, out : [Turns -> Outcomes]]

\* Every variable holds values of its kind.
TypeOK ==
    /\ goal \in [status : {"active", "paused", "blocked"}, manual : BOOLEAN]
    /\ rt \in Runtimes
    /\ thread \in [Threads -> ThreadRecords]
    /\ held \subseteq Threads /\ op \in Threads \cup {"none"}
    /\ fence \in [checks : BOOLEAN, await : BOOLEAN]
    /\ host \in Sessions
    /\ wire \in Seq(Events)
    /\ verbs \in Nat
    /\ hist \in [complete : SUBSET Turns, charged : [Turns -> Nat]]

\* A turn is recorded complete only when its last message has ended for good:
\* the idle report between two steps, a failed transcript read, a late event
\* of an earlier turn or a candidate staged before new activity never close a
\* turn that the worker still works on (handleSessionIdle, and the comment of
\* inspectPromptTurn).
TurnsReallyOver == \A t \in hist.complete : host.out[t] \in {"done", "failed"}

\* A turn the host closed without output is a failure: it is never recorded
\* complete, and the live event and the sweep's reading of the transcript charge
\* it once between them (handleMessageActivity, handleSessionIdle).
OutputlessFails ==
    \A t \in Turns : host.out[t] = "empty" => t \notin hist.complete /\ hist.charged[t] <= 1
=============================================================================
