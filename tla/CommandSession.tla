---------------------------- MODULE CommandSession ----------------------------
(***************************************************************************)
(* Managed command sessions: one background process each, its record in     *)
(* the state file, and everybody who may end it, wait for it or report it.  *)
(*                                                                          *)
(*   application/command-service.ts   start, stop, watch, exit, restart     *)
(*   application/command-await.ts     goals that wait for a command         *)
(*   domain/command-watch.ts          what a watch does with a line         *)
(*   domain/command-session.ts        who hears of an end                   *)
(*                                                                          *)
(* Threads are the asynchronous calls that interleave: tool calls, the      *)
(* queue of operations that serializes output and exit of one command, its  *)
(* timers, and the plugin itself, which reconciles in the background when   *)
(* it starts and disposes of its commands when it stops.  Every state       *)
(* transaction is one step.  terminate, fireAwaits and notifyOwnerIfNeeded  *)
(* are run by any thread, which then goes on where "why" says.              *)
(*                                                                          *)
(* Abstractions.  All commands are the same argv of the same owner; one     *)
(* goal awaits.  Every line matches the filter, the until pattern and the   *)
(* pattern of an await; the rates and the budget of pushes are not reached. *)
(* The workspace gate is WorkspaceFence's, the console CommandStream's.     *)
(* A lock failure is modelled where start rolls back; elsewhere the state   *)
(* transactions succeed.  A pid is never recycled.                          *)
(***************************************************************************)
EXTENDS Integers, Sequences, FiniteSets, Functions

CONSTANTS
    Callers,      \* concurrent tool calls
    Plugin,       \* the thread that reconciles and disposes
    MaxCommands,  \* bound: commands ever started
    Specs,        \* what commands are started with
    Watches,      \* what the watch tool may set
    NoticeRetries, \* how often a refused notice is repeated: 3 in the code
    MaxVerbs,     \* bound: tool calls, and faults
    MaxLines,     \* bound: lines the processes print
    Faults,       \* what may fail: starts, the owner's prompts, the plugin itself
    MaxFaults     \* bound: how often it may

Commands == 1 .. MaxCommands
Watch == {"none", "filter", "keep", "stop"}
Spawnable == [watch : Watch, limit : BOOLEAN, always : BOOLEAN]

ASSUME SpecsAssumption == Specs \subseteq Spawnable /\ Watches \subseteq Watch
ASSUME FaultsAssumption == Faults \subseteq {"start", "prompt", "dispose", "crash"}
ASSUME CallersAssumption == IsFiniteSet(Callers)
ASSUME NoticesAssumption == NoticeRetries \in Nat
ASSUME BoundsAssumption == MaxCommands \in Nat /\ MaxVerbs \in Nat /\ MaxLines \in Nat /\ MaxFaults \in Nat

Queue == {<<"queue", c>> : c \in Commands}
Timer == {<<"timer", c>> : c \in Commands}
Threads == Callers \cup Queue \cup Timer \cup {Plugin}

VARIABLES
    rec,      \* state.commands
    orphans,  \* state.orphanedCommandProcesses
    waits,    \* state.commandAwaits, by command and kind
    log,      \* the retained output files that hold a matching line
    proc,     \* the processes
    pipe,     \* processes whose output and exit this plugin hears
    live,     \* handles of this plugin
    ready,    \* commands whose callbacks start() has released
    queue,    \* operations waiting behind each other, per command
    watcher,  \* CommandWatcher, per command: state, what it does, lines to push
    armed,    \* timers of this plugin: deadlines, flushes, repeated notices and notifyAttempts
    busy,     \* notifyInFlight
    thread,   \* where each asynchronous call is
    todo,     \* what the plugin's own loop has left to look at
    bound,    \* what the bounds have left
    hist      \* history: wakes owed, pings sent, what a crash swallowed

stored == <<rec, orphans, waits, log>>
memory == <<live, ready, queue, watcher, armed, busy>>
vars == <<stored, proc, pipe, memory, thread, todo, bound, hist>>

Idle == [at |-> "rest", cmd |-> 0, why |-> "none", hand |-> 0]
Blank == [st |-> "none", watch |-> "none", limit |-> FALSE, always |-> FALSE, sig |-> "none", reason |-> "none",
          hit |-> FALSE, told |-> FALSE, kept |-> FALSE, detached |-> FALSE]
NoTodo == [running |-> {}, others |-> {}]
NoWatcher == [st |-> "none", watch |-> "none", pend |-> 0]
NoTimers == [deadline |-> {}, flush |-> {}, notice |-> {}, tries |-> [c \in Commands |-> 0]]

Init ==
    /\ rec = [c \in Commands |-> Blank] /\ orphans = {} /\ log = {}
    /\ waits = [c \in Commands |-> [exit |-> 0, until |-> 0]]
    /\ proc = [c \in Commands |-> "none"] /\ pipe = {}
    /\ live = {} /\ ready = {} /\ busy = {}
    /\ queue = [c \in Commands |-> <<>>]
    /\ watcher = [c \in Commands |-> NoWatcher]
    /\ armed = NoTimers
    /\ thread = [t \in Threads |-> Idle]
    /\ todo = NoTodo
    /\ bound = [verbs |-> 0, lines |-> 0, faults |-> 0]
    /\ hist = [owed |-> 0, pings |-> [c \in Commands |-> 0], unmarked |-> {}]
-----------------------------------------------------------------------------
Spend(what, most) == bound[what] < most /\ bound' = [bound EXCEPT ![what] = @ + 1]
Refused == "prompt" \in Faults /\ Spend("faults", MaxFaults)
Fails(what) ==
    /\ what \in Faults /\ bound.faults < MaxFaults /\ bound.verbs < MaxVerbs
    /\ bound' = [bound EXCEPT !.verbs = @ + 1, !.faults = @ + 1]
At(t, l) == thread[t].at = l
Goto(t, l) == thread' = [thread EXCEPT ![t].at = l]
\* A plugin's loop goes on with its next command; every other call returns.
Return(t) == thread' = [thread EXCEPT ![t] = IF t = Plugin THEN [Idle EXCEPT !.at = IF thread[t].why = "control" THEN "dispose" ELSE "loop"] ELSE Idle]

Stopped == {"exited", "terminated", "missing"}
Known(c) == rec[c].st \in Stopped \cup {"running"}
Alive(c) == proc[c] \in {"alive", "termed"}
Outstanding(c) == waits[c].exit + waits[c].until
None == [exit |-> 0, until |-> 0]
NewWatcher(w) == IF w = "none" THEN NoWatcher ELSE [st |-> "active", watch |-> w, pend |-> 0]
\* untilAction is "stop" unless "keep" is asked for, with or without a pattern.
StopsOnMatch(w) == w \in {"filter", "stop"}
Disarm(c) == [armed EXCEPT !.deadline = @ \ {c}, !.flush = @ \ {c}]
clearNotifyRetry(c) == [armed EXCEPT !.notice = @ \ {c}, !.tries[c] = 0]

shouldNotifyOwnerOnExit(c) ==
    /\ rec[c].reason # "until"
    /\ rec[c].always \/ rec[c].reason = "timeout" \/ rec[c].st \in {"missing", "exited"}
-----------------------------------------------------------------------------
(* start(): the duplicate check, the process, its record, its callbacks.    *)
Fresh(c) ==
    /\ rec[c].st = "none" /\ proc[c] = "none" /\ \A t \in Threads : thread[t].cmd # c
    /\ \A d \in 1 .. c - 1 : rec[d].st # "none" \/ proc[d] # "none" \/ \E t \in Threads : thread[t].cmd = d

NoDuplicate == \A d \in Commands : rec[d].st # "running"

AskStart(t, c, s) ==
    /\ At(t, "rest") /\ Fresh(c) /\ NoDuplicate /\ Spend("verbs", MaxVerbs)
    /\ rec' = [rec EXCEPT ![c] = [Blank EXCEPT !.watch = s.watch, !.limit = s.limit, !.always = s.always]]
    /\ thread' = [thread EXCEPT ![t] = [Idle EXCEPT !.at = "spawn", !.cmd = c, !.why = "start"]]
    /\ UNCHANGED <<orphans, waits, log, proc, pipe, memory, todo, hist>>

\* The rest of restart(): the same spec under a fresh id, or a refusal.
Restart(t) ==
    /\ At(t, "restart")
    /\ \/ /\ NoDuplicate
          /\ \E c \in Commands :
                /\ Fresh(c)
                /\ LET old == rec[thread[t].cmd] IN
                   rec' = [rec EXCEPT ![c] = [Blank EXCEPT !.watch = old.watch, !.limit = old.limit, !.always = old.always]]
                /\ thread' = [thread EXCEPT ![t] = [Idle EXCEPT !.at = "spawn", !.cmd = c, !.why = "start"]]
       \/ /\ ~NoDuplicate \/ \A c \in Commands : ~Fresh(c)
          /\ Return(t) /\ UNCHANGED rec
    /\ UNCHANGED <<orphans, waits, log, proc, pipe, memory, todo, bound, hist>>

Spawn(t) ==
    /\ At(t, "spawn")
    /\ LET c == thread[t].cmd IN
       /\ proc' = [proc EXCEPT ![c] = "alive"] /\ pipe' = pipe \cup {c}
    /\ Goto(t, "record")
    /\ UNCHANGED <<stored, bound, memory, todo, hist>>

RecordStart(t) ==
    /\ At(t, "record")
    /\ rec' = [rec EXCEPT ![thread[t].cmd].st = "running"] /\ Goto(t, "release")
    /\ UNCHANGED <<orphans, waits, log, proc, pipe, memory, todo, bound, hist>>

\* The gate refuses, the spawn throws, or the record cannot be written: what
\* was spawned is rolled back, nothing if nothing was.
StartFails(t) ==
    /\ Fails("start")
    /\ \/ /\ At(t, "spawn")
          /\ rec' = [rec EXCEPT ![thread[t].cmd] = [Blank EXCEPT !.st = "gone"]] /\ Return(t)
       \/ /\ At(t, "record")
          /\ Goto(t, "rollback") /\ UNCHANGED rec
    /\ UNCHANGED <<orphans, waits, log, proc, pipe, memory, todo, hist>>

\* Mutant: callbacks that came before the record existed are dropped.
ReleaseEmpty(t) ==
    /\ At(t, "release")
    /\ LET c == thread[t].cmd IN
       /\ live' = live \cup {c} /\ ready' = ready \cup {c} /\ queue' = [queue EXCEPT ![c] = <<>>]
       /\ watcher' = [watcher EXCEPT ![c] = NewWatcher(rec[c].watch)]
       /\ armed' = [armed EXCEPT !.deadline = IF rec[c].limit THEN @ \cup {c} ELSE @]
    /\ Return(t)
    /\ UNCHANGED <<stored, proc, pipe, busy, todo, bound, hist>>

ReleaseStart(t) ==
    /\ At(t, "release")
    /\ LET c == thread[t].cmd IN
       /\ live' = live \cup {c} /\ ready' = ready \cup {c}
       /\ watcher' = [watcher EXCEPT ![c] = NewWatcher(rec[c].watch)]
       /\ armed' = [armed EXCEPT !.deadline = IF rec[c].limit THEN @ \cup {c} ELSE @]
    /\ Return(t)
    /\ UNCHANGED <<stored, proc, pipe, queue, busy, todo, bound, hist>>

rollbackStart(t) ==
    /\ At(t, "rollback")
    /\ LET c == thread[t].cmd IN
       /\ proc' = [proc EXCEPT ![c] = "dead"]
       /\ rec' = [rec EXCEPT ![c] = [Blank EXCEPT !.st = "gone"]]
       /\ queue' = [queue EXCEPT ![c] = <<>>]
    /\ Return(t)
    /\ UNCHANGED <<orphans, waits, log, pipe, live, ready, watcher, armed, busy, todo, bound, hist>>
-----------------------------------------------------------------------------
(* The process: it prints, ends by itself, heeds or traps SIGTERM, and      *)
(* dies of SIGKILL.  The plugin that spawned it hears of it, in order.      *)
Hears(c, event) == queue' = [queue EXCEPT ![c] = IF c \in pipe THEN Append(@, event) ELSE @]

Output(c) ==
    /\ Alive(c) /\ c \in pipe /\ Spend("lines", MaxLines)
    /\ Hears(c, "out")
    /\ UNCHANGED <<stored, proc, pipe, live, ready, watcher, armed, busy, thread, todo, hist>>

Exit(c) ==
    /\ proc[c] \in {"alive", "termed", "killed"}
    /\ \/ proc[c] # "killed" /\ Hears(c, "exited")
       \/ proc[c] # "alive" /\ Hears(c, "signalled")
    /\ proc' = [proc EXCEPT ![c] = "dead"]
    /\ UNCHANGED <<stored, pipe, live, ready, watcher, armed, busy, thread, todo, bound, hist>>

Ready(c, op) == c \in ready /\ At(<<"queue", c>>, "rest") /\ queue[c] # <<>> /\ Head(queue[c]) = op
Take(c) == queue' = [queue EXCEPT ![c] = Tail(@)]
Work(c, l, why) == thread' = [thread EXCEPT ![<<"queue", c>>] = [Idle EXCEPT !.at = l, !.cmd = c, !.why = why]]
-----------------------------------------------------------------------------
(* persistOutput(): feed the watcher, append to the log, then the record.   *)
feedChunk(c) ==
    LET w == IF watcher[c].st = "none" /\ rec[c].st = "running" /\ rec[c].watch # "none"
             THEN NewWatcher(rec[c].watch) ELSE watcher[c]
    IN  CASE w.st = "none" -> w
          [] w.st = "active" /\ w.watch \in {"keep", "stop"} -> [w EXCEPT !.st = "matched", !.pend = @ + 1]
          [] w.st = "matched" /\ w.watch = "stop" -> w
          [] OTHER -> [w EXCEPT !.pend = @ + 1]

\* What became of the chunk: persistOutput() goes on with the watcher it fed.
Fed(c) ==
    CASE feedChunk(c).st = "none" -> "unwatched"
      [] feedChunk(c).st = "matched" /\ watcher[c].st # "matched" -> "until"
      [] watcher[c].st = "matched" -> "matched"
      [] OTHER -> "output"

FeedOutput(c) ==
    /\ Ready(c, "out") /\ Take(c)
    /\ watcher' = [watcher EXCEPT ![c] = feedChunk(c)]
    /\ log' = log \cup {c}
    /\ Work(c, "persist", Fed(c))
    /\ UNCHANGED <<rec, orphans, waits, proc, pipe, live, ready, armed, busy, todo, bound, hist>>

\* Mutant: the match waits for the coalescing timer like any other line.
PersistPatiently(c) ==
    LET q == <<"queue", c>> IN
    /\ At(q, "persist")
    /\ rec' = [rec EXCEPT ![c].hit = IF Known(c) /\ thread[q].why # "unwatched" THEN thread[q].why # "output" ELSE @]
    /\ armed' = [armed EXCEPT !.flush = IF watcher[c].pend > 0 \/ thread[q].why \in {"output", "until"} THEN @ \cup {c} ELSE @]
    /\ thread' = [thread EXCEPT ![q].at = "fireUntil", ![q].why = "output"]
    /\ UNCHANGED <<orphans, waits, log, proc, pipe, live, ready, queue, watcher, busy, todo, bound, hist>>

PersistOutput(c) ==
    LET q == <<"queue", c>> IN
    /\ At(q, "persist")
    /\ rec' = [rec EXCEPT ![c].hit = IF Known(c) /\ thread[q].why # "unwatched" THEN thread[q].why # "output" ELSE @]
    /\ IF thread[q].why = "until"
       THEN /\ armed' = [armed EXCEPT !.flush = @ \ {c}]
            /\ queue' = [queue EXCEPT ![c] = Append(@, "until")]
       ELSE /\ armed' = [armed EXCEPT !.flush = IF watcher[c].pend > 0 \/ thread[q].why = "output" THEN @ \cup {c} ELSE @]
            /\ UNCHANGED queue
    /\ thread' = [thread EXCEPT ![q].at = "fireUntil", ![q].why = "output"]
    /\ UNCHANGED <<orphans, waits, log, proc, pipe, live, ready, watcher, busy, todo, bound, hist>>

FlushTimer(c) ==
    /\ c \in armed.flush
    /\ armed' = [armed EXCEPT !.flush = @ \ {c}]
    /\ queue' = [queue EXCEPT ![c] = Append(@, "flush")]
    /\ UNCHANGED <<stored, proc, pipe, live, ready, watcher, busy, thread, todo, bound, hist>>

flushWatch(c) ==
    /\ Ready(c, "flush") /\ Take(c)
    /\ watcher' = [watcher EXCEPT ![c].pend = IF rec[c].st = "running" THEN 0 ELSE @]
    /\ UNCHANGED <<stored, proc, pipe, live, ready, armed, busy, thread, todo, bound, hist>>

(* handleUntilMatch(): claim the owner's one message, send the notice, and  *)
(* for "stop" terminate.  It does what the watcher installed by then does,  *)
(* be it a fresh one that has matched nothing.                              *)
UntilClaim(c) ==
    /\ Ready(c, "until") /\ Take(c)
    /\ IF watcher[c].st = "none" \/ ~Known(c)
       THEN UNCHANGED <<rec, watcher, armed, thread>>
       ELSE /\ watcher' = [watcher EXCEPT ![c].pend = 0]
            /\ armed' = [armed EXCEPT !.flush = @ \ {c}]
            /\ rec' = [rec EXCEPT ![c].hit = watcher[c].st = "matched", ![c].told = @ \/ StopsOnMatch(watcher[c].watch)]
            /\ IF StopsOnMatch(watcher[c].watch) /\ rec[c].st = "running" THEN Work(c, "ask", "until") ELSE UNCHANGED thread
    /\ UNCHANGED <<orphans, waits, log, proc, pipe, live, ready, busy, todo, bound, hist>>

(* persistExit(): the last push, the handles, then the record.              *)
ExitHeard(c) ==
    /\ \E how \in {"exited", "signalled"} : Ready(c, how) /\ Work(c, "exit", how)
    /\ Take(c)
    /\ live' = live \ {c} /\ armed' = Disarm(c)
    /\ watcher' = [watcher EXCEPT ![c] = NoWatcher]
    /\ UNCHANGED <<stored, proc, pipe, ready, busy, todo, bound, hist>>

Ended(c, how) ==
    IF how = "signalled" /\ rec[c].sig \in {"SIGTERM", "SIGKILL"}
    THEN [rec[c] EXCEPT !.st = "terminated", !.reason = IF @ = "until" THEN @ ELSE "terminate"]
    ELSE [rec[c] EXCEPT !.st = "exited", !.reason = "exit"]

\* Mutant: the exit does not look whether an end is recorded already.
ExitOverEnd(c) ==
    LET q == <<"queue", c>> IN
    /\ At(q, "exit")
    /\ rec' = [rec EXCEPT ![c] = IF Known(c) THEN Ended(c, thread[q].why) ELSE @]
    /\ Work(c, "fire", "exit")
    /\ UNCHANGED <<orphans, waits, log, proc, pipe, memory, todo, bound, hist>>

ExitRecord(c) ==
    LET q == <<"queue", c>> IN
    /\ At(q, "exit")
    /\ rec' = [rec EXCEPT ![c] = IF @.st = "running" /\ @.reason # "timeout" THEN Ended(c, thread[q].why) ELSE @]
    /\ Work(c, "fire", "exit")
    /\ UNCHANGED <<orphans, waits, log, proc, pipe, memory, todo, bound, hist>>
-----------------------------------------------------------------------------
(* terminate() and kill(), by a tool, a deadline, a watch or dispose().     *)
AskStop(t, c, how) ==
    /\ At(t, "rest") /\ Known(c) /\ Spend("verbs", MaxVerbs)
    /\ thread' = [thread EXCEPT ![t] = [Idle EXCEPT !.cmd = c, !.why = how,
                    !.at = CASE how = "kill" -> "askKill"
                             [] how = "restart" /\ rec[c].st # "running" -> "restart"
                             [] OTHER -> "ask"]]
    /\ UNCHANGED <<stored, proc, pipe, memory, todo, hist>>

Deadline(c) ==
    /\ c \in armed.deadline /\ At(<<"timer", c>>, "rest")
    /\ armed' = [armed EXCEPT !.deadline = @ \ {c}]
    /\ thread' = IF rec[c].st = "running"
                 THEN [thread EXCEPT ![<<"timer", c>>] = [Idle EXCEPT !.at = "ask", !.cmd = c, !.why = "timeout"]]
                 ELSE thread
    /\ UNCHANGED <<stored, proc, pipe, live, ready, queue, watcher, busy, todo, bound, hist>>

\* Where a thread goes when its terminate() has returned.
AfterStop(t) ==
    CASE thread[t].why \in {"until", "timeout"} -> Goto(t, "stamp")
      [] thread[t].why = "restart" -> Goto(t, "restart")
      [] thread[t].why = "remove" -> Goto(t, "remove")
      [] OTHER -> Return(t)

Refuse(t) == IF thread[t].why = "restart" THEN Return(t) ELSE AfterStop(t)

Judge(t) ==
    /\ At(t, "ask")
    /\ LET c == thread[t].cmd IN
       \/ rec[c].st = "running" /\ Goto(t, "claim") /\ UNCHANGED proc
       \/ /\ rec[c].st \in {"missing", "terminated"} /\ Alive(c) /\ thread[t].why # "remove"
          /\ proc' = [proc EXCEPT ![c] = "killed"] \* SIGTERM, a grace, SIGKILL
          /\ Goto(t, "signalled")
       \/ /\ rec[c].st # "running" /\ ~(rec[c].st \in {"missing", "terminated"} /\ Alive(c) /\ thread[t].why # "remove")
          /\ Refuse(t) /\ UNCHANGED proc
    /\ UNCHANGED <<stored, pipe, memory, todo, bound, hist>>

\* Mutant: the fence goes when the orphan is signalled, not when it is dead.
UnfencedBySignal(t) ==
    /\ At(t, "signalled")
    /\ orphans' = orphans \ {thread[t].cmd}
    /\ AfterStop(t)
    /\ UNCHANGED <<rec, waits, log, proc, pipe, memory, todo, bound, hist>>

MissingSignalled(t) ==
    /\ At(t, "signalled")
    /\ orphans' = IF proc[thread[t].cmd] = "dead" THEN orphans \ {thread[t].cmd} ELSE orphans
    /\ AfterStop(t)
    /\ UNCHANGED <<rec, waits, log, proc, pipe, memory, todo, bound, hist>>

Claim(t) ==
    /\ At(t, "claim")
    /\ LET c == thread[t].cmd IN
       rec' = [rec EXCEPT ![c] = IF @.st # "running" THEN @ ELSE
                [@ EXCEPT !.sig = "SIGTERM",
                          !.reason = IF rec[c].reason # "timeout" /\ rec[c].hit /\ StopsOnMatch(rec[c].watch)
                                     THEN "until" ELSE rec[c].reason]]
    /\ Goto(t, "signal")
    /\ UNCHANGED <<orphans, waits, log, proc, pipe, memory, todo, bound, hist>>

\* Without a handle, a process the record proves ours gets SIGTERM and SIGKILL.
Signal(t) ==
    /\ At(t, "signal")
    /\ LET c == thread[t].cmd IN
       \/ /\ c \in live /\ Alive(c)
          /\ proc' = [proc EXCEPT ![c] = "termed"] /\ Goto(t, "wait")
       \/ /\ c \in live /\ ~Alive(c)
          /\ Goto(t, "foundDead") /\ UNCHANGED proc
       \/ /\ c \notin live
          /\ proc' = [proc EXCEPT ![c] = IF Alive(c) THEN "killed" ELSE @] /\ Goto(t, "finish")
    /\ UNCHANGED <<stored, pipe, memory, todo, bound, hist>>

Escalate(t) ==
    /\ At(t, "wait") /\ proc[thread[t].cmd] = "termed"
    /\ proc' = [proc EXCEPT ![thread[t].cmd] = "killed"]
    /\ UNCHANGED <<stored, pipe, memory, thread, todo, bound, hist>>

Waited(t) ==
    /\ At(t, "wait") /\ proc[thread[t].cmd] = "dead"
    /\ Goto(t, "finish")
    /\ UNCHANGED <<stored, proc, pipe, memory, todo, bound, hist>>

\* The end of the command as t saw it, unless another wrote one first.
Close(c, status, reason) ==
    /\ live' = live \ {c} /\ armed' = Disarm(c)
    /\ rec' = [rec EXCEPT ![c] = IF @.st # "running" THEN @ ELSE
                [@ EXCEPT !.st = status, !.reason = IF rec[c].reason = "timeout" THEN "timeout" ELSE reason]]

Finalize(t) ==
    /\ thread[t].at \in {"finish", "foundDead"}
    /\ LET c == thread[t].cmd IN
       IF At(t, "foundDead") THEN Close(c, "exited", "exit")
       ELSE Close(c, "terminated", IF rec[c].reason = "until" THEN "until" ELSE "terminate")
    /\ Goto(t, "fire")
    /\ UNCHANGED <<orphans, waits, log, proc, pipe, ready, queue, watcher, busy, todo, bound, hist>>

(* kill(): no grace, and what the watch claimed as its stop is overwritten. *)
KillJudge(t) ==
    /\ At(t, "askKill")
    /\ LET c == thread[t].cmd IN
       \/ rec[c].st = "running" /\ Goto(t, "claimKill") /\ UNCHANGED proc
       \/ /\ rec[c].st \in {"missing", "terminated"} /\ Alive(c)
          /\ proc' = [proc EXCEPT ![c] = "killed"] /\ Goto(t, "signalled")
       \/ /\ rec[c].st # "running" /\ ~(rec[c].st \in {"missing", "terminated"} /\ Alive(c))
          /\ Return(t) /\ UNCHANGED proc
    /\ UNCHANGED <<stored, pipe, memory, todo, bound, hist>>

ClaimKill(t) ==
    /\ At(t, "claimKill")
    /\ rec' = [rec EXCEPT ![thread[t].cmd].sig = IF rec[thread[t].cmd].st = "running" THEN "SIGKILL" ELSE @]
    /\ Goto(t, "kill")
    /\ UNCHANGED <<orphans, waits, log, proc, pipe, memory, todo, bound, hist>>

SignalKill(t) ==
    /\ At(t, "kill")
    /\ LET c == thread[t].cmd IN
       /\ proc' = [proc EXCEPT ![c] = IF Alive(c) THEN "killed" ELSE @]
       /\ Goto(t, IF c \in live THEN "waitKill" ELSE "finishKill")
    /\ UNCHANGED <<stored, pipe, memory, todo, bound, hist>>

WaitedKill(t) ==
    /\ At(t, "waitKill") /\ proc[thread[t].cmd] = "dead"
    /\ Goto(t, "finishKill")
    /\ UNCHANGED <<stored, proc, pipe, memory, todo, bound, hist>>

FinalizeKill(t) ==
    /\ At(t, "finishKill")
    /\ Close(thread[t].cmd, "terminated", "terminate")
    /\ Goto(t, "fire")
    /\ UNCHANGED <<orphans, waits, log, proc, pipe, ready, queue, watcher, busy, todo, bound, hist>>

\* The deadline or the watch writes its reason over what terminate() left.
Stamp(t) ==
    /\ At(t, "stamp")
    /\ LET c == thread[t].cmd IN
       \/ /\ thread[t].why = "timeout"
          /\ rec' = [rec EXCEPT ![c].reason = IF Known(c) THEN "timeout" ELSE @]
          /\ thread' = [thread EXCEPT ![t].at = "fire", ![t].why = "timed out"]
       \/ /\ thread[t].why = "until"
          /\ rec' = [rec EXCEPT ![c].reason = IF rec[c].st = "terminated" /\ @ # "timeout" THEN "until" ELSE @]
          /\ thread' = [thread EXCEPT ![t].at = "fire", ![t].why = "stopped"]
    /\ UNCHANGED <<orphans, waits, log, proc, pipe, memory, todo, bound, hist>>

interrupt(c) ==
    /\ rec[c].st \in {"running", "missing", "terminated"} /\ Alive(c)
    /\ Spend("verbs", MaxVerbs)
    /\ rec' = [rec EXCEPT ![c].sig = "SIGINT"]
    /\ UNCHANGED <<orphans, waits, log, proc, pipe, memory, thread, todo, hist>>
-----------------------------------------------------------------------------
(* Awaits.  Firing consumes them in one transaction, then delivers.         *)
AfterFire(t) == IF thread[t].why \in {"stopped", "await", "output", "recheck"} THEN Return(t) ELSE Goto(t, "notify")

\* Mutant: the awaits are removed after delivery, not in the transaction.
FireThenConsume(t) ==
    /\ At(t, "fire")
    /\ LET c == thread[t].cmd IN
       \/ /\ Outstanding(c) > 0 /\ rec[c].st \in Stopped
          /\ thread' = [thread EXCEPT ![t].at = "deliver", ![t].hand = Outstanding(c)]
          /\ UNCHANGED <<waits, hist>>
       \/ /\ Outstanding(c) = 0 \/ rec[c].st \notin Stopped
          /\ AfterFire(t) /\ UNCHANGED <<waits, hist>>
    /\ UNCHANGED <<rec, orphans, log, proc, pipe, memory, todo, bound>>

fireCommandAwaits(t) ==
    /\ At(t, "fire")
    /\ LET c == thread[t].cmd IN
       \/ /\ Outstanding(c) > 0 /\ rec[c].st \in Stopped
          /\ waits' = [waits EXCEPT ![c] = None]
          /\ thread' = [thread EXCEPT ![t].at = "deliver", ![t].hand = Outstanding(c)]
          /\ UNCHANGED hist
       \/ /\ Outstanding(c) > 0 /\ ~Known(c) \* discarded with a note
          /\ waits' = [waits EXCEPT ![c] = None]
          /\ hist' = [hist EXCEPT !.owed = @ - Outstanding(c)]
          /\ AfterFire(t)
       \/ /\ Outstanding(c) = 0 \/ rec[c].st = "running"
          /\ AfterFire(t) /\ UNCHANGED <<waits, hist>>
    /\ UNCHANGED <<rec, orphans, log, proc, pipe, memory, todo, bound>>

Deliver(t) ==
    /\ At(t, "deliver")
    /\ hist' = [hist EXCEPT !.owed = @ - thread[t].hand]
    /\ IF thread[t].why \in {"stopped", "await", "output", "recheck"}
       THEN Return(t)
       ELSE thread' = [thread EXCEPT ![t].at = "notify", ![t].hand = 0]
    /\ UNCHANGED <<stored, proc, pipe, memory, todo, bound>>

fireUntilAwaits(t) ==
    /\ At(t, "fireUntil")
    /\ LET c == thread[t].cmd IN
       \/ /\ Known(c) /\ waits[c].until > 0
          /\ waits' = [waits EXCEPT ![c].until = 0]
          /\ thread' = [thread EXCEPT ![t].at = "deliver", ![t].hand = waits[c].until]
       \/ /\ ~Known(c) \/ waits[c].until = 0
          /\ IF thread[t].why = "recheck" THEN thread' = [thread EXCEPT ![t].at = "fire", ![t].why = "await"] ELSE Return(t)
          /\ UNCHANGED waits
    /\ UNCHANGED <<rec, orphans, log, proc, pipe, memory, todo, bound, hist>>

AskAwait(t, c, kind) ==
    /\ At(t, "rest") /\ Known(c) /\ Outstanding(c) = 0
    /\ Spend("verbs", MaxVerbs)
    /\ thread' = [thread EXCEPT ![t] = [Idle EXCEPT !.cmd = c, !.why = kind,
                    !.at = IF rec[c].st = "running" THEN "register" ELSE "enlist"]]
    /\ UNCHANGED <<stored, proc, pipe, memory, todo, hist>>

Enlist(c, kind) ==
    /\ waits' = [waits EXCEPT ![c][kind] = @ + 1]
    /\ hist' = [hist EXCEPT !.owed = @ + 1]

\* Already over when asked about: persisted, then fired like any other.
EnlistOver(t) ==
    /\ At(t, "enlist")
    /\ Enlist(thread[t].cmd, thread[t].why)
    /\ thread' = [thread EXCEPT ![t].at = "fire", ![t].why = "await"]
    /\ UNCHANGED <<rec, orphans, log, proc, pipe, memory, todo, bound>>

\* Mutant: subscribes without looking again whether the command is over.
RegisterBlind(t) ==
    /\ At(t, "register")
    /\ LET c == thread[t].cmd IN IF Outstanding(c) = 0 THEN Enlist(c, thread[t].why) ELSE UNCHANGED <<waits, hist>>
    /\ Return(t)
    /\ UNCHANGED <<rec, orphans, log, proc, pipe, memory, todo, bound>>

\* Subscribe, and look again in the same transaction.
Register(t) ==
    /\ At(t, "register")
    /\ LET c == thread[t].cmd IN
       /\ IF Outstanding(c) = 0 THEN Enlist(c, thread[t].why) ELSE UNCHANGED <<waits, hist>>
       /\ CASE rec[c].st \in Stopped -> thread' = [thread EXCEPT ![t].at = "fire", ![t].why = "await"]
            [] rec[c].st \notin Stopped /\ thread[t].why = "until" ->
                 thread' = [thread EXCEPT ![t].at = "recheck", ![t].why = "recheck"]
            [] OTHER -> Return(t)
    /\ UNCHANGED <<rec, orphans, log, proc, pipe, memory, todo, bound>>

\* The pattern may have been printed before the await was registered.
Recheck(t) ==
    /\ At(t, "recheck")
    /\ IF thread[t].cmd \in log THEN Goto(t, "fireUntil") ELSE Return(t)
    /\ UNCHANGED <<stored, proc, pipe, memory, todo, bound, hist>>

cancelAwaitsForGoal(c) ==
    /\ Outstanding(c) > 0 /\ Spend("verbs", MaxVerbs)
    /\ waits' = [waits EXCEPT ![c] = None]
    /\ hist' = [hist EXCEPT !.owed = @ - Outstanding(c)]
    /\ UNCHANGED <<rec, orphans, log, proc, pipe, memory, thread, todo>>
-----------------------------------------------------------------------------
(* notifyOwnerIfNeeded(): one message per command, marked once accepted.    *)
AfterNotify(t) ==
    CASE thread[t].why \in {"until", "timeout", "restart", "remove"} -> AfterStop(t)
      [] OTHER -> Return(t)

\* Mutant: nobody asks whether another call is telling the owner already.
NotifyBeside(t) ==
    /\ At(t, "notify")
    /\ Goto(t, "decide") /\ busy' = busy \cup {thread[t].cmd}
    /\ UNCHANGED <<stored, proc, pipe, live, ready, queue, watcher, armed, todo, bound, hist>>

NotifyEnter(t) ==
    /\ At(t, "notify")
    /\ IF thread[t].cmd \in busy THEN AfterNotify(t) /\ UNCHANGED busy
       ELSE Goto(t, "decide") /\ busy' = busy \cup {thread[t].cmd}
    /\ UNCHANGED <<stored, proc, pipe, live, ready, queue, watcher, armed, todo, bound, hist>>

Decide(t) ==
    /\ At(t, "decide")
    /\ LET c == thread[t].cmd IN
       IF rec[c].st \in Stopped /\ ~rec[c].told /\ shouldNotifyOwnerOnExit(c)
       THEN Goto(t, "send") /\ UNCHANGED busy
       ELSE AfterNotify(t) /\ busy' = busy \ {c}
    /\ UNCHANGED <<stored, proc, pipe, live, ready, queue, watcher, armed, todo, bound, hist>>

\* Mutant: a refused notice is not tried again.
SendOnce(t) ==
    /\ At(t, "send")
    /\ LET c == thread[t].cmd IN
       \/ /\ hist' = [hist EXCEPT !.pings[c] = @ + 1]
          /\ Goto(t, "mark") /\ UNCHANGED <<busy, bound>>
       \/ /\ Refused
          /\ busy' = busy \ {c}
          /\ AfterNotify(t) /\ UNCHANGED hist
    /\ UNCHANGED <<stored, proc, pipe, live, ready, queue, watcher, armed, todo>>

Send(t) ==
    /\ At(t, "send")
    /\ LET c == thread[t].cmd IN
       \/ /\ hist' = [hist EXCEPT !.pings[c] = @ + 1]
          /\ Goto(t, "mark") /\ UNCHANGED <<armed, busy, bound>>
       \/ /\ Refused \* refused: tried again later, but not for ever
          /\ armed' = [armed EXCEPT !.tries[c] = @ + 1,
                                    !.notice = IF armed.tries[c] < NoticeRetries THEN @ \cup {c} ELSE @]
          /\ busy' = busy \ {c}
          /\ AfterNotify(t) /\ UNCHANGED hist
    /\ UNCHANGED <<stored, proc, pipe, live, ready, queue, watcher, todo>>

MarkTold(t) ==
    /\ At(t, "mark")
    /\ LET c == thread[t].cmd IN
       /\ rec' = [rec EXCEPT ![c].told = Known(c) \/ @]
       /\ busy' = busy \ {c}
       /\ armed' = clearNotifyRetry(c)
    /\ AfterNotify(t)
    /\ UNCHANGED <<orphans, waits, log, proc, pipe, live, ready, queue, watcher, todo, bound, hist>>

retryOwnerNotification(c) ==
    /\ c \in armed.notice /\ At(<<"timer", c>>, "rest")
    /\ armed' = [armed EXCEPT !.notice = @ \ {c}]
    /\ thread' = [thread EXCEPT ![<<"timer", c>>] = [Idle EXCEPT !.at = "notify", !.cmd = c, !.why = "again"]]
    /\ UNCHANGED <<stored, proc, pipe, live, ready, queue, watcher, busy, todo, bound, hist>>
-----------------------------------------------------------------------------
(* remove() and watch().                                                    *)
AskRemove(t, c) ==
    /\ At(t, "rest") /\ Known(c) /\ Spend("verbs", MaxVerbs)
    /\ thread' = [thread EXCEPT ![t] = [Idle EXCEPT !.at = "remove", !.cmd = c, !.why = "remove"]]
    /\ UNCHANGED <<stored, proc, pipe, memory, todo, hist>>

\* Mutant: any recorded end counts as the end of the process.
RemovableOnceOver(c) == rec[c].st \in Stopped

Removable(c) == rec[c].st \in Stopped /\ (rec[c].st = "exited" \/ ~Alive(c))

RemoveJudge(t) ==
    /\ At(t, "remove")
    /\ LET c == thread[t].cmd IN
       IF Removable(c)
       THEN /\ Goto(t, "removing")
            /\ watcher' = [watcher EXCEPT ![c] = NoWatcher]
            /\ armed' = [clearNotifyRetry(c) EXCEPT !.flush = @ \ {c}]
       ELSE Return(t) /\ UNCHANGED <<watcher, armed>>
    /\ UNCHANGED <<stored, proc, pipe, live, ready, queue, busy, todo, bound, hist>>

RemoveRecord(t) ==
    /\ At(t, "removing")
    /\ LET c == thread[t].cmd IN
       /\ rec' = [rec EXCEPT ![c] = [Blank EXCEPT !.st = "gone"]]
       /\ orphans' = orphans \ {c} /\ log' = log \ {c}
    /\ Goto(t, "clearing")
    /\ UNCHANGED <<waits, proc, pipe, memory, todo, bound, hist>>

clearAwaitsForCommand(t) ==
    /\ At(t, "clearing")
    /\ LET c == thread[t].cmd IN
       /\ waits' = [waits EXCEPT ![c] = None]
       /\ hist' = [hist EXCEPT !.owed = @ - Outstanding(c)]
    /\ Return(t)
    /\ UNCHANGED <<rec, orphans, log, proc, pipe, memory, todo, bound>>


AskWatch(t, c, w) ==
    /\ At(t, "rest") /\ rec[c].st = "running" /\ Spend("verbs", MaxVerbs)
    /\ watcher' = [watcher EXCEPT ![c] = NewWatcher(w)]
    /\ armed' = [armed EXCEPT !.flush = @ \ {c}]
    /\ thread' = [thread EXCEPT ![t] = [Idle EXCEPT !.at = "watch", !.cmd = c, !.why = w]]
    /\ UNCHANGED <<stored, proc, pipe, live, ready, queue, busy, todo, hist>>

RecordWatch(t) ==
    /\ At(t, "watch")
    /\ LET c == thread[t].cmd IN
       rec' = [rec EXCEPT ![c] = IF Known(c) THEN [@ EXCEPT !.watch = thread[t].why, !.hit = FALSE] ELSE @]
    /\ Return(t)
    /\ UNCHANGED <<orphans, waits, log, proc, pipe, memory, todo, bound, hist>>
-----------------------------------------------------------------------------
(* The plugin: reconcile() and the awaits when it starts, dispose() when it *)
(* stops.  Tools run meanwhile.                                             *)
ReconcileRead ==
    /\ At(Plugin, "read")
    /\ todo' = [running |-> {c \in Commands : rec[c].st = "running"},
                others |-> {c \in Commands : rec[c].st \in Stopped /\ ~rec[c].told}]
    /\ Goto(Plugin, "loop")
    /\ UNCHANGED <<stored, proc, pipe, memory, bound, hist>>

Turn(c, l, why) == thread' = [thread EXCEPT ![Plugin] = [Idle EXCEPT !.at = l, !.cmd = c, !.why = why]]

ReconcileOver(c) ==
    /\ At(Plugin, "loop") /\ c \in todo.others
    /\ todo' = [todo EXCEPT !.others = @ \ {c}]
    /\ Turn(c, "notify", "boot")
    /\ UNCHANGED <<stored, proc, pipe, memory, bound, hist>>

ReconcileRunning(c) ==
    /\ At(Plugin, "loop") /\ c \in todo.running
    /\ todo' = [todo EXCEPT !.running = @ \ {c}]
    /\ \/ /\ c \in live /\ proc[c] # "dead"
          /\ UNCHANGED <<rec, orphans, live, watcher, armed, thread>>
       \/ /\ c \in live /\ proc[c] = "dead"
          /\ live' = live \ {c} /\ armed' = Disarm(c) /\ watcher' = [watcher EXCEPT ![c] = NoWatcher]
          /\ rec' = [rec EXCEPT ![c] = IF @.st = "running" THEN [@ EXCEPT !.st = "exited", !.reason = "exit"] ELSE @]
          /\ Turn(c, "fire", "boot") /\ UNCHANGED orphans
       \/ /\ c \notin live /\ rec[c].kept /\ Alive(c)
          /\ rec' = [rec EXCEPT ![c].detached = (rec[c].st = "running") \/ @]
          /\ orphans' = IF rec[c].st = "running" THEN orphans \ {c} ELSE orphans
          /\ UNCHANGED <<live, watcher, armed, thread>>
       \/ /\ c \notin live /\ ~(rec[c].kept /\ Alive(c))
          /\ armed' = Disarm(c) /\ watcher' = [watcher EXCEPT ![c] = NoWatcher]
          /\ rec' = [rec EXCEPT ![c] = IF @.st = "running" THEN [@ EXCEPT !.st = "missing", !.reason = "missing"] ELSE @]
          /\ orphans' = IF rec[c].st = "running" THEN orphans \cup {c} ELSE orphans
          /\ Turn(c, "fire", "boot") /\ UNCHANGED live
    /\ UNCHANGED <<waits, log, proc, pipe, ready, queue, busy, bound, hist>>

reconcileCommandAwaits ==
    /\ At(Plugin, "loop") /\ todo = NoTodo
    /\ LET due == {c \in Commands : Outstanding(c) > 0 /\ rec[c].st # "running"} IN
       \/ \E c \in due : Turn(c, "fire", "await")
       \/ due = {} /\ thread' = [thread EXCEPT ![Plugin] = Idle]
    /\ UNCHANGED <<stored, proc, pipe, memory, todo, bound, hist>>

Dispose ==
    /\ At(Plugin, "rest") /\ Fails("dispose")
    /\ todo' = [NoTodo EXCEPT !.running = live]
    /\ watcher' = [c \in Commands |-> NoWatcher]
    /\ armed' = [armed EXCEPT !.flush = {}, !.notice = {},
                              !.tries = [c \in Commands |-> IF c \in armed.notice THEN 0 ELSE @[c]]]
    /\ Goto(Plugin, "dispose")
    /\ UNCHANGED <<stored, proc, pipe, live, ready, queue, busy, hist>>

DisposeCommand(c) ==
    /\ At(Plugin, "dispose") /\ c \in todo.running
    /\ todo' = [todo EXCEPT !.running = @ \ {c}]
    /\ IF rec[c].watch # "none"
       THEN rec' = [rec EXCEPT ![c].kept = (rec[c].st = "running") \/ @] /\ UNCHANGED thread
       ELSE Turn(c, "ask", "control") /\ UNCHANGED rec
    /\ UNCHANGED <<orphans, waits, log, proc, pipe, memory, bound, hist>>

(* A process of the plugin ends, disposed or not, and another starts.  Its  *)
(* memory and its calls are gone; its children may outlive it.              *)
Hands == [t \in Threads |-> IF At(t, "deliver") THEN thread[t].hand ELSE 0]
Total(f) == FoldFunction(+, 0, f)

Reload ==
    /\ \/ At(Plugin, "dispose") /\ todo = NoTodo /\ UNCHANGED bound
       \/ Fails("crash")
    /\ \E survivors \in SUBSET pipe :
          proc' = [c \in Commands |-> IF c \in pipe /\ c \notin survivors THEN "dead" ELSE proc[c]]
    /\ pipe' = {} /\ live' = {} /\ ready' = {} /\ busy' = {}
    /\ queue' = [c \in Commands |-> <<>>]
    /\ watcher' = [c \in Commands |-> NoWatcher]
    /\ armed' = NoTimers
    /\ thread' = [t \in Threads |-> IF t = Plugin THEN [Idle EXCEPT !.at = "read"] ELSE Idle]
    /\ todo' = NoTodo
    /\ hist' = [hist EXCEPT !.owed = @ - Total(Hands),
                            !.unmarked = @ \cup {thread[t].cmd : t \in {u \in Threads : At(u, "mark")}}]
    /\ UNCHANGED stored
-----------------------------------------------------------------------------
CallStep(t) ==
    \/ Restart(t) \/ Spawn(t) \/ RecordStart(t) \/ StartFails(t) \/ ReleaseStart(t) \/ rollbackStart(t)
    \/ Judge(t) \/ MissingSignalled(t) \/ Claim(t) \/ Signal(t) \/ Escalate(t) \/ Waited(t) \/ Finalize(t) \/ Stamp(t)
    \/ KillJudge(t) \/ ClaimKill(t) \/ SignalKill(t) \/ WaitedKill(t) \/ FinalizeKill(t)
    \/ fireCommandAwaits(t) \/ Deliver(t) \/ fireUntilAwaits(t) \/ EnlistOver(t) \/ Register(t) \/ Recheck(t)
    \/ NotifyEnter(t) \/ Decide(t) \/ Send(t) \/ MarkTold(t)
    \/ RemoveJudge(t) \/ RemoveRecord(t) \/ clearAwaitsForCommand(t) \/ RecordWatch(t)

QueueStep(c) == FeedOutput(c) \/ PersistOutput(c) \/ flushWatch(c) \/ UntilClaim(c) \/ ExitHeard(c) \/ ExitRecord(c)
TimerStep(c) == FlushTimer(c) \/ Deadline(c) \/ retryOwnerNotification(c)
PluginStep ==
    \/ ReconcileRead \/ reconcileCommandAwaits
    \/ \E c \in Commands : ReconcileOver(c) \/ ReconcileRunning(c) \/ DisposeCommand(c)

Tool ==
    \E t \in Callers, c \in Commands :
        \/ \E s \in Specs : AskStart(t, c, s)
        \/ \E how \in {"terminate", "kill", "restart", "remove"} : AskStop(t, c, how)
        \/ \E kind \in {"exit", "until"} : AskAwait(t, c, kind)
        \/ \E w \in Watches : AskWatch(t, c, w)
        \/ AskRemove(t, c)

Next ==
    \/ Tool
    \/ \E t \in Threads : CallStep(t)
    \/ \E c \in Commands : Output(c) \/ Exit(c) \/ QueueStep(c) \/ TimerStep(c) \/ interrupt(c) \/ cancelAwaitsForGoal(c)
    \/ PluginStep \/ Dispose \/ Reload

Spec == Init /\ [][Next]_vars

(* Fairness: the event loop runs what is queued and due, the clock reaches  *)
(* deadlines, and a process dies of SIGKILL.                                *)
FairSpec ==
    /\ Spec
    /\ \A t \in Threads : WF_vars(CallStep(t))
    /\ \A c \in Commands : WF_vars(QueueStep(c)) /\ WF_vars(TimerStep(c)) /\ WF_vars(proc[c] = "killed" /\ Exit(c))
    /\ WF_vars(PluginStep)
-----------------------------------------------------------------------------
Resting == {"rest", "read", "loop", "dispose"}
Labels == Resting \cup
    {"spawn", "record", "release", "rollback", "restart", "persist", "fireUntil", "exit",
     "ask", "claim", "signal", "wait", "finish", "foundDead", "signalled", "stamp",
     "askKill", "claimKill", "kill", "waitKill", "finishKill",
     "enlist", "register", "recheck", "fire", "deliver", "notify", "decide", "send", "mark",
     "remove", "removing", "clearing", "watch"}
Reasons == Watch \cup
    {"start", "output", "unwatched", "matched", "until", "recheck", "exit", "exited", "signalled", "terminate", "kill", "restart", "remove",
     "timeout", "timed out", "stopped", "await", "again", "boot", "control"}
Outcomes == {"none", "exit", "terminate", "timeout", "until", "missing"}
Operation == {"out", "until", "flush", "exited", "signalled"}

ThreadRecords == [at : Labels, cmd : 0 .. MaxCommands, why : Reasons, hand : Nat]
\* A thread that is under way has a command, and knows what it was asked for.
ThreadStates ==
    {r \in ThreadRecords :
        /\ r.at \notin Resting => r.cmd \in Commands
        /\ r.at = "watch" => r.why \in Watch
        /\ r.at \in {"enlist", "register"} => r.why \in {"exit", "until"}}
CommandRecords ==
    [st : {"none", "running", "gone"} \cup Stopped, watch : Watch, limit : BOOLEAN, always : BOOLEAN,
     sig : {"none", "SIGINT", "SIGTERM", "SIGKILL"}, reason : Outcomes,
     hit : BOOLEAN, told : BOOLEAN, kept : BOOLEAN, detached : BOOLEAN]
AwaitRecords == [exit : Nat, until : Nat]
Watchers == [st : {"none", "active", "matched"}, watch : Watch, pend : Nat]
Timers == [deadline : SUBSET Commands, flush : SUBSET Commands, notice : SUBSET Commands, tries : [Commands -> Nat]]
Plans == [running : SUBSET Commands, others : SUBSET Commands]
BoundRecords == [verbs : 0 .. MaxVerbs, lines : 0 .. MaxLines, faults : 0 .. MaxFaults]
\* What is owed is a sum: WakesAddUp says which.
HistTyped(h) == h \in [owed : {h.owed}, pings : [Commands -> Nat], unmarked : SUBSET Commands]

TypeOK ==
    /\ rec \in [Commands -> CommandRecords]
    /\ orphans \in SUBSET Commands /\ log \in SUBSET Commands
    /\ waits \in [Commands -> AwaitRecords]
    /\ proc \in [Commands -> {"none", "alive", "termed", "killed", "dead"}]
    /\ pipe \in SUBSET Commands /\ live \in SUBSET Commands /\ ready \in SUBSET Commands /\ busy \in SUBSET Commands
    /\ queue \in [Commands -> Seq(Operation)]
    /\ watcher \in [Commands -> Watchers]
    /\ armed \in Timers
    /\ thread \in [Threads -> ThreadStates]
    /\ todo \in Plans
    /\ bound \in BoundRecords
    /\ HistTyped(hist)

(* Every wake a goal asked for is still registered or in the hands of the   *)
(* one call that consumed it, until it is delivered or cancelled: exits,    *)
(* terminations, recovery and the request itself all fire, and none fires   *)
(* what another has.  Only a crash swallows what was in hand.               *)
WakesAddUp == hist.owed = Total(Hands) + Total([c \in Commands |-> Outstanding(c)])

(* The owner hears of a command's end at most once, whichever of exit,      *)
(* terminate, deadline, retry and recovery get there, unless the plugin     *)
(* dies between the prompt and its marker.                                  *)
PingedOnce == \A c \in Commands \ hist.unmarked : hist.pings[c] <= 1

(* A process that outlives its plugin with a record "missing" is listed     *)
(* among the orphans, which activations of goals wait for, until its death  *)
(* is observed: signalling it is not enough.                                *)
OrphansFenced == \A c \in Commands : rec[c].st = "missing" /\ proc[c] # "dead" => c \in orphans

(* The recorded end of a command never changes: late exits, terminations    *)
(* that raced them, deadlines and recovery leave the first outcome alone.   *)
TerminalIsFinal == [][\A c \in Commands : rec[c].st \in Stopped => rec'[c].st \in {rec[c].st, "gone"}]_vars

(* An end is recorded, also of a process that ended before start() had      *)
(* recorded it or while a tool was stopping it.                             *)
EndsRecorded == \A c \in Commands : proc[c] = "dead" /\ rec[c].st = "running" ~> rec[c].st # "running"

(* A goal's await is fired or dropped once its command is over: the wake    *)
(* is not missed by a request that was registering meanwhile.               *)
AwaitedEndWakes == \A c \in Commands : Outstanding(c) > 0 /\ rec[c].st \in Stopped ~> Outstanding(c) = 0

(* The owner is told of every end worth telling, though prompts are refused, *)
(* several calls back off from a notice another has begun, and the plugin   *)
(* starts anew: unless this plugin has been refused on every retry.  Then   *)
(* nobody tells until the next start, which begins to count again.          *)
GivenUp(c) == armed.tries[c] > NoticeRetries
OwnerPinged ==
    \A c \in Commands : rec[c].st \in Stopped /\ ~rec[c].told /\ shouldNotifyOwnerOnExit(c) /\ ~GivenUp(c)
                            ~> rec[c].told \/ rec[c].st = "gone" \/ ~shouldNotifyOwnerOnExit(c) \/ GivenUp(c)

(* A stop-watch that matched ends its command unless the owner set another. *)
UntilStops ==
    \A c \in Commands : rec[c].hit /\ rec[c].watch = "stop" ~> rec[c].st # "running" \/ ~rec[c].hit \/ rec[c].watch # "stop"


(* DuplicateCommandError: "A retried start must never silently spawn a      *)
(* twin."  The commands are one argv of one owner.                          *)
NoTwin == \A c, d \in Commands : c # d => ~(Alive(c) /\ Alive(d))
=============================================================================
