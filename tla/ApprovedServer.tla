---------------------------- MODULE ApprovedServer ----------------------------
(***************************************************************************)
(* Managed servers: processes a worker may start by name, that belong to    *)
(* its goal, and that must go when the goal's run goes.                     *)
(*                                                                          *)
(*   application/approved-commands.ts   start, stop, cleanup, reconciliation *)
(*   application/control-worker.ts      the tick that reconciles            *)
(*   application/command-service.ts     the processes and their records     *)
(*                                                                          *)
(* A record of state.approvedServers is what forbids a second server of the *)
(* same name.  It is reserved before the process exists, linked to it       *)
(* afterwards, and dropped when the end of the process is recorded.  Tool   *)
(* calls of workers and owner, and the tick (which may overlap itself once, *)
(* when the plugin starts), interleave at every await.                      *)
(*                                                                          *)
(* Abstractions.  One goal; its servers differ in name and argv.  A command *)
(* is what CommandSession says of one without a watch, without its awaits   *)
(* and notices: a termination is a kill and a record.  An operation on the  *)
(* workspace may refuse a start at any time.                                *)
(***************************************************************************)
EXTENDS Naturals, FiniteSets

CONSTANTS
    Names,       \* the approved servers of the goal
    Callers,     \* concurrent tool calls
    Boot, Timer, \* the tick of a plugin that starts, and the ones after it
    MaxCommands, \* bound: processes ever started
    MaxRuns,     \* bound: generations, and worker sessions
    MaxVerbs,    \* bound: tool calls, what becomes of the goal, and faults
    Faults,      \* what may fail
    MaxFaults    \* bound: how often it may

ASSUME NamesAssumption == Names # {}
ASSUME TicksAssumption == Boot # Timer /\ Boot \notin Callers /\ Timer \notin Callers
ASSUME FaultsAssumption == Faults \subseteq {"start", "crash", "remove"}
ASSUME BoundsAssumption == MaxCommands \in Nat /\ MaxRuns \in Nat \ {0} /\ MaxVerbs \in Nat /\ MaxFaults \in Nat

Commands == 1 .. MaxCommands
Runs == 1 .. MaxRuns
Ticks == {Boot, Timer}
Threads == Callers \cup Ticks
Owner == 0

VARIABLES
    goal,     \* the goal, its worker session (the earlier ones are retired) and runGeneration
    record,   \* state.approvedServers, by name
    command,  \* state.commands: status, owner, name
    proc,     \* the processes
    live,     \* handles of this plugin
    thread,   \* where each call and each tick is
    boot,     \* the reconciliation of commands that follows a start of the plugin
    bound,
    lost      \* history: names whose record went without a proved exit

stored == <<goal, record, command>>
vars == <<stored, proc, live, thread, boot, bound, lost>>

NoRecord == [cmd |-> 0, worker |-> 0, gen |-> 0]
Reserved(n) == record[n].worker # 0 /\ record[n].cmd = 0
Idle(t) == [at |-> IF t = Boot THEN "off" ELSE "rest", name |-> CHOOSE n \in Names : TRUE, worker |-> 0, cmd |-> 0, todo |-> {}]

Init ==
    /\ goal = [st |-> "active", worker |-> 1, gen |-> 1]
    /\ record = [n \in Names |-> NoRecord]
    /\ command = [c \in Commands |-> [st |-> "none", worker |-> 0, name |-> CHOOSE n \in Names : TRUE]]
    /\ proc = [c \in Commands |-> "none"] /\ live = {}
    /\ thread = [t \in Threads |-> Idle(t)]
    /\ boot = {}
    /\ bound = [verbs |-> 0, faults |-> 0]
    /\ lost = {}
-----------------------------------------------------------------------------
Verb == bound.verbs < MaxVerbs /\ bound' = [bound EXCEPT !.verbs = @ + 1]
Fails(what) ==
    /\ what \in Faults /\ bound.faults < MaxFaults /\ bound.verbs < MaxVerbs
    /\ bound' = [verbs |-> bound.verbs + 1, faults |-> bound.faults + 1]
At(t, l) == thread[t].at = l
Goto(t, l) == thread' = [thread EXCEPT ![t].at = l]
Return(t) == thread' = [thread EXCEPT ![t] = Idle(t)]

Alive(c) == proc[c] = "alive"
isTerminal(c) == command[c].st \in {"exited", "terminated"}

\* The worker session of the goal, while the goal is active.
resolveApprovedCommand(w) == goal.st = "active" /\ w = goal.worker

\* The current worker, or the owner as long as the goal exists.
resolveServerControl(w, n) == goal.st # "gone" /\ w \in {goal.worker, Owner} /\ record[n].worker # 0
-----------------------------------------------------------------------------
(* What becomes of the goal meanwhile: turns, pauses, rotations, clearing.  *)
GoalMoves ==
    /\ Verb
    /\ \/ goal.st = "active" /\ goal.gen < MaxRuns /\ goal' = [goal EXCEPT !.gen = @ + 1]
       \/ goal.st = "active" /\ goal' = [goal EXCEPT !.st = "stopped"]
       \/ goal.st = "stopped" /\ goal' = [goal EXCEPT !.st = "active"]
       \/ goal.st # "gone" /\ goal.worker < MaxRuns /\ goal' = [goal EXCEPT !.worker = @ + 1]
       \/ goal.st # "gone" /\ goal' = [goal EXCEPT !.st = "gone"]
    /\ UNCHANGED <<record, command, proc, live, thread, boot, lost>>
-----------------------------------------------------------------------------
(* startApprovedServer().                                                   *)
AskStart(t, w, n) ==
    /\ At(t, "rest") /\ resolveApprovedCommand(w) /\ Verb
    /\ thread' = [thread EXCEPT ![t] = [Idle(t) EXCEPT !.at = "reserve", !.name = n, !.worker = w]]
    /\ UNCHANGED <<stored, proc, live, boot, lost>>

\* Mutant: an unfinished start, or a server whose end is not proved, is overwritten.
ReservableUnlessRunning(n) == record[n].cmd # 0 => command[record[n].cmd].st # "running"

Reservable(n) == record[n].worker = 0 \/ (record[n].cmd # 0 /\ isTerminal(record[n].cmd))

Reserve(t) ==
    /\ At(t, "reserve")
    /\ LET n == thread[t].name IN
       \/ /\ resolveApprovedCommand(thread[t].worker) /\ Reservable(n)
          /\ record' = [record EXCEPT ![n] = [cmd |-> 0, worker |-> thread[t].worker, gen |-> goal.gen]]
          /\ Goto(t, "check")
       \/ Return(t) /\ UNCHANGED record \* also while a workspace operation is active
    /\ UNCHANGED <<goal, command, proc, live, boot, bound, lost>>

Duplicate(w, n) == \E c \in Commands : command[c] = [st |-> "running", worker |-> w, name |-> n]

CheckDuplicate(t) ==
    /\ At(t, "check")
    /\ Goto(t, IF Duplicate(thread[t].worker, thread[t].name) THEN "release" ELSE "spawn")
    /\ UNCHANGED <<stored, proc, live, boot, bound, lost>>

Spawn(t) ==
    /\ At(t, "spawn")
    /\ \/ \E c \in Commands :
             /\ proc[c] = "none" /\ \A d \in 1 .. c - 1 : proc[d] # "none"
             /\ proc' = [proc EXCEPT ![c] = "alive"]
             /\ command' = [command EXCEPT ![c].worker = thread[t].worker, ![c].name = thread[t].name]
             /\ thread' = [thread EXCEPT ![t].at = "record", ![t].cmd = c]
             /\ UNCHANGED bound
       \/ Fails("start") /\ Goto(t, "release") /\ UNCHANGED <<proc, command>>
    /\ UNCHANGED <<goal, record, live, boot, lost>>

RecordStart(t) ==
    /\ At(t, "record")
    /\ LET c == thread[t].cmd IN
       \/ /\ command' = [command EXCEPT ![c].st = "running"]
          /\ Goto(t, "release-callbacks") /\ UNCHANGED <<proc, bound>>
       \/ /\ Fails("start")
          /\ proc' = [proc EXCEPT ![c] = "dead"]
          /\ Goto(t, "release") /\ UNCHANGED command
    /\ UNCHANGED <<goal, record, live, boot, lost>>

ReleaseCallbacks(t) ==
    /\ At(t, "release-callbacks")
    /\ live' = live \cup {thread[t].cmd}
    /\ Goto(t, "link")
    /\ UNCHANGED <<stored, proc, boot, bound, lost>>

\* The process exists: without a reservation to link, the caller is told to recover.
Link(t) ==
    /\ At(t, "link")
    /\ LET n == thread[t].name IN
       record' = [record EXCEPT ![n].cmd = IF Reserved(n) THEN thread[t].cmd ELSE @]
    /\ Return(t)
    /\ UNCHANGED <<goal, command, proc, live, boot, bound, lost>>

Release(t) ==
    /\ At(t, "release")
    /\ LET n == thread[t].name IN
       record' = [record EXCEPT ![n] = IF Reserved(n) THEN NoRecord ELSE @]
    /\ Return(t)
    /\ UNCHANGED <<goal, command, proc, live, boot, bound, lost>>
-----------------------------------------------------------------------------
(* The processes end by themselves or by other tools; the plugin records it. *)
Exit(c) ==
    /\ Alive(c) /\ proc' = [proc EXCEPT ![c] = "dead"]
    /\ UNCHANGED <<stored, live, thread, boot, bound, lost>>

persistExit(c) ==
    /\ c \in live /\ proc[c] = "dead"
    /\ live' = live \ {c}
    /\ command' = [command EXCEPT ![c].st = IF @ = "running" THEN "exited" ELSE @]
    /\ UNCHANGED <<goal, record, proc, thread, boot, bound, lost>>

\* A lost process may be removed too, once it is dead or not recognised.
RemoveCommand(c) ==
    /\ isTerminal(c) \/ command[c].st = "missing"
    /\ Fails("remove")
    /\ command' = [command EXCEPT ![c].st = "gone"]
    /\ UNCHANGED <<goal, record, proc, live, thread, boot, lost>>

(* terminate(): the handle's process, or one adopted by its pid, is killed, *)
(* and an end that was not heard of is recorded.  A process whose pid no    *)
(* longer looks like what was started is recorded as ended all the same.    *)
Terminate(t) ==
    /\ At(t, "terminate")
    /\ LET c == thread[t].cmd
           running == command[c].st = "running"
       IN
       /\ \/ /\ proc' = [proc EXCEPT ![c] = IF running \/ command[c].st \in {"missing", "terminated"} THEN "dead" ELSE @]
             /\ UNCHANGED lost
          \/ /\ Alive(c) /\ c \notin live
             /\ lost' = IF running THEN lost \cup {command[c].name} ELSE lost
             /\ UNCHANGED proc
       /\ live' = IF running THEN live \ {c} ELSE live
       /\ IF running THEN Goto(t, "finalize")
          ELSE IF t \in Callers THEN Return(t) ELSE Goto(t, "proof")
    /\ UNCHANGED <<stored, boot, bound>>

Finalize(t) ==
    /\ At(t, "finalize")
    /\ LET c == thread[t].cmd IN
       command' = [command EXCEPT ![c].st = IF @ = "running" THEN "terminated" ELSE @]
    /\ Goto(t, "proof")
    /\ UNCHANGED <<goal, record, proc, live, boot, bound, lost>>
-----------------------------------------------------------------------------
(* stopApprovedServer(): terminate, look for the proof, drop that link.     *)
AskStop(t, w, n) ==
    /\ At(t, "rest") /\ resolveServerControl(w, n) /\ record[n].cmd # 0 /\ Verb
    /\ LET c == record[n].cmd IN
       /\ command[c].st # "gone"
       /\ thread' = [thread EXCEPT ![t] = [Idle(t) EXCEPT !.at = IF command[c].st = "running" THEN "terminate" ELSE "proof",
                                                          !.name = n, !.worker = w, !.cmd = c]]
    /\ UNCHANGED <<stored, proc, live, boot, lost>>

LookForProof(t) ==
    /\ At(t, "proof")
    /\ IF isTerminal(thread[t].cmd) THEN Goto(t, "drop")
       ELSE IF t \in Ticks THEN Goto(t, "clean") ELSE Return(t)
    /\ UNCHANGED <<stored, proc, live, boot, bound, lost>>

DropLink(t) ==
    /\ t \in Callers /\ At(t, "drop")
    /\ record' = [n \in Names |-> IF record[n].cmd = thread[t].cmd THEN NoRecord ELSE record[n]]
    /\ Return(t)
    /\ UNCHANGED <<goal, command, proc, live, boot, bound, lost>>
-----------------------------------------------------------------------------
(* The tick: reconcileApprovedServers() finds goals whose records belong to *)
(* another run, cleanupApprovedServers() goes through all of their records  *)
(* as it read them.                                                         *)
Stale(n) ==
    /\ record[n].worker # 0
    /\ goal.st # "active" \/ goal.worker # record[n].worker \/ goal.gen # record[n].gen

\* Mutant: records of an earlier turn of the same worker are left alone.
ReconcileRotated(t) ==
    /\ t \in Ticks /\ At(t, "rest")
    /\ \E n \in Names : Stale(n) /\ (goal.st # "active" \/ goal.worker # record[n].worker)
    /\ Goto(t, "snapshot")
    /\ UNCHANGED <<stored, proc, live, boot, bound, lost>>

ReconcileServers(t) ==
    /\ t \in Ticks /\ At(t, "rest")
    /\ \/ (\E n \in Names : Stale(n)) /\ Goto(t, "snapshot")
       \/ (\A n \in Names : ~Stale(n)) /\ t = Boot /\ Return(t)
    /\ UNCHANGED <<stored, proc, live, boot, bound, lost>>

Snapshot(t) ==
    /\ At(t, "snapshot")
    /\ thread' = [thread EXCEPT ![t].at = "clean",
                      ![t].todo = {[name |-> n, cmd |-> record[n].cmd, st |-> command[record[n].cmd].st] : n \in {m \in Names : record[m].cmd # 0}}]
    /\ UNCHANGED <<stored, proc, live, boot, bound, lost>>

CleanNext(t) ==
    /\ At(t, "clean")
    /\ \/ \E r \in thread[t].todo :
             thread' = [thread EXCEPT ![t].at = IF r.st = "running" THEN "terminate" ELSE "proof",
                                      ![t].name = r.name, ![t].cmd = r.cmd, ![t].todo = @ \ {r}]
       \/ thread[t].todo = {} /\ Return(t)
    /\ UNCHANGED <<stored, proc, live, boot, bound, lost>>

\* The record of that name goes, whatever it has become since it was read.
DropName(t) ==
    /\ t \in Ticks /\ At(t, "drop")
    /\ LET n == thread[t].name IN
       /\ record' = [record EXCEPT ![n] = NoRecord]
       /\ lost' = IF record[n] # NoRecord /\ record[n].cmd # thread[t].cmd THEN lost \cup {n} ELSE lost
    /\ Goto(t, "clean")
    /\ UNCHANGED <<goal, command, proc, live, boot, bound>>
-----------------------------------------------------------------------------
(* The plugin's process dies and another starts: calls, ticks and handles   *)
(* are gone, and so are those children that do not survive it.              *)
Crash ==
    /\ Fails("crash")
    /\ \E survivors \in SUBSET Commands :
          proc' = [c \in Commands |-> IF Alive(c) /\ c \notin survivors THEN "dead" ELSE proc[c]]
    /\ live' = {}
    /\ thread' = [t \in Threads |-> [Idle(t) EXCEPT !.at = "rest"]]
    /\ boot' = {c \in Commands : command[c].st = "running"}
    /\ UNCHANGED <<stored, lost>>

ReconcileCommand(c) ==
    /\ c \in boot /\ boot' = boot \ {c}
    /\ command' = [command EXCEPT ![c].st = IF @ = "running" /\ c \notin live THEN "missing" ELSE @]
    /\ UNCHANGED <<goal, record, proc, live, thread, bound, lost>>
-----------------------------------------------------------------------------
CallStep(t) ==
    \/ Reserve(t) \/ CheckDuplicate(t) \/ Spawn(t) \/ RecordStart(t) \/ ReleaseCallbacks(t) \/ Link(t) \/ Release(t)
    \/ Terminate(t) \/ Finalize(t) \/ LookForProof(t) \/ DropLink(t)
    \/ ReconcileServers(t) \/ Snapshot(t) \/ CleanNext(t) \/ DropName(t)

Next ==
    \/ GoalMoves
    \/ \E t \in Callers, w \in {Owner} \cup Runs, n \in Names : AskStart(t, w, n) \/ AskStop(t, w, n)
    \/ \E t \in Threads : CallStep(t)
    \/ \E c \in Commands : Exit(c) \/ persistExit(c) \/ RemoveCommand(c) \/ ReconcileCommand(c)
    \/ Crash

Spec == Init /\ [][Next]_vars

(* Fairness: the event loop runs what is due; the timer keeps ticking.      *)
FairSpec ==
    /\ Spec
    /\ \A t \in Threads : WF_vars(CallStep(t))
    /\ \A c \in Commands : WF_vars(persistExit(c)) /\ WF_vars(ReconcileCommand(c))
-----------------------------------------------------------------------------
Statuses == {"none", "running", "exited", "terminated", "missing", "gone"}
Starting == {"check", "spawn", "record", "release-callbacks", "link", "release"}
Ending == {"terminate", "finalize", "proof", "drop"}
ThreadRecords ==
    [at : {"off", "rest", "reserve", "snapshot", "clean"} \cup Starting \cup Ending,
     name : Names, worker : Runs \cup {0}, cmd : Commands \cup {0},
     todo : SUBSET [name : Names, cmd : Commands, st : Statuses]]

(* Every variable has its type.                                             *)
TypeOK ==
    /\ goal \in [st : {"active", "stopped", "gone"}, worker : Runs, gen : Runs]
    /\ record \in [Names -> [cmd : Commands \cup {0}, worker : Runs \cup {0}, gen : Runs \cup {0}]]
    /\ command \in [Commands -> [st : Statuses, worker : Runs \cup {0}, name : Names]]
    /\ proc \in [Commands -> {"none", "alive", "dead"}] /\ live \subseteq Commands
    /\ thread \in [Threads -> ThreadRecords]
    /\ boot \subseteq Commands /\ lost \subseteq Names
    /\ bound \in [verbs : 0 .. MaxVerbs, faults : 0 .. MaxFaults]

(* A server that lives is fenced: its name has a record, the link to it or  *)
(* the reservation of its start, so that no second one of that name is ever *)
(* beside it, in whatever order starts, stops, exits, turns, cleanups and a *)
(* restart of the plugin happen.  Names are excepted whose record a cleanup *)
(* dropped for another server, or a termination recorded without a signal.  *)
ServersFenced ==
    /\ \A c \in Commands : Alive(c) /\ command[c].name \notin lost => record[command[c].name].worker # 0 /\ record[command[c].name].cmd \in {0, c}
    /\ \A c, d \in Commands : Alive(c) /\ Alive(d) /\ command[c].name = command[d].name => c = d \/ command[c].name \in lost

(* A server of a run that is over, because its goal stopped, was cleared,   *)
(* got another worker or went on to another turn, is ended and released,    *)
(* unless its process was lost by a restart or its command was removed.     *)
StaleServersEnd ==
    \A n \in Names :
        Stale(n) /\ record[n].cmd # 0
            ~> ~Stale(n) \/ (record[n].cmd # 0 /\ command[record[n].cmd].st \in {"missing", "gone"})

(* cleanupApprovedServers: "drop each linkage only after a proved exit."    *)
OnlyProvedReleased == lost = {}
=============================================================================
