---------------------------- MODULE ControlMailbox ----------------------------
(***************************************************************************)
(* The control mailbox: how the terminal client's requests reach a plugin   *)
(* process and its answers come back, through three directories of files.   *)
(*                                                                          *)
(*   infrastructure/control-client.ts    the client: write, poll, time out  *)
(*   infrastructure/state-repository.ts  the files: rename, write, remove   *)
(*   application/control-worker.ts       the server: poll, claim, handle    *)
(*                                                                          *)
(* Several plugin processes may serve one directory.  Each has two pollers, *)
(* because start() polls at once beside the timer it sets, and handles what *)
(* it claimed without waiting for it.  A process may be disposed of (its    *)
(* timers stop, what it has claimed goes on) or die; another one starts in  *)
(* its place.                                                               *)
(*                                                                          *)
(* Abstractions.  Requests are numbered in the order of requestedAt.  What  *)
(* a request does is one step: an effect on its goal, nothing at all, a     *)
(* refusal or an exception; GoalTurn is about the effects and about the     *)
(* chain of withGoalOperation that serialises them.  The text a client is   *)
(* shown when it gives up is left out, and so is the reconciliation of      *)
(* approved servers before each poll.  The ledger is not truncated: its     *)
(* hundred entries are more than the requests here.                         *)
(***************************************************************************)
EXTENDS Naturals

CONSTANTS
    NumRequests, \* bound: the requests the clients make
    Servers,     \* the plugin processes
    Resident,    \* those that are started again whenever they end
    GoalOf,      \* GoalOf[r]: the goal request r is about
    Wedged,      \* the goals whose operations never return
    Unchecked,   \* the requests answered "ok" whatever their operation returned:
                 \* pause, clear, force_complete and force_block
    Faults,      \* "unwritable", "lockDeadline", "crash", "dispose"
    MaxFaults    \* bound: how many of them happen

Requests == 1 .. NumRequests

ASSUME NumRequestsAssumption == NumRequests \in Nat
ASSUME ResidentAssumption == Resident \subseteq Servers
ASSUME UncheckedAssumption == Unchecked \subseteq Requests
ASSUME MaxFaultsAssumption == MaxFaults \in Nat

VARIABLES
    client,   \* the client of each request
    files,    \* the three directories: requests, processing, responses
    ledger,   \* state.commandLedger
    server,   \* started or not, lastProcessDone and the set `processing`
    poll,     \* the pollers of each process
    handler,  \* handler[s][r]: runClaimed of request r in process s
    effects,  \* history: how often each request took effect
    idled,    \* history: the requests whose operation returned without one
    faults    \* bound: the faults that happened

vars == <<client, files, ledger, server, poll, handler, effects, idled, faults>>

Pollers == {"start", "timer"}
Results == {"ok", "failed"}   \* ok: true and ok: false

NoHandler == [at |-> "none", result |-> "none"]
AtRest == [at |-> "rest", todo |-> {}]
Down == [life |-> "down", free |-> TRUE, busy |-> {}]
Running(s) == server[s].life = "running"

Init ==
    /\ client = [r \in Requests |-> [sent |-> FALSE, told |-> "none"]]
    /\ files = [requests |-> {}, processing |-> {}, responses |-> [r \in Requests |-> "none"]]
    /\ ledger = {}
    /\ server = [s \in Servers |-> Down]
    /\ poll = [s \in Servers |-> [p \in Pollers |-> AtRest]]
    /\ handler = [s \in Servers |-> [r \in Requests |-> NoHandler]]
    /\ effects = [r \in Requests |-> 0]
    /\ idled = {}
    /\ faults = 0

Fault(f) == f \in Faults /\ faults < MaxFaults /\ faults' = faults + 1
-----------------------------------------------------------------------------
(* control-client.ts: executeRaw.  A client that times out withdraws        *)
(* nothing: its write lands, its request is served, it reads no answer.     *)

WriteRequest(r) ==
    /\ ~client[r].sent
    /\ client' = [client EXCEPT ![r].sent = TRUE]
    /\ files' = [files EXCEPT !.requests = @ \cup {r}]
    /\ UNCHANGED <<ledger, server, poll, handler, effects, idled, faults>>

ReadResponse(r) ==
    /\ client[r].sent /\ client[r].told = "none"
    /\ files.responses[r] # "none"
    /\ client' = [client EXCEPT ![r].told = files.responses[r]]
    /\ UNCHANGED <<files, ledger, server, poll, handler, effects, idled, faults>>
-----------------------------------------------------------------------------
(* control-worker.ts: start, the timer, processPending *)

\* listPendingRequests, the first await of a poll that matters.  A poll that
\* lists nothing ends at once.
Listed ==
    IF files.requests = {} THEN AtRest ELSE [at |-> "loop", todo |-> files.requests]

\* start() runs once in the life of a process, and polls at once.
Start(s) ==
    /\ server[s].life = "down"
    /\ server' = [server EXCEPT ![s].life = "running"]
    /\ poll' = [poll EXCEPT ![s]["start"] = Listed]
    /\ UNCHANGED <<client, files, ledger, handler, effects, idled, faults>>

\* The timer polls when its last poll has ended; polls that list nothing are
\* left out.
Tick(s) ==
    /\ Running(s) /\ server[s].free
    /\ files.requests # {}
    /\ server' = [server EXCEPT ![s].free = FALSE]
    /\ poll' = [poll EXCEPT ![s]["timer"] = Listed]
    /\ UNCHANGED <<client, files, ledger, handler, effects, idled, faults>>

\* The oldest of the requests the poller listed and has not looked at.
NextListed(s, p, r) ==
    /\ poll[s][p].at = "loop"
    /\ r \in poll[s][p].todo
    /\ \A q \in poll[s][p].todo : r <= q

\* Somebody else has claimed it: its file is gone, or this process handles it.
SkipRequest(s, p, r) ==
    /\ NextListed(s, p, r)
    /\ r \in server[s].busy \/ r \notin files.requests
    /\ poll' = [poll EXCEPT ![s][p].todo = @ \ {r}]
    /\ UNCHANGED <<client, files, ledger, server, handler, effects, idled, faults>>

\* Mutant: the request is copied to processing and its file stays.
ClaimCopy(s, p, r) ==
    /\ NextListed(s, p, r)
    /\ r \notin server[s].busy /\ r \in files.requests
    /\ files' = [files EXCEPT !.processing = @ \cup {r}]
    /\ server' = [server EXCEPT ![s].busy = @ \cup {r}]
    /\ poll' = [poll EXCEPT ![s][p].todo = @ \ {r}]
    /\ handler' = [handler EXCEPT ![s][r].at = "lookup"]
    /\ UNCHANGED <<client, ledger, effects, idled, faults>>

\* claimControlRequest renames the file; runClaimed starts and is not awaited.
ClaimRequest(s, p, r) ==
    /\ NextListed(s, p, r)
    /\ r \notin server[s].busy /\ r \in files.requests
    /\ files' = [files EXCEPT !.requests = @ \ {r}, !.processing = @ \cup {r}]
    /\ server' = [server EXCEPT ![s].busy = @ \cup {r}]
    /\ poll' = [poll EXCEPT ![s][p].todo = @ \ {r}]
    /\ handler' = [handler EXCEPT ![s][r].at = "lookup"]
    /\ UNCHANGED <<client, ledger, effects, idled, faults>>

\* Mutant: the poller waits for the handlers it started.
PollAwaiting(s, p) ==
    /\ poll[s][p] = [at |-> "loop", todo |-> {}]
    /\ server[s].busy = {}
    /\ poll' = [poll EXCEPT ![s][p] = AtRest]
    /\ server' = IF p = "timer" THEN [server EXCEPT ![s].free = TRUE] ELSE server
    /\ UNCHANGED <<client, files, ledger, handler, effects, idled, faults>>

PollEnds(s, p) ==
    /\ poll[s][p] = [at |-> "loop", todo |-> {}]
    /\ poll' = [poll EXCEPT ![s][p] = AtRest]
    /\ server' = IF p = "timer" THEN [server EXCEPT ![s].free = TRUE] ELSE server
    /\ UNCHANGED <<client, files, ledger, handler, effects, idled, faults>>

PollStep(s) ==
    \E p \in Pollers :
        \/ PollEnds(s, p)
        \/ \E r \in Requests : SkipRequest(s, p, r) \/ ClaimRequest(s, p, r)
-----------------------------------------------------------------------------
(* control-worker.ts: handleRequest, recordInLedger, runClaimed *)

Handling(s, r, at) == handler[s][r].at = at
HandlerGoes(s, r, at) == handler' = [handler EXCEPT ![s][r].at = at]
Resolve(s, r, at, result) ==
    handler' = [handler EXCEPT ![s][r] = [at |-> at, result |-> result]]

\* A response there already is given again.
LookupResponse(s, r) ==
    /\ Handling(s, r, "lookup")
    /\ IF files.responses[r] = "none" THEN HandlerGoes(s, r, "ledger")
       ELSE Resolve(s, r, "respond", files.responses[r])
    /\ UNCHANGED <<client, files, ledger, server, poll, effects, idled, faults>>

LookupLedger(s, r) ==
    /\ Handling(s, r, "ledger")
    /\ IF r \in ledger THEN Resolve(s, r, "respond", "ok") ELSE HandlerGoes(s, r, "run")
    /\ UNCHANGED <<client, files, ledger, server, poll, effects, idled, faults>>

\* The operation has its effect, finds nothing to do, is refused, or throws; a
\* wedged one does not return.
Execute(s, r) ==
    /\ Handling(s, r, "run")
    /\ GoalOf[r] \notin Wedged
    /\ Resolve(s, r, "record", "ok")
    /\ effects' = [effects EXCEPT ![r] = @ + 1]
    /\ UNCHANGED <<client, files, ledger, server, poll, idled, faults>>

\* pauseUnlocked returns silently when the goal is gone or may not pause, clear
\* filters a goal that is not there, force_* finds the goal as it should be:
\* the handler answers "ok" all the same.
FindNothingToDo(s, r) ==
    /\ Handling(s, r, "run")
    /\ GoalOf[r] \notin Wedged
    /\ r \in Unchecked
    /\ Resolve(s, r, "record", "ok")
    /\ idled' = idled \cup {r}
    /\ UNCHANGED <<client, files, ledger, server, poll, effects, faults>>

\* Mutant: what was refused is reported as done.
RefuseQuietly(s, r) ==
    /\ Handling(s, r, "run")
    /\ GoalOf[r] \notin Wedged
    /\ Resolve(s, r, "record", "ok")
    /\ UNCHANGED <<client, files, ledger, server, poll, effects, idled, faults>>

Refuse(s, r) ==
    /\ Handling(s, r, "run")
    /\ GoalOf[r] \notin Wedged
    /\ Resolve(s, r, "record", "failed")
    /\ UNCHANGED <<client, files, ledger, server, poll, effects, idled, faults>>

Throw(s, r) ==
    /\ Handling(s, r, "run")
    /\ GoalOf[r] \notin Wedged
    /\ Resolve(s, r, "report", "failed")
    /\ UNCHANGED <<client, files, ledger, server, poll, effects, idled, faults>>

\* recordInLedger; the transaction may fail on the lock's deadline.
RecordInLedger(s, r) ==
    /\ Handling(s, r, "record")
    /\ \/ /\ ledger' = ledger \cup {r}
          /\ HandlerGoes(s, r, "respond")
          /\ UNCHANGED faults
       \/ /\ Fault("lockDeadline")
          /\ Resolve(s, r, "report", "failed")
          /\ UNCHANGED ledger
    /\ UNCHANGED <<client, files, server, poll, effects, idled>>

\* runClaimed ends: the process forgets the request.
Forget(s, r) ==
    /\ handler' = [handler EXCEPT ![s][r] = NoHandler]
    /\ server' = [server EXCEPT ![s].busy = @ \ {r}]

\* writeControlResponse replaces the response file; if that fails the handler
\* reports an internal error instead, and gives up when it cannot write that.
WriteResponse(s, r) ==
    /\ \/ Handling(s, r, "respond")
       \/ Handling(s, r, "report")
    /\ \/ /\ files' = [files EXCEPT !.responses[r] = handler[s][r].result]
          /\ HandlerGoes(s, r, "clean")
          /\ UNCHANGED <<server, faults>>
       \/ /\ Fault("unwritable")
          /\ IF Handling(s, r, "respond")
                THEN Resolve(s, r, "report", "failed") /\ UNCHANGED server
                ELSE Forget(s, r)
          /\ UNCHANGED files
    /\ UNCHANGED <<client, ledger, poll, effects, idled>>

\* ... and removes the processing file.
RemoveMarker(s, r) ==
    /\ Handling(s, r, "clean")
    /\ files' = [files EXCEPT !.processing = @ \ {r}]
    /\ Forget(s, r)
    /\ UNCHANGED <<client, ledger, poll, effects, idled, faults>>

HandlerStep(s, r) ==
    \/ LookupResponse(s, r) \/ LookupLedger(s, r)
    \/ Execute(s, r) \/ FindNothingToDo(s, r) \/ Refuse(s, r) \/ Throw(s, r)
    \/ RecordInLedger(s, r)
    \/ WriteResponse(s, r) \/ RemoveMarker(s, r)
-----------------------------------------------------------------------------
(* The plugin process *)

\* stop(): the timer ends and the set is cleared; pollers and handlers go on.
Stop(s) ==
    /\ Running(s)
    /\ Fault("dispose")
    /\ server' = [server EXCEPT ![s].life = "stopped", ![s].busy = {}]
    /\ UNCHANGED <<client, files, ledger, poll, handler, effects, idled>>

\* The process is gone with everything it held in memory.
Exits(s) ==
    /\ server' = [server EXCEPT ![s] = Down]
    /\ poll' = [poll EXCEPT ![s] = [p \in Pollers |-> AtRest]]
    /\ handler' = [handler EXCEPT ![s] = [r \in Requests |-> NoHandler]]

Crash(s) ==
    /\ Running(s)
    /\ Fault("crash")
    /\ Exits(s)
    /\ UNCHANGED <<client, files, ledger, effects, idled>>

\* A process that was disposed of ends some time later.
Exit(s) ==
    /\ server[s].life = "stopped"
    /\ Exits(s)
    /\ UNCHANGED <<client, files, ledger, effects, idled, faults>>
-----------------------------------------------------------------------------
Next ==
    \/ \E r \in Requests :
          WriteRequest(r) \/ ReadResponse(r)
    \/ \E s \in Servers :
          \/ Start(s) \/ Tick(s) \/ PollStep(s)
          \/ \E r \in Requests : HandlerStep(s, r)
          \/ Stop(s) \/ Crash(s) \/ Exit(s)

Spec == Init /\ [][Next]_vars

\* A write under way lands, a resident process is started again, and a process
\* goes on while it can: its timer and pollers, or its end when it was disposed
\* of, and its handlers.
Fairness ==
    /\ \A r \in Requests : WF_vars(WriteRequest(r))
    /\ \A s \in Resident : WF_vars(Start(s))
    /\ \A s \in Servers :
          /\ WF_vars(Tick(s) \/ PollStep(s) \/ Exit(s))
          /\ WF_vars(\E r \in Requests : HandlerStep(s, r))

FairSpec == Spec /\ Fairness
-----------------------------------------------------------------------------
(* Properties *)

HandlerLabels ==
    {"none", "lookup", "ledger", "run", "record", "respond", "report", "clean"}

ClientStates == [sent : BOOLEAN, told : Results \cup {"none"}]
Directories ==
    [requests : SUBSET Requests, processing : SUBSET Requests,
     responses : [Requests -> Results \cup {"none"}]]
ServerStates ==
    [life : {"down", "running", "stopped"}, free : BOOLEAN, busy : SUBSET Requests]
PollStates == [at : {"rest", "loop"}, todo : SUBSET Requests]
HandlerStates == [at : HandlerLabels, result : Results \cup {"none"}]

\* Every variable keeps its type: requests are files in three directories,
\* handlers and pollers stand at a label of the code.
TypeOK ==
    /\ client \in [Requests -> ClientStates]
    /\ files \in Directories
    /\ ledger \subseteq Requests
    /\ server \in [Servers -> ServerStates]
    /\ poll \in [Servers -> [Pollers -> PollStates]]
    /\ handler \in [Servers -> [Requests -> HandlerStates]]
    /\ effects \in [Requests -> Nat]
    /\ idled \subseteq Requests
    /\ faults \in Nat

\* "Claim atomicity prevents duplicate pickup": a request takes effect at most
\* once, whatever processes and pollers listed it and whichever of them stopped.
AtMostOnce == \A r \in Requests : effects[r] <= 1

\* A client is told "ok" only of a request that was served: not of one that was
\* refused or threw, though the ledger records those that were refused too and
\* answers "ok" for whatever it holds, nor of one nobody ran.  Served means
\* that it took effect, except for the unchecked requests, whose handler says
\* "ok" when there was nothing to do.
AnswersAreTrue ==
    \A r \in Requests :
        client[r].told = "ok" => effects[r] = 1 \/ r \in Unchecked \cap idled

\* What the answers of the unchecked requests say, 'goal "..." paused': that the
\* request did something.
OkMeansDone == \A r \in Requests : client[r].told = "ok" => effects[r] = 1

\* A request whose marker is there and which nobody handles.
Orphaned(r) ==
    /\ r \in files.processing /\ r \notin files.requests
    /\ \A s \in Servers : Handling(s, r, "none")

\* "One hung handler must not block unrelated queued controls": a request is
\* answered, late or not, unless the process that claimed it dies or can
\* write no response.  Only requests about a wedged goal may wait for ever.
EveryRequestAnswered ==
    \A r \in Requests :
        GoalOf[r] \notin Wedged => <>(files.responses[r] # "none" \/ Orphaned(r))

\* "recoverStaleProcessing re-queues the request on the next startup."
OrphansRecovered == \A r \in Requests : Orphaned(r) ~> ~Orphaned(r)
=============================================================================
