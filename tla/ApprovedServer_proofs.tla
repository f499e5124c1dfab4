------------------------ MODULE ApprovedServer_proofs ------------------------
(***************************************************************************)
(* Theorems about managed servers, for any names, calls, processes, runs    *)
(* and faults.                                                              *)
(*                                                                         *)
(* ServersFenced compares processes with records; between the two stand the *)
(* calls.  ServerInv follows a start from its reservation to its link, and  *)
(* an end from the read of a link to its release: who starts holds the name *)
(* alone, and who releases has seen the end of what the record names.       *)
(***************************************************************************)
EXTENDS ApprovedServer, TLAPS

LEMMA CommandNames == 0 \notin Commands /\ \A c \in Commands : c \in Nat
BY BoundsAssumption DEF Commands

LEMMA RunNames == 0 \notin Runs /\ 1 \in Runs
BY BoundsAssumption DEF Runs

LEMMA ThreadNames == Boot \in Threads /\ Timer \in Threads /\ Callers \subseteq Threads /\ Ticks \subseteq Threads
BY DEF Threads, Ticks

LEMMA SomeName == (CHOOSE n \in Names : TRUE) \in Names
BY NamesAssumption

\* A thread at rest, whether its plugin has begun or not.
LEMMA IdleTyped ==
    ASSUME NEW t \in Threads
    PROVE  /\ Idle(t) \in ThreadRecords /\ [Idle(t) EXCEPT !.at = "rest"] \in ThreadRecords
           /\ Idle(t).at \in {"off", "rest"} /\ [Idle(t) EXCEPT !.at = "rest"].at = "rest"
           /\ Idle(t).todo = {} /\ [Idle(t) EXCEPT !.at = "rest"].todo = {}
<1>1. (IF t = Boot THEN "off" ELSE "rest") \in {"off", "rest"}
  OBVIOUS
<1> QED
  BY <1>1, SomeName DEF Idle, ThreadRecords

LEMMA RecordFields ==
    ASSUME NEW r \in ThreadRecords
    PROVE  /\ r.name \in Names /\ r.worker \in Runs \cup {0} /\ r.cmd \in Commands \cup {0}
           /\ \A x \in r.todo : x.name \in Names /\ x.cmd \in Commands /\ x.st \in Statuses
           /\ r.todo \in SUBSET [name : Names, cmd : Commands, st : Statuses]
BY DEF ThreadRecords

\* One thread goes on, with what it has.
Moves(t, l) ==
    /\ thread' \in [Threads -> ThreadRecords]
    /\ thread'[t].at = l
    /\ thread'[t].name = thread[t].name /\ thread'[t].worker = thread[t].worker
    /\ thread'[t].cmd = thread[t].cmd /\ thread'[t].todo = thread[t].todo
    /\ \A u \in Threads \ {t} : thread'[u] = thread[u]

\* One thread comes to rest.
Rests(t) ==
    /\ thread' \in [Threads -> ThreadRecords]
    /\ thread'[t].at \in {"off", "rest"} /\ thread'[t].todo = {}
    /\ \A u \in Threads \ {t} : thread'[u] = thread[u]

Places == {"off", "rest", "reserve", "snapshot", "clean"} \cup Starting \cup Ending

LEMMA GotoMoves ==
    ASSUME thread \in [Threads -> ThreadRecords], NEW t \in Threads, NEW l \in Places, Goto(t, l)
    PROVE  Moves(t, l)
<1> DEFINE r == [thread[t] EXCEPT !.at = l]
<1>1. thread[t] \in ThreadRecords
  OBVIOUS
<1>2. r \in ThreadRecords
  BY <1>1, Zenon DEF ThreadRecords, Places
<1>3. /\ r.at = l /\ r.name = thread[t].name /\ r.worker = thread[t].worker
      /\ r.cmd = thread[t].cmd /\ r.todo = thread[t].todo
  BY <1>1 DEF ThreadRecords
<1>4. thread' = [thread EXCEPT ![t] = r]
  BY Zenon DEF Goto
<1> HIDE DEF r
<1> QED
  BY <1>2, <1>3, <1>4 DEF Moves

LEMMA ReturnRests ==
    ASSUME thread \in [Threads -> ThreadRecords], NEW t \in Threads, Return(t)
    PROVE  Rests(t)
<1>1. thread' = [thread EXCEPT ![t] = Idle(t)]
  BY DEF Return
<1> QED
  BY <1>1, IdleTyped DEF Rests

LEMMA BoundTyped ==
    ASSUME bound \in [verbs : 0 .. MaxVerbs, faults : 0 .. MaxFaults]
    PROVE  /\ Verb => bound' \in [verbs : 0 .. MaxVerbs, faults : 0 .. MaxFaults]
           /\ \A what \in {"start", "crash", "remove"} : Fails(what) => bound' \in [verbs : 0 .. MaxVerbs, faults : 0 .. MaxFaults]
BY BoundsAssumption DEF Verb, Fails
-----------------------------------------------------------------------------
LEMMA InitType == Init => TypeOK
<1> SUFFICES ASSUME Init PROVE TypeOK
  OBVIOUS
<1>1. record \in [Names -> [cmd : Commands \cup {0}, worker : Runs \cup {0}, gen : Runs \cup {0}]]
  BY DEF Init, NoRecord
<1>2. command \in [Commands -> [st : Statuses, worker : Runs \cup {0}, name : Names]]
  BY SomeName DEF Init, Statuses
<1>3. thread \in [Threads -> ThreadRecords]
  BY IdleTyped DEF Init
<1>4. goal \in [st : {"active", "stopped", "gone"}, worker : Runs, gen : Runs]
  BY RunNames DEF Init
<1>5. bound \in [verbs : 0 .. MaxVerbs, faults : 0 .. MaxFaults]
  BY BoundsAssumption DEF Init
<1> QED
  BY <1>1, <1>2, <1>3, <1>4, <1>5 DEF Init, TypeOK
-----------------------------------------------------------------------------
(* What a step does, field by field.                                        *)
ServerRecords == [cmd : Commands \cup {0}, worker : Runs \cup {0}, gen : Runs \cup {0}]
CommandRecords == [st : Statuses, worker : Runs \cup {0}, name : Names]

Links(n, c, w) ==
    /\ record' \in [Names -> ServerRecords]
    /\ record'[n].cmd = c /\ record'[n].worker = w
    /\ \A m \in Names \ {n} : record'[m] = record[m]

Becomes(c, s) ==
    /\ command' \in [Commands -> CommandRecords]
    /\ command'[c].st = s /\ command'[c].name = command[c].name
    /\ \A d \in Commands \ {c} : command'[d] = command[d]

LEMMA SetLinks ==
    ASSUME record \in [Names -> ServerRecords], NEW n \in Names, NEW r \in ServerRecords,
           record' = [record EXCEPT ![n] = r]
    PROVE  Links(n, r.cmd, r.worker)
BY DEF Links

LEMMA NoRecordTyped == NoRecord \in ServerRecords /\ NoRecord.cmd = 0 /\ NoRecord.worker = 0
BY DEF NoRecord, ServerRecords

LEMMA SetBecomes ==
    ASSUME command \in [Commands -> CommandRecords], NEW c \in Commands, NEW s \in Statuses,
           command' = [command EXCEPT ![c].st = s]
    PROVE  Becomes(c, s)
<1> DEFINE r == [command[c] EXCEPT !.st = s]
<1>1. command[c] \in CommandRecords
  OBVIOUS
<1>2. r \in CommandRecords
  BY <1>1, Zenon DEF CommandRecords
<1>3. r.st = s /\ r.name = command[c].name
  BY <1>1 DEF CommandRecords
<1>4. command' = [command EXCEPT ![c] = r]
  BY Zenon
<1> HIDE DEF r
<1> QED
  BY <1>2, <1>3, <1>4 DEF Becomes

LEMMA Fields ==
    ASSUME TypeOK
    PROVE  /\ \A n \in Names : record[n] \in ServerRecords /\ record[n].cmd \in Commands \cup {0} /\ record[n].worker \in Runs \cup {0}
           /\ \A c \in Commands : command[c] \in CommandRecords /\ command[c].st \in Statuses /\ command[c].name \in Names
           /\ \A t \in Threads :
                 /\ thread[t] \in ThreadRecords
                 /\ thread[t].name \in Names /\ thread[t].worker \in Runs \cup {0} /\ thread[t].cmd \in Commands \cup {0}
                 /\ \A x \in thread[t].todo : x.name \in Names /\ x.cmd \in Commands /\ x.st \in Statuses
           /\ goal.worker \in Runs /\ goal.gen \in Runs
<1>1. record \in [Names -> ServerRecords] /\ command \in [Commands -> CommandRecords] /\ thread \in [Threads -> ThreadRecords]
  BY DEF TypeOK, ServerRecords, CommandRecords
<1>2. \A n \in Names : record[n] \in ServerRecords /\ record[n].cmd \in Commands \cup {0} /\ record[n].worker \in Runs \cup {0}
  BY <1>1 DEF ServerRecords
<1>3. \A c \in Commands : command[c] \in CommandRecords /\ command[c].st \in Statuses /\ command[c].name \in Names
  BY <1>1 DEF CommandRecords
<1>4. \A t \in Threads : thread[t] \in ThreadRecords
  BY <1>1
<1>5. goal.worker \in Runs /\ goal.gen \in Runs
  BY DEF TypeOK
<1> QED
  BY <1>2, <1>3, <1>4, <1>5, RecordFields

TypedRest ==
    /\ record \in [Names -> ServerRecords] /\ command \in [Commands -> CommandRecords]
    /\ thread \in [Threads -> ThreadRecords]
    /\ goal \in [st : {"active", "stopped", "gone"}, worker : Runs, gen : Runs]
    /\ proc \in [Commands -> {"none", "alive", "dead"}] /\ live \subseteq Commands
    /\ boot \subseteq Commands /\ lost \subseteq Names
    /\ bound \in [verbs : 0 .. MaxVerbs, faults : 0 .. MaxFaults]

LEMMA TypedParts == (TypeOK => TypedRest) /\ (TypedRest' => TypeOK')
BY DEF TypeOK, TypedRest, ServerRecords, CommandRecords
-----------------------------------------------------------------------------
(* Every step ends with what one of the two helpers says of its thread.     *)
LEMMA AskMoves ==
    ASSUME TypeOK, NEW t \in Callers, NEW n \in Names, NEW w \in {Owner} \cup Runs
    PROVE  /\ AskStart(t, w, n) =>
                 /\ thread' \in [Threads -> ThreadRecords] /\ thread'[t].at = "reserve" /\ thread'[t].todo = {}
                 /\ \A u \in Threads \ {t} : thread'[u] = thread[u]
           /\ AskStop(t, w, n) =>
                 /\ thread' \in [Threads -> ThreadRecords] /\ thread'[t].at \in {"terminate", "proof"} /\ thread'[t].todo = {}
                 /\ thread'[t].cmd = record[n].cmd
                 /\ \A u \in Threads \ {t} : thread'[u] = thread[u]
<1>0. t \in Threads /\ thread \in [Threads -> ThreadRecords] /\ w \in Runs \cup {0}
  BY ThreadNames DEF TypeOK, Owner
<1>1. Idle(t) \in ThreadRecords /\ Idle(t).todo = {}
  BY <1>0, IdleTyped
<1>2. ASSUME AskStart(t, w, n)
      PROVE  /\ thread' \in [Threads -> ThreadRecords] /\ thread'[t].at = "reserve" /\ thread'[t].todo = {}
             /\ \A u \in Threads \ {t} : thread'[u] = thread[u]
  <2> DEFINE r == [Idle(t) EXCEPT !.at = "reserve", !.name = n, !.worker = w]
  <2>1. r \in ThreadRecords
    BY <1>0, <1>1, Zenon DEF ThreadRecords
  <2>2. r.at = "reserve" /\ r.todo = {}
    BY <1>1 DEF ThreadRecords
  <2>3. thread' = [thread EXCEPT ![t] = r]
    BY <1>2 DEF AskStart
  <2> HIDE DEF r
  <2> QED
    BY <1>0, <2>1, <2>2, <2>3
<1>3. ASSUME AskStop(t, w, n)
      PROVE  /\ thread' \in [Threads -> ThreadRecords] /\ thread'[t].at \in {"terminate", "proof"} /\ thread'[t].todo = {}
             /\ thread'[t].cmd = record[n].cmd
             /\ \A u \in Threads \ {t} : thread'[u] = thread[u]
  <2>0. PICK l \in {"terminate", "proof"} :
          thread' = [thread EXCEPT ![t] = [Idle(t) EXCEPT !.at = l, !.name = n, !.worker = w, !.cmd = record[n].cmd]]
    <3>1. CASE command[record[n].cmd].st = "running"
      BY <1>3, <3>1 DEF AskStop
    <3>2. CASE command[record[n].cmd].st # "running"
      BY <1>3, <3>2 DEF AskStop
    <3> QED
      BY <3>1, <3>2
  <2>4. record[n].cmd \in Commands \cup {0}
    BY Fields
  <2> DEFINE r == [Idle(t) EXCEPT !.at = l, !.name = n, !.worker = w, !.cmd = record[n].cmd]
  <2>1. r \in ThreadRecords
    BY <1>0, <1>1, <2>4, Zenon DEF ThreadRecords, Ending
  <2>2. r.at = l /\ r.todo = {} /\ r.cmd = record[n].cmd
    BY <1>1 DEF ThreadRecords
  <2> HIDE DEF r
  <2>3. thread' = [thread EXCEPT ![t] = r]
    BY <2>0 DEF r
  <2> QED
    BY <1>0, <2>1, <2>2, <2>3
<1> QED
  BY <1>2, <1>3

\* Reserve and Release take and give back a name, Link gives it its process.
LEMMA ReserveEffect ==
    ASSUME TypeOK, NEW t \in Threads, Reserve(t)
    PROVE  \/ Rests(t) /\ UNCHANGED record
           \/ /\ Moves(t, "check") /\ Reservable(thread[t].name)
              /\ \E w \in Runs : Links(thread[t].name, 0, w)
<1> DEFINE n == thread[t].name
           r == [cmd |-> 0, worker |-> thread[t].worker, gen |-> goal.gen]
<1>0. thread \in [Threads -> ThreadRecords] /\ n \in Names /\ goal.worker \in Runs /\ goal.gen \in Runs /\ record \in [Names -> ServerRecords]
  BY Fields, TypedParts DEF TypedRest
<1>1. CASE Return(t) /\ UNCHANGED record
  BY <1>0, <1>1, ReturnRests
<1>2. CASE ~(Return(t) /\ UNCHANGED record)
  <2>1. resolveApprovedCommand(thread[t].worker) /\ Reservable(n) /\ record' = [record EXCEPT ![n] = r] /\ Goto(t, "check")
    BY <1>2 DEF Reserve
  <2>2. thread[t].worker \in Runs
    BY <1>0, <2>1 DEF resolveApprovedCommand
  <2>3. r \in ServerRecords /\ r.cmd = 0 /\ r.worker \in Runs
    BY <1>0, <2>2 DEF ServerRecords
  <2>4. Moves(t, "check")
    BY <1>0, <2>1, GotoMoves DEF Places, Starting
  <2> HIDE DEF r
  <2>5. Links(n, r.cmd, r.worker)
    BY <1>0, <2>1, <2>3, SetLinks
  <2> QED
    BY <2>1, <2>3, <2>4, <2>5
<1> QED
  BY <1>1, <1>2

LEMMA LinkEffect ==
    ASSUME TypeOK, NEW t \in Threads, Link(t)
    PROVE  /\ Rests(t)
           /\ \/ Reserved(thread[t].name) /\ Links(thread[t].name, thread[t].cmd, record[thread[t].name].worker)
              \/ ~Reserved(thread[t].name) /\ UNCHANGED record
<1> DEFINE n == thread[t].name
           r == [record[n] EXCEPT !.cmd = thread[t].cmd]
<1>0. thread \in [Threads -> ThreadRecords] /\ n \in Names /\ thread[t].cmd \in Commands \cup {0} /\ record \in [Names -> ServerRecords]
  BY Fields, TypedParts DEF TypedRest
<1>1. Rests(t)
  BY <1>0, ReturnRests DEF Link
<1>2. CASE Reserved(n)
  <2>1. record' = [record EXCEPT ![n] = r]
    <3>1. record' = [record EXCEPT ![n].cmd = thread[t].cmd]
      BY <1>2, Zenon DEF Link
    <3> QED
      BY <3>1, Zenon
  <2>2. record[n] \in ServerRecords
    BY <1>0
  <2>3. r \in ServerRecords
    BY <1>0, <2>2, Zenon DEF ServerRecords
  <2>4. r.cmd = thread[t].cmd /\ r.worker = record[n].worker
    BY <2>2 DEF ServerRecords
  <2> HIDE DEF r
  <2>5. Links(n, r.cmd, r.worker)
    BY <1>0, <2>1, <2>3, SetLinks
  <2> QED
    BY <1>1, <1>2, <2>4, <2>5
<1>3. CASE ~Reserved(n)
  <2>1. record' = [record EXCEPT ![n].cmd = record[n].cmd]
    BY <1>3, Zenon DEF Link
  <2>2. [record EXCEPT ![n].cmd = record[n].cmd] = [record EXCEPT ![n] = [record[n] EXCEPT !.cmd = record[n].cmd]]
    BY Zenon
  <2>3. record[n] \in ServerRecords
    BY <1>0
  <2>4. [record[n] EXCEPT !.cmd = record[n].cmd] = record[n]
    BY <2>3 DEF ServerRecords
  <2>5. record' = [record EXCEPT ![n] = record[n]]
    BY <2>1, <2>2, <2>4, Zenon
  <2>6. record' = record
    BY <1>0, <2>5
  <2> QED
    BY <1>1, <1>3, <2>6
<1> QED
  BY <1>2, <1>3

LEMMA ReleaseEffect ==
    ASSUME TypeOK, NEW t \in Threads, Release(t)
    PROVE  /\ Rests(t)
           /\ \/ Reserved(thread[t].name) /\ Links(thread[t].name, 0, 0)
              \/ ~Reserved(thread[t].name) /\ UNCHANGED record
<1>0. thread \in [Threads -> ThreadRecords] /\ thread[t].name \in Names /\ record \in [Names -> ServerRecords]
  BY Fields, TypedParts DEF TypedRest
<1>1. Rests(t)
  BY <1>0, ReturnRests DEF Release
<1>2. CASE Reserved(thread[t].name)
  <2>1. record' = [record EXCEPT ![thread[t].name] = NoRecord]
    BY <1>2 DEF Release
  <2>2. NoRecord \in ServerRecords /\ NoRecord.cmd = 0 /\ NoRecord.worker = 0
    BY NoRecordTyped
  <2>3. Links(thread[t].name, NoRecord.cmd, NoRecord.worker)
    BY <1>0, <2>1, <2>2, SetLinks
  <2> QED
    BY <1>1, <1>2, <2>2, <2>3
<1>3. CASE ~Reserved(thread[t].name)
  BY <1>0, <1>1, <1>3 DEF Release
<1> QED
  BY <1>2, <1>3

LEMMA SpawnEffect ==
    ASSUME TypeOK, NEW t \in Threads, Spawn(t)
    PROVE  \/ /\ \E c \in Commands :
                    /\ proc[c] = "none" /\ proc' \in [Commands -> {"none", "alive", "dead"}] /\ proc'[c] = "alive"
                    /\ \A d \in Commands \ {c} : proc'[d] = proc[d] /\ command'[d] = command[d]
                    /\ command' \in [Commands -> CommandRecords] /\ command'[c].st = command[c].st
                    /\ command'[c].name = thread[t].name
                    /\ thread' \in [Threads -> ThreadRecords] /\ thread'[t].at = "record" /\ thread'[t].cmd = c
                    /\ thread'[t].name = thread[t].name /\ thread'[t].todo = thread[t].todo
                    /\ \A u \in Threads \ {t} : thread'[u] = thread[u]
              /\ UNCHANGED bound
           \/ Fails("start") /\ Moves(t, "release") /\ UNCHANGED <<proc, command>>
<1>0. /\ thread \in [Threads -> ThreadRecords] /\ command \in [Commands -> CommandRecords] /\ thread[t] \in ThreadRecords
      /\ thread[t].name \in Names /\ thread[t].worker \in Runs \cup {0}
      /\ proc \in [Commands -> {"none", "alive", "dead"}]
  BY Fields, TypedParts DEF TypedRest
<1>1. CASE Fails("start") /\ Goto(t, "release") /\ UNCHANGED <<proc, command>>
  BY <1>0, <1>1, GotoMoves DEF Places, Starting
<1>2. CASE ~(Fails("start") /\ Goto(t, "release") /\ UNCHANGED <<proc, command>>)
  <2>1. PICK c \in Commands :
          /\ proc[c] = "none"
          /\ proc' = [proc EXCEPT ![c] = "alive"]
          /\ command' = [command EXCEPT ![c].worker = thread[t].worker, ![c].name = thread[t].name]
          /\ thread' = [thread EXCEPT ![t].at = "record", ![t].cmd = c]
          /\ UNCHANGED bound
    BY <1>2 DEF Spawn
  <2> DEFINE k == [command[c] EXCEPT !.worker = thread[t].worker, !.name = thread[t].name]
             r == [thread[t] EXCEPT !.at = "record", !.cmd = c]
  <2>2. command' = [command EXCEPT ![c] = k]
    BY <1>0, <2>1
  <2>3. thread' = [thread EXCEPT ![t] = r]
    BY <1>0, <2>1
  <2>4. command[c] \in CommandRecords
    BY <1>0
  <2>5. k \in CommandRecords
    BY <1>0, <2>4, Zenon DEF CommandRecords
  <2>6. k.st = command[c].st /\ k.name = thread[t].name
    BY <2>4 DEF CommandRecords
  <2>7. r \in ThreadRecords
    BY <1>0, Zenon DEF ThreadRecords, Starting
  <2>8. r.at = "record" /\ r.cmd = c /\ r.name = thread[t].name /\ r.todo = thread[t].todo
    BY <1>0 DEF ThreadRecords
  <2> HIDE DEF k, r
  <2>9. proc' \in [Commands -> {"none", "alive", "dead"}] /\ proc'[c] = "alive" /\ \A d \in Commands \ {c} : proc'[d] = proc[d]
    BY <1>0, <2>1
  <2>10. /\ command' \in [Commands -> CommandRecords] /\ command'[c].st = command[c].st /\ command'[c].name = thread[t].name
         /\ \A d \in Commands \ {c} : command'[d] = command[d]
    BY <1>0, <2>2, <2>5, <2>6
  <2>11. /\ thread' \in [Threads -> ThreadRecords] /\ thread'[t].at = "record" /\ thread'[t].cmd = c
         /\ thread'[t].name = thread[t].name /\ thread'[t].todo = thread[t].todo
         /\ \A u \in Threads \ {t} : thread'[u] = thread[u]
    BY <1>0, <2>3, <2>7, <2>8
  <2> QED
    BY <2>1, <2>9, <2>10, <2>11, Zenon
<1> QED
  BY <1>1, <1>2

LEMMA RecordStartEffect ==
    ASSUME TypeOK, NEW t \in Threads, RecordStart(t), thread[t].cmd # 0
    PROVE  \/ Becomes(thread[t].cmd, "running") /\ Moves(t, "release-callbacks") /\ UNCHANGED <<proc, bound>>
           \/ /\ Fails("start") /\ proc' = [proc EXCEPT ![thread[t].cmd] = "dead"]
              /\ Moves(t, "release") /\ UNCHANGED command
<1>0. thread \in [Threads -> ThreadRecords] /\ command \in [Commands -> CommandRecords] /\ thread[t].cmd \in Commands
  BY Fields, TypedParts DEF TypedRest
<1>1. CASE command' = [command EXCEPT ![thread[t].cmd].st = "running"] /\ Goto(t, "release-callbacks") /\ UNCHANGED <<proc, bound>>
  <2>1. Moves(t, "release-callbacks")
    BY <1>0, <1>1, GotoMoves DEF Places, Starting
  <2>2. Becomes(thread[t].cmd, "running")
    BY <1>0, <1>1, SetBecomes DEF Statuses
  <2> QED
    BY <1>1, <2>1, <2>2
<1>2. CASE Fails("start") /\ proc' = [proc EXCEPT ![thread[t].cmd] = "dead"] /\ Goto(t, "release") /\ UNCHANGED command
  <2>1. Moves(t, "release")
    BY <1>0, <1>2, GotoMoves DEF Places, Starting
  <2> QED
    BY <1>2, <2>1
<1> QED
  BY <1>1, <1>2 DEF RecordStart

LEMMA SetAgain ==
    ASSUME NEW c \in Commands, command \in [Commands -> CommandRecords],
           command' = [command EXCEPT ![c].st = command[c].st]
    PROVE  command' = command
<1>1. [command EXCEPT ![c].st = command[c].st] = [command EXCEPT ![c] = [command[c] EXCEPT !.st = command[c].st]]
  BY Zenon
<1>2. command[c] \in CommandRecords
  OBVIOUS
<1>3. [command[c] EXCEPT !.st = command[c].st] = command[c]
  BY <1>2 DEF CommandRecords
<1>4. command' = [command EXCEPT ![c] = command[c]]
  BY <1>1, <1>3, Zenon
<1> QED
  BY <1>4

\* The status a command has once its process is over, or lost.
LEMMA EndEffects ==
    ASSUME TypeOK, NEW c \in Commands
    PROVE  /\ persistExit(c) => Becomes(c, IF command[c].st = "running" THEN "exited" ELSE command[c].st)
           /\ RemoveCommand(c) => Becomes(c, "gone")
           /\ ReconcileCommand(c) => Becomes(c, "missing") \/ UNCHANGED command
           /\ \A t \in Threads : Finalize(t) /\ thread[t].cmd = c =>
                 Moves(t, "proof") /\ Becomes(c, IF command[c].st = "running" THEN "terminated" ELSE command[c].st)
<1>0. command \in [Commands -> CommandRecords] /\ command[c].st \in Statuses /\ thread \in [Threads -> ThreadRecords]
  BY Fields, TypedParts DEF TypedRest
<1>1. ASSUME persistExit(c) PROVE Becomes(c, IF command[c].st = "running" THEN "exited" ELSE command[c].st)
  <2>1. CASE command[c].st = "running"
    <3>1. command' = [command EXCEPT ![c].st = "exited"]
      BY <1>1, <2>1, Zenon DEF persistExit
    <3> QED
      BY <1>0, <2>1, <3>1, SetBecomes DEF Statuses
  <2>2. CASE command[c].st # "running"
    <3>1. command' = [command EXCEPT ![c].st = command[c].st]
      BY <1>1, <2>2, Zenon DEF persistExit
    <3> QED
      BY <1>0, <2>2, <3>1, SetBecomes
  <2> QED
    BY <2>1, <2>2
<1>2. ASSUME RemoveCommand(c) PROVE Becomes(c, "gone")
  BY <1>0, <1>2, SetBecomes DEF RemoveCommand, Statuses
<1>3. ASSUME ReconcileCommand(c) PROVE Becomes(c, "missing") \/ UNCHANGED command
  <2>1. CASE command[c].st = "running" /\ c \notin live
    <3>1. command' = [command EXCEPT ![c].st = "missing"]
      BY <1>3, <2>1, Zenon DEF ReconcileCommand
    <3> QED
      BY <1>0, <3>1, SetBecomes DEF Statuses
  <2>2. CASE ~(command[c].st = "running" /\ c \notin live)
    <3>1. command' = [command EXCEPT ![c].st = command[c].st]
      BY <1>3, <2>2, Zenon DEF ReconcileCommand
    <3> QED
      BY <1>0, <3>1, SetAgain
  <2> QED
    BY <2>1, <2>2
<1>4. ASSUME NEW t \in Threads, Finalize(t), thread[t].cmd = c
      PROVE  Moves(t, "proof") /\ Becomes(c, IF command[c].st = "running" THEN "terminated" ELSE command[c].st)
  <2>0. Moves(t, "proof")
    BY <1>0, <1>4, GotoMoves DEF Finalize, Places, Ending
  <2>1. CASE command[c].st = "running"
    <3>1. command' = [command EXCEPT ![c].st = "terminated"]
      BY <1>4, <2>1, Zenon DEF Finalize
    <3> QED
      BY <1>0, <2>0, <2>1, <3>1, SetBecomes DEF Statuses
  <2>2. CASE command[c].st # "running"
    <3>1. command' = [command EXCEPT ![c].st = command[c].st]
      BY <1>4, <2>2, Zenon DEF Finalize
    <3> QED
      BY <1>0, <2>0, <2>2, <3>1, SetBecomes
  <2> QED
    BY <2>0, <2>1, <2>2
<1> QED
  BY <1>1, <1>2, <1>3, <1>4

\* A termination kills the process, or finds that it is not the one it knew.
LEMMA TerminateEffect ==
    ASSUME TypeOK, NEW t \in Threads, Terminate(t), NEW c \in Commands, c = thread[t].cmd, proc[c] # "none"
    PROVE  /\ proc' \in [Commands -> {"none", "alive", "dead"}] /\ \A d \in Commands \ {c} : proc'[d] = proc[d]
           /\ proc'[c] = proc[c] \/ proc'[c] = "dead"
           /\ lost \subseteq lost' /\ lost' \subseteq Names /\ live' \subseteq Commands
           /\ \/ Moves(t, "finalize") /\ (proc'[c] = "dead" \/ command[c].name \in lost')
              \/ Moves(t, "proof") \/ Rests(t)
<1>0. /\ thread \in [Threads -> ThreadRecords] /\ proc \in [Commands -> {"none", "alive", "dead"}]
      /\ lost \subseteq Names /\ live \subseteq Commands /\ command[c].name \in Names
  BY Fields, TypedParts DEF TypedRest
<1>1. CASE command[c].st = "running"
  <2>1. Goto(t, "finalize")
    BY <1>1 DEF Terminate
  <2>2. Moves(t, "finalize")
    BY <1>0, <2>1, GotoMoves DEF Places, Ending
  <2>3. live' \subseteq Commands
    BY <1>0, <1>1 DEF Terminate
  <2>4. \/ proc' = [proc EXCEPT ![c] = "dead"] /\ lost' = lost
        \/ proc' = proc /\ lost' = lost \cup {command[c].name}
    BY <1>1 DEF Terminate
  <2> QED
    BY <1>0, <2>2, <2>3, <2>4
<1>2. CASE command[c].st # "running"
  <2>1. Return(t) \/ Goto(t, "proof")
    BY <1>2 DEF Terminate
  <2>2. Rests(t) \/ Moves(t, "proof")
    BY <1>0, <2>1, GotoMoves, ReturnRests DEF Places, Ending
  <2>3. live' \subseteq Commands /\ lost' = lost
    BY <1>0, <1>2 DEF Terminate
  <2>4. proc' = [proc EXCEPT ![c] = "dead"] \/ proc' = [proc EXCEPT ![c] = proc[c]] \/ proc' = proc
    BY <1>2 DEF Terminate
  <2> QED
    BY <1>0, <2>2, <2>3, <2>4
<1> QED
  BY <1>1, <1>2

\* The tick reads the links there are, and goes through them.
LEMMA SnapshotEffect ==
    ASSUME TypeOK, NEW t \in Threads, Snapshot(t)
    PROVE  /\ thread' \in [Threads -> ThreadRecords] /\ thread'[t].at = "clean"
           /\ \A x \in thread'[t].todo : \E n \in Names : x.name = n /\ x.cmd = record[n].cmd /\ record[n].cmd # 0
           /\ \A u \in Threads \ {t} : thread'[u] = thread[u]
<1> DEFINE Entry(n) == [name |-> n, cmd |-> record[n].cmd, st |-> command[record[n].cmd].st]
           S == {Entry(n) : n \in {m \in Names : record[m].cmd # 0}}
           r == [thread[t] EXCEPT !.at = "clean", !.todo = S]
<1>0. thread \in [Threads -> ThreadRecords] /\ thread[t] \in ThreadRecords
  BY Fields, TypedParts DEF TypedRest
<1>3. \A n \in Names : record[n].cmd # 0 => record[n].cmd \in Commands
  BY Fields
<1>4. \A n \in Names : record[n].cmd # 0 => Entry(n) \in [name : Names, cmd : Commands, st : Statuses]
  BY <1>3, Fields
<1>5. S \in SUBSET [name : Names, cmd : Commands, st : Statuses]
  BY <1>4, Zenon
<1>6. thread' = [thread EXCEPT ![t] = r]
  BY <1>0 DEF Snapshot
<1>7. \A x \in S : \E n \in Names : x.name = n /\ x.cmd = record[n].cmd /\ record[n].cmd # 0
  OBVIOUS
<1> HIDE DEF S
<1>8. r \in ThreadRecords
  BY <1>0, <1>5, Zenon DEF ThreadRecords
<1>9. r.at = "clean" /\ r.todo = S
  BY <1>0 DEF ThreadRecords
<1> HIDE DEF r
<1> QED
  BY <1>0, <1>6, <1>7, <1>8, <1>9

LEMMA CleanEffect ==
    ASSUME TypeOK, NEW t \in Threads, CleanNext(t)
    PROVE  \/ Rests(t)
           \/ \E r \in thread[t].todo :
                 /\ thread' \in [Threads -> ThreadRecords] /\ thread'[t].at \in {"terminate", "proof"}
                 /\ thread'[t].cmd = r.cmd /\ thread'[t].name = r.name /\ thread'[t].todo \subseteq thread[t].todo
                 /\ \A u \in Threads \ {t} : thread'[u] = thread[u]
<1>0. thread \in [Threads -> ThreadRecords] /\ thread[t] \in ThreadRecords
  BY Fields, TypedParts DEF TypedRest
<1>1. CASE Return(t)
  BY <1>0, <1>1, ReturnRests
<1>2. CASE ~Return(t)
  <2>1. PICK x \in thread[t].todo :
          thread' = [thread EXCEPT ![t].at = IF x.st = "running" THEN "terminate" ELSE "proof",
                                   ![t].name = x.name, ![t].cmd = x.cmd, ![t].todo = @ \ {x}]
    BY <1>2 DEF CleanNext
  <2>2. PICK l \in {"terminate", "proof"} : l = IF x.st = "running" THEN "terminate" ELSE "proof"
    OBVIOUS
  <2> DEFINE S == thread[t].todo \ {x}
             r == [thread[t] EXCEPT !.at = l, !.name = x.name, !.cmd = x.cmd, !.todo = S]
  <2>3. thread' = [thread EXCEPT ![t] = r]
    BY <1>0, <2>1, <2>2
  <2>4. x.name \in Names /\ x.cmd \in Commands \cup {0} /\ S \in SUBSET [name : Names, cmd : Commands, st : Statuses]
    BY <1>0, RecordFields
  <2>5. S \subseteq thread[t].todo
    OBVIOUS
  <2> HIDE DEF S
  <2>6. r \in ThreadRecords
    BY <1>0, <2>4, Zenon DEF ThreadRecords, Ending
  <2>7. r.at = l /\ r.name = x.name /\ r.cmd = x.cmd /\ r.todo = S
    BY <1>0 DEF ThreadRecords
  <2> HIDE DEF r
  <2> QED
    BY <1>0, <2>3, <2>5, <2>6, <2>7
<1> QED
  BY <1>1, <1>2
-----------------------------------------------------------------------------
(* From the reservation of a name to the link of its process.               *)
Launched == {"record", "release-callbacks", "link"}
Over(c) == proc[c] = "dead" \/ command[c].name \in lost

Unspawned == \A c \in Commands : proc[c] = "none" => command[c].st = "none"
LinksNamed ==
    \A n \in Names : record[n].cmd # 0 =>
        record[n].worker # 0 /\ proc[record[n].cmd] # "none" /\ command[record[n].cmd].name = n
LaunchesNamed ==
    \A t \in Threads : thread[t].at \in Launched =>
        thread[t].cmd # 0 /\ proc[thread[t].cmd] # "none" /\ command[thread[t].cmd].name = thread[t].name
EndsSpawned ==
    \A t \in Threads :
        /\ thread[t].at \in Ending => thread[t].cmd # 0 /\ proc[thread[t].cmd] # "none"
        /\ \A r \in thread[t].todo : proc[r.cmd] # "none"

\* A recorded end, and one that a call has looked for, is the end of a process.
EndsProved ==
    /\ \A c \in Commands : isTerminal(c) => Over(c)
    /\ \A t \in Threads : thread[t].at \in {"finalize", "drop"} => Over(thread[t].cmd)

\* Who starts a server has reserved its name, alone, and no other process has it.
StartsReserved ==
    \A t \in Threads : thread[t].at \in Starting /\ thread[t].name \notin lost =>
        /\ Reserved(thread[t].name)
        /\ \A u \in Threads \ {t} : thread[u].at \in Starting => thread[u].name # thread[t].name
        /\ \A c \in Commands : Alive(c) /\ command[c].name = thread[t].name => thread[t].at \in Launched /\ c = thread[t].cmd

Tracked == Unspawned /\ LinksNamed /\ LaunchesNamed /\ EndsSpawned
ServerInv == TypeOK /\ Tracked /\ EndsProved /\ StartsReserved /\ ServersFenced

LEMMA InitServer == Init => ServerInv
<1> SUFFICES ASSUME Init PROVE ServerInv
  OBVIOUS
<1>1. \A t \in Threads : thread[t].at \in {"off", "rest"} /\ thread[t].todo = {}
  BY IdleTyped DEF Init
<1>2. \A n \in Names : record[n].cmd = 0 /\ record[n].worker = 0
  BY NoRecordTyped DEF Init
<1>3. \A c \in Commands : proc[c] = "none" /\ command[c].st = "none"
  BY DEF Init
<1>4. Tracked
  BY <1>1, <1>2, <1>3 DEF Tracked, Unspawned, LinksNamed, LaunchesNamed, EndsSpawned, Launched, Ending
<1>5. EndsProved /\ StartsReserved /\ ServersFenced
  BY <1>1, <1>3 DEF EndsProved, isTerminal, StartsReserved, Starting, ServersFenced, Alive
<1> QED
  BY <1>4, <1>5, InitType DEF ServerInv

\* A thread goes on, the rest stays.
LEMMA ThreadSteps ==
    ASSUME ServerInv, NEW t \in Threads, UNCHANGED <<record, command, proc, lost>>,
           \A u \in Threads \ {t} : thread'[u] = thread[u],
           thread'[t].at \in Starting =>
               /\ thread[t].at \in Starting /\ thread'[t].name = thread[t].name /\ thread'[t].cmd = thread[t].cmd
               /\ thread'[t].at \in Launched <=> thread[t].at \in Launched,
           thread'[t].at \in Ending =>
               /\ thread'[t].cmd # 0 /\ proc[thread'[t].cmd] # "none"
               /\ thread'[t].at \in {"finalize", "drop"} => Over(thread'[t].cmd),
           \A r \in thread'[t].todo : proc[r.cmd] # "none"
    PROVE  Tracked' /\ EndsProved' /\ StartsReserved' /\ ServersFenced'
<1>1. Launched \subseteq Starting /\ {"finalize", "drop"} \subseteq Ending
  BY DEF Launched, Starting, Ending
<1>2. Unspawned' /\ LinksNamed'
  BY DEF ServerInv, Tracked, Unspawned, LinksNamed
<1>3. LaunchesNamed'
  BY <1>1 DEF ServerInv, Tracked, LaunchesNamed
<1>4. EndsSpawned'
  BY DEF ServerInv, Tracked, EndsSpawned
<1>5. EndsProved'
  BY <1>1 DEF ServerInv, EndsProved, isTerminal, Over
<1>6. ServersFenced'
  BY DEF ServerInv, ServersFenced, Alive
<1>7. StartsReserved'
  BY DEF ServerInv, StartsReserved, Reserved, Alive
<1> QED
  BY <1>2, <1>3, <1>4, <1>5, <1>6, <1>7 DEF Tracked

LEMMA RestSteps ==
    ASSUME ServerInv, NEW t \in Threads, UNCHANGED <<record, command, proc, lost>>, Rests(t)
    PROVE  Tracked' /\ EndsProved' /\ StartsReserved' /\ ServersFenced'
<1>1. thread'[t].at \notin Starting \cup Ending
  BY DEF Rests, Starting, Ending
<1> QED
  BY <1>1, ThreadSteps DEF Rests

\* One record of a name changes, by the one thread that may change it.
LEMMA ReserveStep ==
    ASSUME ServerInv, NEW t \in Threads, Reserve(t)
    PROVE  ServerInv'
<1>0. TypeOK
  BY DEF ServerInv
<1>1. CASE Rests(t) /\ UNCHANGED record
  <2>1. TypedRest'
    BY <1>0, <1>1, TypedParts DEF TypedRest, Reserve, stored, Rests
  <2> QED
    BY <1>1, <2>1, RestSteps, TypedParts DEF ServerInv, Reserve
<1>2. ASSUME Moves(t, "check"), Reservable(thread[t].name), NEW w \in Runs, Links(thread[t].name, 0, w)
      PROVE  ServerInv'
  <2> DEFINE n == thread[t].name
  <2>0. n \in Names /\ w # 0 /\ thread[t].at = "reserve" /\ UNCHANGED <<command, proc, lost>>
        /\ \A c \in Commands : command[c].name \in Names
    BY <1>0, Fields, RunNames DEF Reserve, At
  <2>1. TypedRest'
    BY <1>0, <1>2, TypedParts DEF TypedRest, Reserve, Moves, Links
  \* Nothing of that name lives, and nobody starts it.
  <2>2. n \notin lost => \A c \in Commands : Alive(c) => command[c].name # n
    <3> SUFFICES ASSUME n \notin lost, NEW c \in Commands, Alive(c), command[c].name = n PROVE FALSE
      OBVIOUS
    <3>1. record[n].worker # 0 /\ record[n].cmd \in {0, c}
      BY DEF ServerInv, ServersFenced
    <3>2. record[n].cmd = c /\ isTerminal(c)
      BY <1>2, <3>1 DEF Reservable
    <3>3. Over(c)
      BY <3>2 DEF ServerInv, EndsProved
    <3> QED
      BY <3>3 DEF Over, Alive
  <2>3. n \notin lost => \A u \in Threads : thread[u].at \in Starting => thread[u].name # n
    BY <1>2 DEF ServerInv, StartsReserved, Reserved, Reservable
  <2>4. Tracked'
    <3>1. Unspawned' /\ LinksNamed'
      BY <2>0, <1>2 DEF ServerInv, Tracked, Unspawned, LinksNamed, Links
    <3>2. LaunchesNamed' /\ EndsSpawned'
      BY <2>0, <1>2 DEF ServerInv, Tracked, LaunchesNamed, EndsSpawned, Moves, Launched, Ending
    <3> QED
      BY <3>1, <3>2 DEF Tracked
  <2>5. EndsProved'
    BY <2>0, <1>2 DEF ServerInv, EndsProved, isTerminal, Over, Moves
  <2>6. ServersFenced'
    BY <2>0, <2>2, <1>2 DEF ServerInv, ServersFenced, Alive, Links
  <2>7. StartsReserved'
    <3> SUFFICES ASSUME NEW u \in Threads, thread'[u].at \in Starting, thread'[u].name \notin lost
                 PROVE  /\ record'[thread'[u].name].worker # 0 /\ record'[thread'[u].name].cmd = 0
                        /\ \A v \in Threads \ {u} : thread'[v].at \in Starting => thread'[v].name # thread'[u].name
                        /\ \A c \in Commands : Alive(c) /\ command[c].name = thread'[u].name =>
                              thread'[u].at \in Launched /\ c = thread'[u].cmd
      BY <2>0 DEF StartsReserved, Reserved, Alive
    <3>1. CASE u = t
      BY <3>1, <2>0, <2>2, <2>3, <1>2 DEF Moves, Links
    <3>2. CASE u # t
      <4>1. thread'[u] = thread[u] /\ thread[u].name \in Names
        BY <3>2, <1>0, <1>2, Fields DEF Moves
      <4>2. thread[u].name # n
        BY <4>1, <2>3
      <4> QED
        BY <3>2, <4>1, <4>2, <2>0, <1>2 DEF ServerInv, StartsReserved, Reserved, Moves, Links
    <3> QED
      BY <3>1, <3>2
  <2> QED
    BY <2>1, <2>4, <2>5, <2>6, <2>7, TypedParts DEF ServerInv
<1> QED
  BY <1>0, <1>1, <1>2, ReserveEffect

\* Records are dropped of names that nobody starts and nothing living has.
LEMMA DropSteps ==
    ASSUME ServerInv, NEW t \in Threads, UNCHANGED <<command, proc>>, lost \subseteq lost',
           \A u \in Threads \ {t} : thread'[u] = thread[u],
           thread'[t].at \notin Starting \cup Ending, thread'[t].todo \subseteq thread[t].todo,
           \A n \in Names : \/ record'[n] = record[n]
                            \/ /\ record'[n].cmd = 0 /\ record'[n].worker = 0
                               /\ n \notin lost' =>
                                    /\ \A c \in Commands : Alive(c) => command[c].name # n
                                    /\ \A u \in Threads \ {t} : thread[u].at \in Starting => thread[u].name # n
    PROVE  Tracked' /\ EndsProved' /\ StartsReserved' /\ ServersFenced'
<1>0. /\ Launched \subseteq Starting /\ {"finalize", "drop"} \subseteq Ending
      /\ \A c \in Commands : command[c].name \in Names
      /\ \A u \in Threads : thread[u].name \in Names
  BY Fields DEF Launched, Starting, Ending, ServerInv
<1>1. Unspawned' /\ LinksNamed'
  BY DEF ServerInv, Tracked, Unspawned, LinksNamed
<1>2. LaunchesNamed' /\ EndsSpawned'
  BY <1>0 DEF ServerInv, Tracked, LaunchesNamed, EndsSpawned
<1>3. EndsProved'
  <2>1. \A c \in Commands : isTerminal(c)' => Over(c)'
    BY DEF ServerInv, EndsProved, isTerminal, Over
  <2>2. \A u \in Threads : thread'[u].at \in {"finalize", "drop"} => Over(thread[u].cmd)'
    BY <1>0 DEF ServerInv, EndsProved, Over
  <2> QED
    BY <2>1, <2>2 DEF EndsProved
<1>4. ServersFenced'
  <2>1. \A c \in Commands : Alive(c) /\ command[c].name \notin lost' =>
           record'[command[c].name].worker # 0 /\ record'[command[c].name].cmd \in {0, c}
    BY <1>0 DEF ServerInv, ServersFenced
  <2>2. \A c, d \in Commands : Alive(c) /\ Alive(d) /\ command[c].name = command[d].name => c = d \/ command[c].name \in lost'
    BY DEF ServerInv, ServersFenced
  <2> QED
    BY <2>1, <2>2 DEF ServersFenced, Alive
<1>5. StartsReserved'
  <2> SUFFICES ASSUME NEW u \in Threads, thread'[u].at \in Starting, thread'[u].name \notin lost'
               PROVE  /\ record'[thread'[u].name].worker # 0 /\ record'[thread'[u].name].cmd = 0
                      /\ \A v \in Threads \ {u} : thread'[v].at \in Starting => thread'[v].name # thread'[u].name
                      /\ \A c \in Commands : Alive(c) /\ command[c].name = thread'[u].name =>
                            thread'[u].at \in Launched /\ c = thread'[u].cmd
    BY DEF StartsReserved, Reserved, Alive
  <2>1. u # t /\ thread'[u] = thread[u]
    OBVIOUS
  <2>2. record'[thread[u].name] = record[thread[u].name]
    BY <1>0, <2>1
  <2> QED
    BY <2>1, <2>2 DEF ServerInv, StartsReserved, Reserved
<1> QED
  BY <1>1, <1>2, <1>3, <1>4, <1>5 DEF Tracked

LEMMA ReleaseStep ==
    ASSUME ServerInv, NEW t \in Threads, Release(t)
    PROVE  ServerInv'
<1>0. TypeOK /\ thread[t].at = "release" /\ thread[t].name \in Names /\ UNCHANGED <<command, proc, lost>>
  BY Fields DEF ServerInv, Release, At
<1>1. Rests(t) /\ thread'[t].at \notin Starting \cup Ending
  BY <1>0, ReleaseEffect DEF Rests, Starting, Ending
<1>2. TypedRest'
  <2>1. record' \in [Names -> ServerRecords]
    BY <1>0, ReleaseEffect, TypedParts DEF Links, TypedRest
  <2> QED
    BY <1>0, <1>1, <2>1, TypedParts DEF TypedRest, Release, Rests
<1>3. CASE UNCHANGED record
  BY <1>0, <1>1, <1>2, <1>3, RestSteps, TypedParts DEF ServerInv
<1>4. CASE Links(thread[t].name, 0, 0)
  <2>1. thread[t].name \notin lost =>
           /\ \A c \in Commands : Alive(c) => command[c].name # thread[t].name
           /\ \A u \in Threads \ {t} : thread[u].at \in Starting => thread[u].name # thread[t].name
    BY <1>0 DEF ServerInv, StartsReserved, Starting, Launched
  <2>2. Tracked' /\ EndsProved' /\ StartsReserved' /\ ServersFenced'
    BY <1>0, <1>1, <1>4, <2>1, DropSteps DEF Rests, Links
  <2> QED
    BY <1>2, <2>2, TypedParts DEF ServerInv
<1> QED
  BY <1>0, <1>3, <1>4, ReleaseEffect

\* A link is dropped by a call that has proved its end.
LEMMA DropLinkStep ==
    ASSUME ServerInv, NEW t \in Threads, DropLink(t)
    PROVE  ServerInv'
<1> DEFINE c == thread[t].cmd
<1>0. /\ TypeOK /\ thread[t].at = "drop" /\ UNCHANGED <<command, proc, lost>> /\ Return(t)
      /\ record' = [n \in Names |-> IF record[n].cmd = c THEN NoRecord ELSE record[n]]
      /\ thread \in [Threads -> ThreadRecords] /\ record \in [Names -> ServerRecords]
  BY TypedParts DEF ServerInv, DropLink, At, TypedRest
<1>1. Rests(t) /\ thread'[t].at \notin Starting \cup Ending
  <2>1. Rests(t)
    BY <1>0, ReturnRests
  <2> QED
    BY <2>1 DEF Rests, Starting, Ending
<1>2. c # 0 /\ Over(c)
  BY <1>0 DEF ServerInv, Tracked, EndsSpawned, EndsProved, Ending
<1>3. TypedRest'
  <2>1. record' \in [Names -> ServerRecords]
    BY <1>0, NoRecordTyped
  <2> QED
    BY <1>0, <1>1, <2>1, TypedParts DEF TypedRest, DropLink, Rests
<1>4. ASSUME NEW n \in Names, record[n].cmd = c, n \notin lost
      PROVE  /\ \A d \in Commands : Alive(d) => command[d].name # n
             /\ \A u \in Threads : thread[u].at \in Starting => thread[u].name # n
  <2>1. command[c].name = n
    BY <1>2, <1>4 DEF ServerInv, Tracked, LinksNamed
  <2>2. ~Alive(c)
    BY <1>2, <1>4, <2>1 DEF Over, Alive
  <2> QED
    BY <1>2, <1>4, <2>2 DEF ServerInv, ServersFenced, StartsReserved, Reserved
<1>5. \A n \in Names : \/ record'[n] = record[n]
                       \/ record[n].cmd = c /\ record'[n].cmd = 0 /\ record'[n].worker = 0
  BY <1>0, NoRecordTyped
<1>6. \A n \in Names : \/ record'[n] = record[n]
                       \/ /\ record'[n].cmd = 0 /\ record'[n].worker = 0
                          /\ n \notin lost' =>
                                /\ \A d \in Commands : Alive(d) => command[d].name # n
                                /\ \A u \in Threads \ {t} : thread[u].at \in Starting => thread[u].name # n
  BY <1>0, <1>4, <1>5
<1>7. Tracked' /\ EndsProved' /\ StartsReserved' /\ ServersFenced'
  BY <1>0, <1>1, <1>6, DropSteps DEF Rests
<1> QED
  BY <1>3, <1>7, TypedParts DEF ServerInv

\* The clean-up drops whatever the name has become, and then the name is lost.
LEMMA DropNameStep ==
    ASSUME ServerInv, NEW t \in Threads, DropName(t)
    PROVE  ServerInv'
<1> DEFINE n == thread[t].name
           c == thread[t].cmd
<1>0. /\ TypeOK /\ thread[t].at = "drop" /\ UNCHANGED <<command, proc>> /\ Goto(t, "clean") /\ n \in Names
      /\ record' = [record EXCEPT ![n] = NoRecord]
      /\ lost' = IF record[n] # NoRecord /\ record[n].cmd # c THEN lost \cup {n} ELSE lost
      /\ thread \in [Threads -> ThreadRecords] /\ record \in [Names -> ServerRecords] /\ lost \subseteq Names
  BY Fields, TypedParts DEF ServerInv, DropName, At, TypedRest
<1>1. Moves(t, "clean") /\ "clean" \notin Starting \cup Ending
  <2>1. Moves(t, "clean")
    BY <1>0, GotoMoves DEF Places
  <2> QED
    BY <2>1 DEF Starting, Ending
<1>2. c # 0 /\ Over(c)
  BY <1>0 DEF ServerInv, Tracked, EndsSpawned, EndsProved, Ending
<1>3. lost \subseteq lost' /\ lost' \subseteq Names
  BY <1>0
<1>4. TypedRest'
  <2>1. record' \in [Names -> ServerRecords]
    BY <1>0, NoRecordTyped
  <2> QED
    BY <1>0, <1>1, <1>3, <2>1, TypedParts DEF TypedRest, DropName, Moves
<1>5. ASSUME n \notin lost', record[n] # NoRecord
      PROVE  /\ \A d \in Commands : Alive(d) => command[d].name # n
             /\ \A u \in Threads : thread[u].at \in Starting => thread[u].name # n
  <2>0. record[n].cmd = c /\ n \notin lost
    BY <1>0, <1>5
  <2>1. command[c].name = n
    BY <1>0, <1>2, <2>0 DEF ServerInv, Tracked, LinksNamed
  <2>2. ~Alive(c)
    BY <1>2, <2>0, <2>1 DEF Over, Alive
  <2> QED
    BY <1>2, <2>0, <2>2 DEF ServerInv, ServersFenced, StartsReserved, Reserved
<1>6. \A m \in Names : \/ record'[m] = record[m]
                       \/ /\ record'[m].cmd = 0 /\ record'[m].worker = 0
                          /\ m \notin lost' =>
                                /\ \A d \in Commands : Alive(d) => command[d].name # m
                                /\ \A u \in Threads \ {t} : thread[u].at \in Starting => thread[u].name # m
  BY <1>0, <1>5, NoRecordTyped
<1>7. Tracked' /\ EndsProved' /\ StartsReserved' /\ ServersFenced'
  BY <1>0, <1>1, <1>3, <1>6, DropSteps DEF Moves
<1> QED
  BY <1>4, <1>7, TypedParts DEF ServerInv

\* The reservation becomes the link of the one process of its name.
LEMMA LinkStep ==
    ASSUME ServerInv, NEW t \in Threads, Link(t)
    PROVE  ServerInv'
<1> DEFINE n == thread[t].name
           c == thread[t].cmd
<1>0. /\ TypeOK /\ thread[t].at = "link" /\ n \in Names /\ c \in Commands /\ UNCHANGED <<command, proc, lost>>
      /\ proc[c] # "none" /\ command[c].name = n
      /\ \A d \in Commands : command[d].name \in Names
      /\ \A u \in Threads : thread[u].name \in Names
  BY Fields DEF ServerInv, Link, At, Tracked, LaunchesNamed, Launched
<1>1. Rests(t) /\ thread'[t].at \notin Starting \cup Ending
  BY <1>0, LinkEffect DEF Rests, Starting, Ending
<1>2. TypedRest'
  <2>1. record' \in [Names -> ServerRecords]
    BY <1>0, LinkEffect, TypedParts DEF Links, TypedRest
  <2> QED
    BY <1>0, <1>1, <2>1, TypedParts DEF TypedRest, Link, Rests
<1>3. CASE UNCHANGED record
  BY <1>0, <1>1, <1>2, <1>3, RestSteps, TypedParts DEF ServerInv
<1>4. CASE Reserved(n) /\ Links(n, c, record[n].worker)
  <2>1. record'[n].worker # 0 /\ record'[n].cmd = c /\ \A m \in Names \ {n} : record'[m] = record[m]
    BY <1>4 DEF Reserved, Links
  <2>2. n \notin lost =>
           /\ \A u \in Threads \ {t} : thread[u].at \in Starting => thread[u].name # n
           /\ \A d \in Commands : Alive(d) /\ command[d].name = n => d = c
    BY <1>0 DEF ServerInv, StartsReserved, Starting
  <2>3. Tracked'
    <3>1. Unspawned' /\ LinksNamed'
      BY <1>0, <2>1 DEF ServerInv, Tracked, Unspawned, LinksNamed
    <3>2. LaunchesNamed' /\ EndsSpawned'
      BY <1>0, <1>1 DEF ServerInv, Tracked, LaunchesNamed, EndsSpawned, Rests, Launched, Starting, Ending
    <3> QED
      BY <3>1, <3>2 DEF Tracked
  <2>4. EndsProved'
    BY <1>0, <1>1 DEF ServerInv, EndsProved, isTerminal, Over, Rests
  <2>5. ServersFenced'
    BY <1>0, <2>1, <2>2 DEF ServerInv, ServersFenced, Alive
  <2>6. StartsReserved'
    BY <1>0, <1>1, <2>1, <2>2 DEF ServerInv, StartsReserved, Reserved, Alive, Rests
  <2> QED
    BY <1>2, <2>3, <2>4, <2>5, <2>6, TypedParts DEF ServerInv
<1> QED
  BY <1>0, <1>3, <1>4, LinkEffect

\* A start gets a process of its own.
LEMMA SpawnStep ==
    ASSUME ServerInv, NEW t \in Threads, Spawn(t)
    PROVE  ServerInv'
<1> DEFINE n == thread[t].name
<1>0. /\ TypeOK /\ thread[t].at = "spawn" /\ n \in Names /\ UNCHANGED <<record, lost>>
      /\ \A d \in Commands : command[d].name \in Names
      /\ \A u \in Threads : thread[u].name \in Names /\ thread[u].cmd \in Commands \cup {0}
      /\ \A m \in Names : record[m].cmd \in Commands \cup {0}
      /\ \A u \in Threads : \A r \in thread[u].todo : r.cmd \in Commands
  BY Fields DEF ServerInv, Spawn, At, stored
<1>1. ASSUME Fails("start"), Moves(t, "release"), UNCHANGED <<proc, command>> PROVE ServerInv'
  <2>1. TypedRest'
    BY <1>0, <1>1, BoundTyped, TypedParts DEF TypedRest, Spawn, Moves
  <2>2. Tracked' /\ EndsProved' /\ StartsReserved' /\ ServersFenced'
    BY <1>0, <1>1, ThreadSteps DEF Moves, Starting, Launched, Ending, ServerInv, Tracked, EndsSpawned
  <2> QED
    BY <2>1, <2>2, TypedParts DEF ServerInv
<1>2. ASSUME NEW c \in Commands,
             proc[c] = "none", proc' \in [Commands -> {"none", "alive", "dead"}], proc'[c] = "alive",
             \A d \in Commands \ {c} : proc'[d] = proc[d] /\ command'[d] = command[d],
             command' \in [Commands -> CommandRecords], command'[c].st = command[c].st, command'[c].name = n,
             thread' \in [Threads -> ThreadRecords], thread'[t].at = "record", thread'[t].cmd = c,
             thread'[t].name = n, thread'[t].todo = thread[t].todo,
             \A u \in Threads \ {t} : thread'[u] = thread[u],
             UNCHANGED bound
      PROVE  ServerInv'
  <2>1. TypedRest'
    BY <1>0, <1>2, TypedParts DEF TypedRest, Spawn
  <2>2. command[c].st = "none"
    BY <1>2 DEF ServerInv, Tracked, Unspawned
  <2>3. Tracked'
    <3>1. Unspawned'
      BY <1>2 DEF ServerInv, Tracked, Unspawned
    <3>2. LinksNamed'
      BY <1>0, <1>2 DEF ServerInv, Tracked, LinksNamed
    <3>3. LaunchesNamed'
      BY <1>0, <1>2, CommandNames DEF ServerInv, Tracked, LaunchesNamed
    <3>4. EndsSpawned'
      <4>1. \A u \in Threads : \A r \in thread'[u].todo : proc'[r.cmd] # "none"
        BY <1>0, <1>2 DEF ServerInv, Tracked, EndsSpawned
      <4>2. \A u \in Threads : thread'[u].at \in Ending => thread'[u].cmd # 0 /\ proc'[thread'[u].cmd] # "none"
        BY <1>0, <1>2 DEF ServerInv, Tracked, EndsSpawned, Ending
      <4> QED
        BY <4>1, <4>2 DEF EndsSpawned
    <3> QED
      BY <3>1, <3>2, <3>3, <3>4 DEF Tracked
  <2>4. EndsProved'
    <3>1. \A d \in Commands : isTerminal(d)' => Over(d)'
      BY <1>0, <1>2, <2>2 DEF ServerInv, EndsProved, isTerminal, Over
    <3>2. ASSUME NEW u \in Threads, thread'[u].at \in {"finalize", "drop"} PROVE Over(thread[u].cmd)'
      <4>1. u # t /\ thread'[u] = thread[u]
        BY <1>2, <3>2
      <4>2. thread[u].cmd \in Commands /\ proc[thread[u].cmd] # "none" /\ Over(thread[u].cmd)
        BY <1>0, <3>2, <4>1 DEF ServerInv, Tracked, EndsSpawned, EndsProved, Ending
      <4> QED
        BY <1>0, <1>2, <4>1, <4>2 DEF Over
    <3> QED
      BY <3>1, <3>2 DEF EndsProved
  <2>5. n \notin lost => /\ record[n].worker # 0 /\ record[n].cmd = 0
                         /\ \A d \in Commands : Alive(d) => command[d].name # n
                         /\ \A u \in Threads \ {t} : thread[u].at \in Starting => thread[u].name # n
    BY <1>0 DEF ServerInv, StartsReserved, Starting, Launched, Reserved
  <2>6. ServersFenced'
    BY <1>0, <1>2, <2>5 DEF ServerInv, ServersFenced, Alive
  <2>7. StartsReserved'
    <3> SUFFICES ASSUME NEW u \in Threads, thread'[u].at \in Starting, thread'[u].name \notin lost
                 PROVE  /\ record[thread'[u].name].worker # 0 /\ record[thread'[u].name].cmd = 0
                        /\ \A v \in Threads \ {u} : thread'[v].at \in Starting => thread'[v].name # thread'[u].name
                        /\ \A d \in Commands : proc'[d] = "alive" /\ command'[d].name = thread'[u].name =>
                              thread'[u].at \in Launched /\ d = thread'[u].cmd
      BY <1>0 DEF StartsReserved, Reserved, Alive
    <3>1. CASE u = t
      BY <3>1, <1>2, <2>5 DEF Launched, Alive
    <3>2. CASE u # t
      <4>1. thread'[u] = thread[u] /\ thread[u].name # n
        BY <3>2, <1>0, <1>2, <2>5
      <4> QED
        BY <3>2, <4>1, <1>0, <1>2 DEF ServerInv, StartsReserved, Reserved, Alive
    <3> QED
      BY <3>1, <3>2
  <2> QED
    BY <2>1, <2>3, <2>4, <2>6, <2>7, TypedParts DEF ServerInv
<1> QED
  BY <1>0, <1>1, <1>2, SpawnEffect

\* Processes end; what has ended is not alive again.
LEMMA DeathSteps ==
    ASSUME ServerInv, lost \subseteq lost', proc' \in [Commands -> {"none", "alive", "dead"}], UNCHANGED <<record, command>>,
           \A c \in Commands : proc'[c] = proc[c] \/ (proc[c] # "none" /\ proc'[c] = "dead"),
           \A t \in Threads :
               /\ thread'[t].at \in Starting =>
                      /\ thread[t].at \in Starting /\ thread'[t].name = thread[t].name /\ thread'[t].cmd = thread[t].cmd
                      /\ thread'[t].at \in Launched => thread[t].at \in Launched
                      /\ thread[t].at \in Launched /\ thread'[t].at \notin Launched => proc'[thread[t].cmd] = "dead"
               /\ thread'[t].at \in Ending => thread[t].at \in Ending /\ thread'[t].cmd = thread[t].cmd
               /\ thread'[t].at \in {"finalize", "drop"} =>
                      \/ thread[t].at \in {"finalize", "drop"}
                      \/ proc'[thread[t].cmd] = "dead" \/ command[thread[t].cmd].name \in lost'
               /\ thread'[t].todo \subseteq thread[t].todo
    PROVE  Tracked' /\ EndsProved' /\ StartsReserved' /\ ServersFenced'
<1>0. /\ TypeOK /\ proc \in [Commands -> {"none", "alive", "dead"}]
      /\ \A u \in Threads : thread[u].name \in Names /\ thread[u].cmd \in Commands \cup {0}
      /\ \A m \in Names : record[m].cmd \in Commands \cup {0}
      /\ \A u \in Threads : \A r \in thread[u].todo : r.cmd \in Commands
      /\ Launched \subseteq Starting /\ {"finalize", "drop"} \subseteq Ending
  BY Fields DEF ServerInv, TypeOK, Launched, Starting, Ending
<1>1. \A c \in Commands : (proc[c] # "none" => proc'[c] # "none") /\ (proc[c] = "dead" => proc'[c] = "dead")
                          /\ (proc'[c] = "alive" => proc[c] = "alive") /\ (proc'[c] = "none" => proc[c] = "none")
  OBVIOUS
<1>2. Unspawned' /\ LinksNamed'
  BY <1>0, <1>1 DEF ServerInv, Tracked, Unspawned, LinksNamed
<1>3. LaunchesNamed'
  BY <1>0, <1>1 DEF ServerInv, Tracked, LaunchesNamed
<1>4. EndsSpawned'
  BY <1>0, <1>1 DEF ServerInv, Tracked, EndsSpawned
<1>5. EndsProved'
  <2>1. \A c \in Commands : isTerminal(c)' => Over(c)'
    BY <1>1 DEF ServerInv, EndsProved, isTerminal, Over
  <2>2. ASSUME NEW t \in Threads, thread'[t].at \in {"finalize", "drop"} PROVE Over(thread[t].cmd)'
    <3>1. thread[t].at \in Ending /\ thread'[t].cmd = thread[t].cmd /\ thread[t].cmd \in Commands
      BY <1>0, <2>2 DEF ServerInv, Tracked, EndsSpawned
    <3>2. thread[t].at \in {"finalize", "drop"} => Over(thread[t].cmd)
      BY DEF ServerInv, EndsProved
    <3> QED
      BY <1>1, <2>2, <3>1, <3>2 DEF Over
  <2> QED
    BY <2>1, <2>2 DEF EndsProved
<1>6. ServersFenced'
  BY <1>0, <1>1 DEF ServerInv, ServersFenced, Alive
<1>7. StartsReserved'
  <2> SUFFICES ASSUME NEW u \in Threads, thread'[u].at \in Starting, thread'[u].name \notin lost'
               PROVE  /\ record[thread'[u].name].worker # 0 /\ record[thread'[u].name].cmd = 0
                      /\ \A v \in Threads \ {u} : thread'[v].at \in Starting => thread'[v].name # thread'[u].name
                      /\ \A d \in Commands : proc'[d] = "alive" /\ command[d].name = thread'[u].name =>
                            thread'[u].at \in Launched /\ d = thread'[u].cmd
    BY DEF StartsReserved, Reserved, Alive
  <2>1. /\ record[thread[u].name].worker # 0 /\ record[thread[u].name].cmd = 0
        /\ \A v \in Threads \ {u} : thread[v].at \in Starting => thread[v].name # thread[u].name
        /\ \A d \in Commands : proc[d] = "alive" /\ command[d].name = thread[u].name =>
              thread[u].at \in Launched /\ d = thread[u].cmd
    BY DEF ServerInv, StartsReserved, Reserved, Alive
  <2>2. \A d \in Commands : proc'[d] = "alive" /\ command[d].name = thread'[u].name =>
            thread'[u].at \in Launched /\ d = thread'[u].cmd
    BY <1>0, <1>1, <2>1
  <2> QED
    BY <2>1, <2>2
<1> QED
  BY <1>2, <1>3, <1>4, <1>5, <1>6, <1>7 DEF Tracked

\* The record of a command changes its status.
LEMMA StatusSteps ==
    ASSUME ServerInv, NEW c \in Commands, NEW s, Becomes(c, s), proc[c] # "none",
           s \in {"exited", "terminated"} => Over(c), UNCHANGED <<record, proc, lost>>,
           \A t \in Threads :
               /\ thread'[t].at \in Starting =>
                      /\ thread[t].at \in Starting /\ thread'[t].name = thread[t].name /\ thread'[t].cmd = thread[t].cmd
                      /\ thread'[t].at \in Launched <=> thread[t].at \in Launched
               /\ thread'[t].at \in Ending => thread[t].at \in Ending /\ thread'[t].cmd = thread[t].cmd
               /\ thread'[t].at \in {"finalize", "drop"} => thread[t].at \in {"finalize", "drop"}
               /\ thread'[t].todo \subseteq thread[t].todo
    PROVE  Tracked' /\ EndsProved' /\ StartsReserved' /\ ServersFenced'
<1>0. /\ \A d \in Commands : command'[d].name = command[d].name /\ (d # c => command'[d].st = command[d].st)
      /\ command'[c].st = s
      /\ \A u \in Threads : thread[u].name \in Names /\ thread[u].cmd \in Commands \cup {0}
      /\ \A m \in Names : record[m].cmd \in Commands \cup {0}
      /\ \A u \in Threads : \A r \in thread[u].todo : r.cmd \in Commands
      /\ Launched \subseteq Starting /\ {"finalize", "drop"} \subseteq Ending
  BY Fields DEF Becomes, ServerInv, Launched, Starting, Ending
<1>1. Unspawned' /\ LinksNamed'
  BY <1>0 DEF ServerInv, Tracked, Unspawned, LinksNamed
<1>2. LaunchesNamed' /\ EndsSpawned'
  BY <1>0 DEF ServerInv, Tracked, LaunchesNamed, EndsSpawned
<1>3. EndsProved'
  <2>1. \A d \in Commands : isTerminal(d)' => Over(d)'
    BY <1>0 DEF ServerInv, EndsProved, isTerminal, Over
  <2>2. ASSUME NEW t \in Threads, thread'[t].at \in {"finalize", "drop"} PROVE Over(thread[t].cmd)'
    <3>1. thread'[t].cmd = thread[t].cmd /\ thread[t].cmd \in Commands /\ Over(thread[t].cmd)
      BY <1>0, <2>2 DEF ServerInv, Tracked, EndsSpawned, EndsProved
    <3> QED
      BY <1>0, <3>1 DEF Over
  <2> QED
    BY <2>1, <2>2 DEF EndsProved
<1>4. ServersFenced'
  BY <1>0 DEF ServerInv, ServersFenced, Alive
<1>5. StartsReserved'
  BY <1>0 DEF ServerInv, StartsReserved, Reserved, Alive
<1> QED
  BY <1>1, <1>2, <1>3, <1>4, <1>5 DEF Tracked
-----------------------------------------------------------------------------
\* What a tool call asks for, and what becomes of the goal.
LEMMA AskStep ==
    ASSUME ServerInv, NEW t \in Callers, NEW w \in {Owner} \cup Runs, NEW n \in Names,
           AskStart(t, w, n) \/ AskStop(t, w, n)
    PROVE  ServerInv'
<1>0. TypeOK /\ t \in Threads /\ UNCHANGED <<stored, proc, live, boot, lost>> /\ Verb
  BY ThreadNames DEF ServerInv, AskStart, AskStop
<1>1. CASE AskStart(t, w, n)
  <2>1. /\ thread' \in [Threads -> ThreadRecords] /\ thread'[t].at = "reserve" /\ thread'[t].todo = {}
        /\ \A u \in Threads \ {t} : thread'[u] = thread[u]
    BY <1>0, <1>1, AskMoves
  <2>2. TypedRest'
    BY <1>0, <2>1, BoundTyped, TypedParts DEF TypedRest, stored
  <2>3. Tracked' /\ EndsProved' /\ StartsReserved' /\ ServersFenced'
    BY <1>0, <2>1, ThreadSteps DEF stored, Starting, Ending
  <2> QED
    BY <2>2, <2>3, TypedParts DEF ServerInv
<1>2. CASE AskStop(t, w, n)
  <2>1. /\ thread' \in [Threads -> ThreadRecords] /\ thread'[t].at \in {"terminate", "proof"} /\ thread'[t].todo = {}
        /\ thread'[t].cmd = record[n].cmd
        /\ \A u \in Threads \ {t} : thread'[u] = thread[u]
    BY <1>0, <1>2, AskMoves
  <2>2. record[n].cmd # 0 /\ proc[record[n].cmd] # "none"
    BY <1>2 DEF AskStop, ServerInv, Tracked, LinksNamed
  <2>3. TypedRest'
    BY <1>0, <2>1, BoundTyped, TypedParts DEF TypedRest, stored
  <2>4. Tracked' /\ EndsProved' /\ StartsReserved' /\ ServersFenced'
    BY <1>0, <2>1, <2>2, ThreadSteps DEF stored, Starting, Ending
  <2> QED
    BY <2>3, <2>4, TypedParts DEF ServerInv
<1> QED
  BY <1>1, <1>2

LEMMA GoalStep == ServerInv /\ GoalMoves => ServerInv'
<1> SUFFICES ASSUME ServerInv, GoalMoves PROVE ServerInv'
  OBVIOUS
<1>0. TypeOK /\ UNCHANGED <<record, command, proc, live, thread, boot, lost>> /\ Verb
  BY DEF ServerInv, GoalMoves
<1>1. goal' \in [st : {"active", "stopped", "gone"}, worker : Runs, gen : Runs]
  BY <1>0, BoundsAssumption DEF GoalMoves, TypeOK, Runs
<1>2. TypedRest'
  BY <1>0, <1>1, BoundTyped, TypedParts DEF TypedRest
<1>3. Tracked'
  BY <1>0 DEF ServerInv, Tracked, Unspawned, LinksNamed, LaunchesNamed, EndsSpawned
<1>4. EndsProved' /\ StartsReserved' /\ ServersFenced'
  BY <1>0 DEF ServerInv, EndsProved, isTerminal, Over, StartsReserved, Reserved, Alive, ServersFenced
<1> QED
  BY <1>2, <1>3, <1>4, TypedParts DEF ServerInv

\* Steps of one call that write neither records nor processes.
LEMMA QuietSteps ==
    ASSUME ServerInv, NEW t \in Threads,
           CheckDuplicate(t) \/ ReleaseCallbacks(t) \/ LookForProof(t) \/ ReconcileServers(t) \/ Snapshot(t) \/ CleanNext(t)
    PROVE  ServerInv'
<1>0. /\ TypeOK /\ thread \in [Threads -> ThreadRecords]
      /\ UNCHANGED <<goal, record, command, proc, boot, bound, lost>>
      /\ \A r \in thread[t].todo : proc[r.cmd] # "none"
      /\ thread[t].cmd \in Commands \cup {0}
  BY Fields DEF ServerInv, TypeOK, Tracked, EndsSpawned, stored, CheckDuplicate, ReleaseCallbacks, LookForProof,
     ReconcileServers, Snapshot, CleanNext
<1>1. ASSUME thread' \in [Threads -> ThreadRecords], live' \subseteq Commands,
             Tracked', EndsProved', StartsReserved', ServersFenced'
      PROVE  ServerInv'
  BY <1>0, <1>1, TypedParts DEF TypedRest, ServerInv
<1>2. live \subseteq Commands
  BY <1>0 DEF TypeOK
<1>3. CASE CheckDuplicate(t)
  <2>1. PICK l \in {"release", "spawn"} : Goto(t, l)
    BY <1>3 DEF CheckDuplicate
  <2>2. Moves(t, l) /\ thread[t].at = "check" /\ live' = live
    BY <1>0, <1>3, <2>1, GotoMoves DEF Places, Starting, CheckDuplicate, At
  <2>3. Tracked' /\ EndsProved' /\ StartsReserved' /\ ServersFenced'
    BY <1>0, <2>2, ThreadSteps DEF Moves, Starting, Launched, Ending
  <2> QED
    BY <1>1, <1>2, <2>2, <2>3 DEF Moves
<1>4. CASE ReleaseCallbacks(t)
  <2>1. Moves(t, "link") /\ thread[t].at = "release-callbacks" /\ live' = live \cup {thread[t].cmd}
    BY <1>0, <1>4, GotoMoves DEF Places, Starting, ReleaseCallbacks, At
  <2>2. thread[t].cmd \in Commands
    BY <1>0, <2>1 DEF ServerInv, Tracked, LaunchesNamed, Launched
  <2>3. Tracked' /\ EndsProved' /\ StartsReserved' /\ ServersFenced'
    BY <1>0, <2>1, ThreadSteps DEF Moves, Starting, Launched, Ending
  <2> QED
    BY <1>1, <1>2, <2>1, <2>2, <2>3 DEF Moves
<1>5. CASE LookForProof(t)
  <2>0. thread[t].at = "proof" /\ thread[t].cmd \in Commands /\ proc[thread[t].cmd] # "none" /\ live' = live
    BY <1>0, <1>5 DEF LookForProof, At, ServerInv, Tracked, EndsSpawned, Ending
  <2>1. CASE isTerminal(thread[t].cmd)
    <3>1. Goto(t, "drop")
      BY <1>5, <2>1 DEF LookForProof
    <3>2. Moves(t, "drop")
      BY <1>0, <3>1, GotoMoves DEF Places, Ending
    <3>3. Over(thread[t].cmd)
      BY <2>0, <2>1 DEF ServerInv, EndsProved
    <3>5. /\ thread'[t].at \notin Starting /\ thread'[t].cmd # 0 /\ proc[thread'[t].cmd] # "none"
          /\ Over(thread'[t].cmd) /\ thread'[t].todo = thread[t].todo /\ \A u \in Threads \ {t} : thread'[u] = thread[u]
      BY <2>0, <3>2, <3>3, CommandNames DEF Moves, Starting
    <3>4. Tracked' /\ EndsProved' /\ StartsReserved' /\ ServersFenced'
      BY <1>0, <3>5, ThreadSteps
    <3> QED
      BY <1>1, <1>2, <2>0, <3>2, <3>4 DEF Moves
  <2>2. CASE ~isTerminal(thread[t].cmd)
    <3>1. Goto(t, "clean") \/ Return(t)
      BY <1>5, <2>2 DEF LookForProof
    <3>2. CASE Goto(t, "clean")
      <4>1. Moves(t, "clean")
        BY <1>0, <3>2, GotoMoves DEF Places
      <4>2. Tracked' /\ EndsProved' /\ StartsReserved' /\ ServersFenced'
        BY <1>0, <4>1, ThreadSteps DEF Moves, Starting, Ending
      <4> QED
        BY <1>1, <1>2, <2>0, <4>1, <4>2 DEF Moves
    <3>3. CASE Return(t)
      <4>1. Rests(t)
        BY <1>0, <3>3, ReturnRests
      <4> QED
        BY <1>0, <1>1, <1>2, <2>0, <4>1, RestSteps DEF Rests
    <3> QED
      BY <3>1, <3>2, <3>3
  <2> QED
    BY <2>1, <2>2
<1>6. CASE ReconcileServers(t)
  <2>0. live' = live /\ (Goto(t, "snapshot") \/ Return(t))
    BY <1>6 DEF ReconcileServers
  <2>1. CASE Goto(t, "snapshot")
    <3>1. Moves(t, "snapshot")
      BY <1>0, <2>1, GotoMoves DEF Places
    <3>2. Tracked' /\ EndsProved' /\ StartsReserved' /\ ServersFenced'
      BY <1>0, <3>1, ThreadSteps DEF Moves, Starting, Ending
    <3> QED
      BY <1>1, <1>2, <2>0, <3>1, <3>2 DEF Moves
  <2>2. CASE Return(t)
    <3>1. Rests(t)
      BY <1>0, <2>2, ReturnRests
    <3> QED
      BY <1>0, <1>1, <1>2, <2>0, <3>1, RestSteps DEF Rests
  <2> QED
    BY <2>0, <2>1, <2>2
<1>7. CASE Snapshot(t)
  <2>1. /\ thread' \in [Threads -> ThreadRecords] /\ thread'[t].at = "clean"
        /\ \A x \in thread'[t].todo : \E n \in Names : x.name = n /\ x.cmd = record[n].cmd /\ record[n].cmd # 0
        /\ \A u \in Threads \ {t} : thread'[u] = thread[u]
    BY <1>0, <1>7, SnapshotEffect
  <2>2. \A x \in thread'[t].todo : proc[x.cmd] # "none"
    BY <2>1 DEF ServerInv, Tracked, LinksNamed
  <2>3. Tracked' /\ EndsProved' /\ StartsReserved' /\ ServersFenced'
    BY <1>0, <2>1, <2>2, ThreadSteps DEF Starting, Ending
  <2> QED
    BY <1>1, <1>2, <1>7, <2>1, <2>3 DEF Snapshot
<1>8. CASE CleanNext(t)
  <2>0. live' = live
    BY <1>8 DEF CleanNext
  <2>1. CASE Rests(t)
    BY <1>0, <1>1, <1>2, <2>0, <2>1, RestSteps DEF Rests
  <2>2. ASSUME NEW r \in thread[t].todo,
               thread' \in [Threads -> ThreadRecords], thread'[t].at \in {"terminate", "proof"},
               thread'[t].cmd = r.cmd, thread'[t].todo \subseteq thread[t].todo,
               \A u \in Threads \ {t} : thread'[u] = thread[u]
        PROVE  ServerInv'
    <3>1. r.cmd \in Commands
      BY <1>0, Fields
    <3>2. Tracked' /\ EndsProved' /\ StartsReserved' /\ ServersFenced'
      BY <1>0, <2>2, <3>1, CommandNames, ThreadSteps DEF Starting, Ending
    <3> QED
      BY <1>1, <1>2, <2>0, <2>2, <3>2
  <2> QED
    BY <1>0, <1>8, <2>1, <2>2, CleanEffect
<1> QED
  BY <1>3, <1>4, <1>5, <1>6, <1>7, <1>8

\* Starts that are recorded or fail, and ends.
LEMMA RecordStartStep ==
    ASSUME ServerInv, NEW t \in Threads, RecordStart(t)
    PROVE  ServerInv'
<1> DEFINE c == thread[t].cmd
<1>0. /\ TypeOK /\ thread[t].at = "record" /\ c \in Commands /\ c # 0 /\ proc[c] # "none"
      /\ UNCHANGED <<goal, record, live, boot, lost>> /\ proc \in [Commands -> {"none", "alive", "dead"}]
      /\ \A u \in Threads : thread[u].todo \subseteq thread[u].todo
  BY Fields DEF ServerInv, TypeOK, RecordStart, At, Tracked, LaunchesNamed, Launched
<1>1. CASE Becomes(c, "running") /\ Moves(t, "release-callbacks") /\ UNCHANGED <<proc, bound>>
  <2>1. TypedRest'
    BY <1>0, <1>1, TypedParts DEF TypedRest, Moves, Becomes
  <2>2. \A u \in Threads :
           /\ thread'[u].at \in Starting =>
                  /\ thread[u].at \in Starting /\ thread'[u].name = thread[u].name /\ thread'[u].cmd = thread[u].cmd
                  /\ thread'[u].at \in Launched <=> thread[u].at \in Launched
           /\ thread'[u].at \in Ending => thread[u].at \in Ending /\ thread'[u].cmd = thread[u].cmd
           /\ thread'[u].at \in {"finalize", "drop"} => thread[u].at \in {"finalize", "drop"}
           /\ thread'[u].todo \subseteq thread[u].todo
    BY <1>0, <1>1 DEF Moves, Starting, Launched, Ending
  <2>3. Tracked' /\ EndsProved' /\ StartsReserved' /\ ServersFenced'
    BY <1>0, <1>1, <2>2, StatusSteps
  <2> QED
    BY <2>1, <2>3, TypedParts DEF ServerInv
<1>2. CASE Fails("start") /\ proc' = [proc EXCEPT ![c] = "dead"] /\ Moves(t, "release") /\ UNCHANGED command
  <2>0. proc' \in [Commands -> {"none", "alive", "dead"}] /\ proc'[c] = "dead" /\ \A d \in Commands \ {c} : proc'[d] = proc[d]
    BY <1>0, <1>2
  <2>1. TypedRest'
    BY <1>0, <1>2, <2>0, BoundTyped, TypedParts DEF TypedRest, Moves
  <2>2. \A u \in Threads :
           /\ thread'[u].at \in Starting =>
                  /\ thread[u].at \in Starting /\ thread'[u].name = thread[u].name /\ thread'[u].cmd = thread[u].cmd
                  /\ thread'[u].at \in Launched => thread[u].at \in Launched
                  /\ thread[u].at \in Launched /\ thread'[u].at \notin Launched => proc'[thread[u].cmd] = "dead"
           /\ thread'[u].at \in Ending => thread[u].at \in Ending /\ thread'[u].cmd = thread[u].cmd
           /\ thread'[u].at \in {"finalize", "drop"} =>
                  \/ thread[u].at \in {"finalize", "drop"}
                  \/ proc'[thread[u].cmd] = "dead" \/ command[thread[u].cmd].name \in lost'
           /\ thread'[u].todo \subseteq thread[u].todo
    BY <1>0, <1>2, <2>0 DEF Moves, Starting, Launched, Ending
  <2>3. Tracked' /\ EndsProved' /\ StartsReserved' /\ ServersFenced'
    BY <1>0, <1>2, <2>0, <2>2, DeathSteps
  <2> QED
    BY <2>1, <2>3, TypedParts DEF ServerInv
<1> QED
  BY <1>0, <1>1, <1>2, RecordStartEffect

LEMMA TerminateStep ==
    ASSUME ServerInv, NEW t \in Threads, Terminate(t)
    PROVE  ServerInv'
<1> DEFINE c == thread[t].cmd
<1>0. /\ TypeOK /\ thread[t].at = "terminate" /\ c \in Commands /\ proc[c] # "none"
      /\ UNCHANGED <<goal, record, command, boot, bound>>
  BY Fields DEF ServerInv, Terminate, At, Tracked, EndsSpawned, Ending, stored
<1>1. /\ proc' \in [Commands -> {"none", "alive", "dead"}] /\ \A d \in Commands \ {c} : proc'[d] = proc[d]
      /\ proc'[c] = proc[c] \/ proc'[c] = "dead"
      /\ lost \subseteq lost' /\ lost' \subseteq Names /\ live' \subseteq Commands
      /\ \/ Moves(t, "finalize") /\ (proc'[c] = "dead" \/ command[c].name \in lost')
         \/ Moves(t, "proof") \/ Rests(t)
  BY <1>0, TerminateEffect
<1>2. TypedRest'
  BY <1>0, <1>1, TypedParts DEF TypedRest, Moves, Rests
<1>3. /\ \A u \in Threads \ {t} : thread'[u] = thread[u]
      /\ thread'[t].at \notin Starting /\ thread'[t].todo \subseteq thread[t].todo
      /\ thread'[t].at \in Ending => thread'[t].cmd = c
      /\ thread'[t].at \in {"finalize", "drop"} => proc'[c] = "dead" \/ command[c].name \in lost'
  <2>1. CASE Moves(t, "finalize") /\ (proc'[c] = "dead" \/ command[c].name \in lost')
    BY <2>1 DEF Moves, Starting
  <2>2. CASE Moves(t, "proof")
    BY <2>2 DEF Moves, Starting
  <2>3. CASE Rests(t)
    BY <2>3 DEF Rests, Starting, Ending
  <2> QED
    BY <1>1, <2>1, <2>2, <2>3
<1>4. \A u \in Threads :
         /\ thread'[u].at \in Starting =>
                /\ thread[u].at \in Starting /\ thread'[u].name = thread[u].name /\ thread'[u].cmd = thread[u].cmd
                /\ thread'[u].at \in Launched => thread[u].at \in Launched
                /\ thread[u].at \in Launched /\ thread'[u].at \notin Launched => proc'[thread[u].cmd] = "dead"
         /\ thread'[u].at \in Ending => thread[u].at \in Ending /\ thread'[u].cmd = thread[u].cmd
         /\ thread'[u].at \in {"finalize", "drop"} =>
                \/ thread[u].at \in {"finalize", "drop"}
                \/ proc'[thread[u].cmd] = "dead" \/ command[thread[u].cmd].name \in lost'
         /\ thread'[u].todo \subseteq thread[u].todo
  <2>1. ASSUME NEW u \in Threads \ {t}
        PROVE  /\ thread'[u].at \in Starting =>
                      /\ thread[u].at \in Starting /\ thread'[u].name = thread[u].name /\ thread'[u].cmd = thread[u].cmd
                      /\ thread'[u].at \in Launched => thread[u].at \in Launched
                      /\ thread[u].at \in Launched /\ thread'[u].at \notin Launched => proc'[thread[u].cmd] = "dead"
               /\ thread'[u].at \in Ending => thread[u].at \in Ending /\ thread'[u].cmd = thread[u].cmd
               /\ thread'[u].at \in {"finalize", "drop"} => thread[u].at \in {"finalize", "drop"}
               /\ thread'[u].todo \subseteq thread[u].todo
    BY <1>3
  <2>2. thread[t].at \in Ending
    BY <1>0 DEF Ending
  <2> QED
    BY <1>3, <2>1, <2>2
<1>5. Tracked' /\ EndsProved' /\ StartsReserved' /\ ServersFenced'
  BY <1>0, <1>1, <1>4, DeathSteps
<1> QED
  BY <1>2, <1>5, TypedParts DEF ServerInv

LEMMA CommandEnds ==
    ASSUME ServerInv, NEW c \in Commands,
           persistExit(c) \/ RemoveCommand(c) \/ ReconcileCommand(c) \/ \E t \in Threads : Finalize(t) /\ thread[t].cmd = c
    PROVE  ServerInv'
<1>0. /\ TypeOK /\ UNCHANGED <<goal, record, proc, lost>> /\ live' \subseteq Commands /\ boot' \subseteq Commands
      /\ bound' \in [verbs : 0 .. MaxVerbs, faults : 0 .. MaxFaults] /\ command \in [Commands -> CommandRecords]
  BY BoundTyped, TypedParts DEF ServerInv, TypedRest, persistExit, RemoveCommand, ReconcileCommand, Finalize
<1>1. ASSUME thread' \in [Threads -> ThreadRecords], Becomes(c, "exited") \/ Becomes(c, "terminated")
                 \/ Becomes(c, command[c].st) \/ Becomes(c, "missing") \/ Becomes(c, "gone") \/ UNCHANGED command
      PROVE  TypedRest'
  BY <1>0, <1>1, TypedParts DEF TypedRest, Becomes
<1>2. command[c].st \in {"exited", "terminated"} => Over(c)
  BY DEF ServerInv, EndsProved, isTerminal
<1>3. ASSUME NEW s, Becomes(c, s), proc[c] # "none", s \in {"exited", "terminated"} => Over(c), UNCHANGED thread
      PROVE  Tracked' /\ EndsProved' /\ StartsReserved' /\ ServersFenced'
  BY <1>0, <1>3, StatusSteps
<1>4. CASE persistExit(c)
  <2>1. proc[c] = "dead" /\ UNCHANGED thread
    BY <1>4 DEF persistExit
  <2>2. Becomes(c, "exited") \/ Becomes(c, command[c].st)
    BY <1>0, <1>4, EndEffects
  <2> QED
    BY <1>0, <1>1, <1>2, <1>3, <2>1, <2>2, TypedParts DEF ServerInv, Over, TypedRest
<1>5. CASE RemoveCommand(c)
  <2>1. proc[c] # "none" /\ UNCHANGED thread
    BY <1>5 DEF RemoveCommand, isTerminal, ServerInv, Tracked, Unspawned
  <2>2. Becomes(c, "gone")
    BY <1>0, <1>5, EndEffects
  <2> QED
    BY <1>0, <1>1, <1>3, <2>1, <2>2, TypedParts DEF ServerInv, TypedRest
<1>6. CASE ReconcileCommand(c)
  <2>0. UNCHANGED thread /\ thread \in [Threads -> ThreadRecords]
    BY <1>0, <1>6 DEF ReconcileCommand, TypeOK
  <2>1. CASE UNCHANGED command
    <3>1. TypedRest'
      BY <1>1, <2>0, <2>1
    <3>2. Tracked' /\ EndsProved' /\ StartsReserved' /\ ServersFenced'
      BY <1>0, <2>0, <2>1 DEF ServerInv, Tracked, Unspawned, LinksNamed, LaunchesNamed, EndsSpawned, EndsProved,
         isTerminal, Over, StartsReserved, Reserved, Alive, ServersFenced
    <3> QED
      BY <3>1, <3>2, TypedParts DEF ServerInv
  <2>2. CASE command' # command
    <3>1. Becomes(c, "missing")
      BY <1>0, <1>6, <2>2, EndEffects
    <3>2. command[c].st = "running"
      <4>1. command[c].st # "running" => command' = [command EXCEPT ![c].st = command[c].st]
        BY <1>6, Zenon DEF ReconcileCommand
      <4> QED
        BY <1>0, <2>2, <4>1, SetAgain
    <3>3. proc[c] # "none"
      BY <3>2 DEF ServerInv, Tracked, Unspawned
    <3> QED
      BY <1>0, <1>1, <1>3, <2>0, <3>1, <3>3, TypedParts DEF ServerInv
  <2> QED
    BY <2>1, <2>2
<1>7. ASSUME NEW t \in Threads, Finalize(t), thread[t].cmd = c PROVE ServerInv'
  <2>1. thread[t].at = "finalize"
    BY <1>7 DEF Finalize, At
  <2>2. proc[c] # "none" /\ Over(c)
    BY <1>7, <2>1 DEF ServerInv, Tracked, EndsSpawned, EndsProved, Ending
  <2>3. Moves(t, "proof") /\ (Becomes(c, "terminated") \/ Becomes(c, command[c].st))
    BY <1>0, <1>7, EndEffects
  <2>4. \A u \in Threads :
           /\ thread'[u].at \in Starting =>
                  /\ thread[u].at \in Starting /\ thread'[u].name = thread[u].name /\ thread'[u].cmd = thread[u].cmd
                  /\ thread'[u].at \in Launched <=> thread[u].at \in Launched
           /\ thread'[u].at \in Ending => thread[u].at \in Ending /\ thread'[u].cmd = thread[u].cmd
           /\ thread'[u].at \in {"finalize", "drop"} => thread[u].at \in {"finalize", "drop"}
           /\ thread'[u].todo \subseteq thread[u].todo
    BY <2>1, <2>3 DEF Moves, Starting, Ending
  <2>5. PICK s : Becomes(c, s)
    BY <2>3
  <2>6. Tracked' /\ EndsProved' /\ StartsReserved' /\ ServersFenced'
    BY <1>0, <2>2, <2>4, <2>5, StatusSteps
  <2>7. TypedRest'
    BY <1>1, <2>3 DEF Moves
  <2> QED
    BY <2>6, <2>7, TypedParts DEF ServerInv
<1> QED
  BY <1>4, <1>5, <1>6, <1>7

\* A process that ends, and a plugin that dies with some of its processes.
LEMMA ExitStep ==
    ASSUME ServerInv, NEW c \in Commands, Exit(c)
    PROVE  ServerInv'
<1>0. TypeOK /\ proc \in [Commands -> {"none", "alive", "dead"}] /\ UNCHANGED <<stored, live, thread, boot, bound, lost>>
  BY DEF ServerInv, TypeOK, Exit
<1>1. /\ proc' \in [Commands -> {"none", "alive", "dead"}]
      /\ \A d \in Commands : proc'[d] = proc[d] \/ (proc[d] # "none" /\ proc'[d] = "dead")
  BY <1>0 DEF Exit, Alive
<1>2. TypedRest'
  BY <1>0, <1>1, TypedParts DEF TypedRest, stored
<1>3. Tracked' /\ EndsProved' /\ StartsReserved' /\ ServersFenced'
  BY <1>0, <1>1, DeathSteps DEF stored
<1> QED
  BY <1>2, <1>3, TypedParts DEF ServerInv

LEMMA CrashStep == ServerInv /\ Crash => ServerInv'
<1> SUFFICES ASSUME ServerInv, Crash PROVE ServerInv'
  OBVIOUS
<1>0. /\ TypeOK /\ proc \in [Commands -> {"none", "alive", "dead"}] /\ UNCHANGED <<stored, lost>> /\ live' = {}
      /\ Fails("crash") /\ boot' \subseteq Commands
  BY DEF ServerInv, TypeOK, Crash
<1>1. /\ proc' \in [Commands -> {"none", "alive", "dead"}]
      /\ \A d \in Commands : proc'[d] = proc[d] \/ (proc[d] # "none" /\ proc'[d] = "dead")
  BY <1>0 DEF Crash, Alive
<1>2. thread' \in [Threads -> ThreadRecords] /\ \A t \in Threads : thread'[t].at = "rest" /\ thread'[t].todo = {}
  BY IdleTyped DEF Crash
<1>3. TypedRest'
  BY <1>0, <1>1, <1>2, BoundTyped, TypedParts DEF TypedRest, stored
<1>4. Tracked' /\ EndsProved' /\ StartsReserved' /\ ServersFenced'
  BY <1>0, <1>1, <1>2, DeathSteps DEF stored, Starting, Ending
<1> QED
  BY <1>3, <1>4, TypedParts DEF ServerInv

LEMMA ServerStep == ServerInv /\ [Next]_vars => ServerInv'
<1> SUFFICES ASSUME ServerInv, [Next]_vars PROVE ServerInv'
  OBVIOUS
<1>1. CASE \E t \in Threads : CallStep(t)
  <2>1. PICK t \in Threads : CallStep(t)
    BY <1>1
  <2>2. CASE Reserve(t) \/ Spawn(t) \/ RecordStart(t) \/ Link(t) \/ Release(t) \/ Terminate(t) \/ DropLink(t) \/ DropName(t)
    BY <2>2, ReserveStep, SpawnStep, RecordStartStep, LinkStep, ReleaseStep, TerminateStep, DropLinkStep, DropNameStep
  <2>3. CASE Finalize(t)
    <3>1. thread[t].cmd \in Commands
      BY <2>3, Fields DEF ServerInv, Tracked, EndsSpawned, Finalize, At, Ending
    <3> QED
      BY <2>3, <3>1, CommandEnds
  <2>4. CASE CheckDuplicate(t) \/ ReleaseCallbacks(t) \/ LookForProof(t) \/ ReconcileServers(t) \/ Snapshot(t) \/ CleanNext(t)
    BY <2>4, QuietSteps
  <2> QED
    BY <2>1, <2>2, <2>3, <2>4 DEF CallStep
<1>2. CASE \E c \in Commands : Exit(c) \/ persistExit(c) \/ RemoveCommand(c) \/ ReconcileCommand(c)
  BY <1>2, ExitStep, CommandEnds
<1>3. CASE UNCHANGED vars
  <2>1. TypedRest'
    BY <1>3, TypedParts DEF TypedRest, vars, stored, ServerInv
  <2>2. UNCHANGED <<record, command, proc, thread, lost>>
    BY <1>3 DEF vars, stored
  <2>3. Tracked' /\ EndsProved' /\ StartsReserved' /\ ServersFenced'
    BY <2>2 DEF ServerInv, Tracked, Unspawned, LinksNamed, LaunchesNamed, EndsSpawned, EndsProved,
       isTerminal, Over, StartsReserved, Reserved, Alive, ServersFenced
  <2> QED
    BY <2>1, <2>3, TypedParts DEF ServerInv
<1>4. CASE GoalMoves
  BY <1>4, GoalStep
<1>5. CASE \E t \in Callers, w \in {Owner} \cup Runs, n \in Names : AskStart(t, w, n) \/ AskStop(t, w, n)
  BY <1>5, AskStep
<1>6. CASE Crash
  BY <1>6, CrashStep
<1> QED
  BY <1>1, <1>2, <1>3, <1>4, <1>5, <1>6 DEF Next

(* Every variable keeps its type: a call that ends a server knows which one. *)
THEOREM TypeCorrect == Spec => []TypeOK
<1>1. ServerInv => TypeOK
  BY DEF ServerInv
<1> QED
  BY <1>1, InitServer, ServerStep, PTL DEF Spec

(* A living server is fenced by the record of its name, and has the name    *)
(* alone, whatever fails between reservation, spawn and link, and however   *)
(* stops, exits, clean-ups and restarts overlap, unless its name was lost.  *)
THEOREM LiveServersFenced == Spec => []ServersFenced
<1>1. ServerInv => ServersFenced
  BY DEF ServerInv
<1> QED
  BY <1>1, InitServer, ServerStep, PTL DEF Spec
=============================================================================
