----------------------- MODULE TranscriptTurn_proofs ------------------------
(***************************************************************************)
(* Proofs about TranscriptTurn, for any number of turns, failures, verbs    *)
(* and faults: what the engine infers from lost events, a status and a      *)
(* transcript never closes a turn that still runs, and a turn without       *)
(* output is charged once.                                                  *)
(*                                                                          *)
(* The argument: a prompt is sent once, by the thread that opened its turn, *)
(* so what has ended never executes again; hence an ending that an event    *)
(* reported, the runtime stored or a thread saw stays true for as long as   *)
(* it is remembered, and a turn is closed only on one of these.             *)
(***************************************************************************)
EXTENDS TranscriptTurn, TLAPS

Ended == {"done", "failed"}

\* An event that says a turn is over is about a turn that is.
TrueEvents ==
    {e \in Events : e.kind = "over" => e.turn \in Turns /\ host.out[e.turn] \in Ended}

RunningTurn == rt.phase = "running" \/ rt.done => rt.gen \in Turns

\* What has not been opened has left no trace.
Unopened ==
    \A t \in Turns : t > rt.gen =>
        /\ host.out[t] = "none" /\ host.work # t /\ t \notin host.queue
        /\ hist.charged[t] = 0

\* The prompt of a turn at "dispatch" has not been sent, and no other thread
\* is about to send it.
Dispatching ==
    \A u \in Threads : thread[u].at = "dispatch" =>
        /\ thread[u].gen \in Turns /\ thread[u].gen <= rt.gen
        /\ host.out[thread[u].gen] = "none"
        /\ host.work # thread[u].gen /\ thread[u].gen \notin host.queue
        /\ \A v \in Threads \ {u} :
              thread[v].at = "dispatch" => thread[v].gen # thread[u].gen

\* What executes, or waits for it, has not ended.
Executing ==
    \A t \in Turns :
        /\ t \in host.queue => host.out[t] = "none" /\ host.work # t
        /\ host.work = t => host.out[t] \in {"none", "step"}

\* Every ending on its way, stored, or seen by a thread is true.
OverTrue == wire \in Seq(TrueEvents)
DoneTrue == rt.done => host.out[rt.gen] \in Ended

ThreadsKnow ==
    \A u \in Threads : thread[u].at \in {"inspect", "confirm"} =>
        /\ thread[u].gen \in Turns
        /\ thread[u].at = "confirm" \/ thread[u].done => host.out[thread[u].gen] \in Ended

\* Charging a turn ends its run.
ChargedOnce ==
    \A t \in Turns :
        hist.charged[t] <= 1 /\ (hist.charged[t] = 1 /\ t = rt.gen => ~rt.run)

TurnInv ==
    /\ TypeOK /\ RunningTurn /\ Unopened /\ Dispatching /\ Executing
    /\ OverTrue /\ DoneTrue /\ ThreadsKnow /\ ChargedOnce /\ TurnsReallyOver
-----------------------------------------------------------------------------
(* What the steps do to each part of the state.                             *)

\* A change of the runtime that opens no turn and reports no ending.
Keeps(r, s) ==
    /\ s \in Runtimes /\ s.gen = r.gen
    /\ s.phase = "running" => r.phase = "running"
    /\ s.run => r.run
    /\ s.done => r.done

\* The same, but an ending that is true may be stored.
RuntimeGoes ==
    /\ rt' \in Runtimes /\ rt'.gen = rt.gen
    /\ rt'.phase = "running" => rt.phase = "running"
    /\ rt'.run => rt.run
    /\ rt'.done => rt.done \/ (rt.gen \in Turns /\ host.out[rt.gen] \in Ended)

\* The worker goes on with the prompts it has.
HostGoes ==
    /\ host' \in Sessions
    /\ \A t \in Turns :
          /\ host'.out[t] # host.out[t] => host.work = t
          /\ t \in host'.queue => t \in host.queue
          /\ host'.work = t => host.work = t \/ t \in host.queue
    /\ Executing'

\* No thread begins a dispatch, and each has seen what it remembers.
ThreadsGo ==
    /\ thread' \in [Threads -> ThreadRecords]
    /\ \A u \in Threads :
          /\ thread'[u].at = "dispatch" =>
                thread[u].at = "dispatch" /\ thread'[u].gen = thread[u].gen
          /\ thread'[u].at \in {"inspect", "confirm"} =>
                /\ thread'[u].gen \in Turns
                /\ thread'[u].at = "confirm" \/ thread'[u].done =>
                      host.out[thread'[u].gen] \in Ended

Small ==
    /\ goal' \in [status : {"active", "paused", "blocked"}, manual : BOOLEAN]
    /\ held' \subseteq Threads /\ op' \in Threads \cup {"none"}
    /\ fence' \in [checks : BOOLEAN, await : BOOLEAN]
    /\ verbs' \in Nat
-----------------------------------------------------------------------------
\* The first state.
LEMMA InitTurn == Init => TurnInv
<1> SUFFICES ASSUME Init PROVE TurnInv
  OBVIOUS
<1> USE LimitsAssumption
<1>1. rt \in Runtimes
  <2>1. 0 \in 0 .. MaxTurns /\ 0 \in 0 .. UnknownLimit /\ 0 \in Nat /\ {} \in SUBSET {"live", "lost"}
    OBVIOUS
  <2> QED BY <2>1, ZenonT(60) DEF Init, NewRuntime, Runtimes
<1>2. thread \in [Threads -> ThreadRecords]
  <2>1. 0 \in 0 .. MaxTurns
    OBVIOUS
  <2>2. NoSnapshot \in Snapshots
    BY <2>1, Zenon DEF NoSnapshot, Snapshots
  <2>3. Rest \in ThreadRecords
    BY <2>1, <2>2, Zenon DEF Rest, ThreadRecords, Places
  <2> QED BY <2>3, Zenon DEF Init
<1>3. host \in Sessions
  BY Zenon DEF Init, Sessions, Outcomes, None
<1>4. hist \in [complete : SUBSET Turns, charged : [Turns -> Nat]]
  <2>1. 0 \in Nat
    OBVIOUS
  <2> QED BY <2>1, Zenon DEF Init
<1>5. wire \in Seq(Events) /\ wire \in Seq(TrueEvents)
  BY DEF Init
<1>6. /\ goal \in [status : {"active", "paused", "blocked"}, manual : BOOLEAN]
      /\ held \subseteq Threads /\ op \in Threads \cup {"none"}
      /\ fence \in [checks : BOOLEAN, await : BOOLEAN]
      /\ verbs \in Nat
  BY DEF Init
<1>7. TypeOK
  BY <1>1, <1>2, <1>3, <1>4, <1>5, <1>6 DEF TypeOK
<1>8. /\ rt.phase = "idle" /\ rt.done = FALSE /\ rt.gen = 0 /\ rt.run = FALSE
      /\ \A u \in Threads : thread[u].at = "rest"
      /\ host.work = None /\ host.queue = {} /\ \A t \in Turns : host.out[t] = "none"
      /\ hist.complete = {} /\ \A t \in Turns : hist.charged[t] = 0
  BY DEF Init, NewRuntime, Rest
<1>9. \A t \in Turns : t # None
  BY DEF Turns, None
<1>10. RunningTurn /\ Dispatching /\ ThreadsKnow /\ DoneTrue
  BY <1>8 DEF RunningTurn, Dispatching, ThreadsKnow, DoneTrue
<1>11. Unopened /\ Executing
  BY <1>8, <1>9 DEF Unopened, Executing
<1>12. ChargedOnce /\ TurnsReallyOver
  BY <1>8 DEF ChargedOnce, TurnsReallyOver
<1> QED BY <1>5, <1>7, <1>10, <1>11, <1>12 DEF TurnInv, OverTrue

-----------------------------------------------------------------------------
(* The runtime's operations.                                                *)

LEMMA KeepsStill == ASSUME NEW r \in Runtimes PROVE Keeps(r, r)
BY DEF Keeps

LEMMA KeepsOn ==
    ASSUME NEW r, NEW s, NEW q, Keeps(r, s), Keeps(s, q)
    PROVE  Keeps(r, q)
BY DEF Keeps

LEMMA RuntimeFields ==
    ASSUME NEW r \in Runtimes
    PROVE  /\ r.phase \in {"idle", "running", "waiting_retry"} /\ r.lease \in BOOLEAN
           /\ r.gen \in 0 .. MaxTurns /\ r.run \in BOOLEAN /\ r.done \in BOOLEAN
           /\ r.tools \in SUBSET {"live", "lost"} /\ r.cand \in {"none", "fresh", "ripe"}
           /\ r.quiet \in BOOLEAN /\ r.failed \in {"no", "fresh", "old"}
           /\ r.idleTold \in BOOLEAN /\ r.runTold \in BOOLEAN
           /\ r.unknown \in 0 .. UnknownLimit /\ r.fails \in Nat
           /\ r.retry \in {"none", "set", "due"}
BY Zenon DEF Runtimes

\* Fields that no invariant follows.
LEMMA PlainFields ==
    ASSUME NEW r \in Runtimes
    PROVE  /\ \A x \in BOOLEAN : Keeps(r, [r EXCEPT !.lease = x]) /\ Keeps(r, [r EXCEPT !.quiet = x])
           /\ \A x \in BOOLEAN : Keeps(r, [r EXCEPT !.idleTold = x]) /\ Keeps(r, [r EXCEPT !.runTold = x])
           /\ \A x \in {"none", "fresh", "ripe"} : Keeps(r, [r EXCEPT !.cand = x])
           /\ \A x \in {"no", "fresh", "old"} : Keeps(r, [r EXCEPT !.failed = x])
           /\ \A x \in {"none", "set", "due"} : Keeps(r, [r EXCEPT !.retry = x])
           /\ \A x \in SUBSET {"live", "lost"} : Keeps(r, [r EXCEPT !.tools = x])
           /\ \A x \in 0 .. UnknownLimit : Keeps(r, [r EXCEPT !.unknown = x])
           /\ \A x \in Nat : Keeps(r, [r EXCEPT !.fails = x])
<1>1. \A x \in BOOLEAN : Keeps(r, [r EXCEPT !.lease = x]) /\ Keeps(r, [r EXCEPT !.quiet = x])
  BY ZenonT(60) DEF Keeps, Runtimes
<1>2. \A x \in BOOLEAN : Keeps(r, [r EXCEPT !.idleTold = x]) /\ Keeps(r, [r EXCEPT !.runTold = x])
  BY ZenonT(60) DEF Keeps, Runtimes
<1>3. \A x \in {"none", "fresh", "ripe"} : Keeps(r, [r EXCEPT !.cand = x])
  BY ZenonT(60) DEF Keeps, Runtimes
<1>4. \A x \in {"no", "fresh", "old"} : Keeps(r, [r EXCEPT !.failed = x])
  BY ZenonT(60) DEF Keeps, Runtimes
<1>5. \A x \in {"none", "set", "due"} : Keeps(r, [r EXCEPT !.retry = x])
  BY ZenonT(60) DEF Keeps, Runtimes
<1>6. \A x \in SUBSET {"live", "lost"} : Keeps(r, [r EXCEPT !.tools = x])
  BY ZenonT(60) DEF Keeps, Runtimes
<1>7. \A x \in 0 .. UnknownLimit : Keeps(r, [r EXCEPT !.unknown = x])
  BY ZenonT(60) DEF Keeps, Runtimes
<1>8. \A x \in Nat : Keeps(r, [r EXCEPT !.fails = x])
  BY ZenonT(60) DEF Keeps, Runtimes
<1> QED BY <1>1, <1>2, <1>3, <1>4, <1>5, <1>6, <1>7, <1>8

\* Fields that close something.
LEMMA ClosingFields ==
    ASSUME NEW r \in Runtimes
    PROVE  /\ \A x \in {"idle", "waiting_retry"} : Keeps(r, [r EXCEPT !.phase = x])
           /\ Keeps(r, [r EXCEPT !.run = FALSE])
           /\ Keeps(r, [r EXCEPT !.done = FALSE])
<1>1. \A x \in {"idle", "waiting_retry"} : Keeps(r, [r EXCEPT !.phase = x])
  <2> SUFFICES ASSUME NEW x \in {"idle", "waiting_retry"} PROVE Keeps(r, [r EXCEPT !.phase = x])
    OBVIOUS
  <2>1. [r EXCEPT !.phase = x] \in Runtimes
    BY ZenonT(60) DEF Runtimes
  <2>2. /\ [r EXCEPT !.phase = x].phase = x /\ [r EXCEPT !.phase = x].gen = r.gen
        /\ [r EXCEPT !.phase = x].run = r.run /\ [r EXCEPT !.phase = x].done = r.done
    BY DEF Runtimes
  <2>3. x # "running"
    OBVIOUS
  <2> QED BY <2>1, <2>2, <2>3, Zenon DEF Keeps
<1>2. Keeps(r, [r EXCEPT !.run = FALSE])
  BY ZenonT(60) DEF Keeps, Runtimes
<1>3. Keeps(r, [r EXCEPT !.done = FALSE])
  BY ZenonT(60) DEF Keeps, Runtimes
<1> QED BY <1>1, <1>2, <1>3

LEMMA RecordKeeps ==
    ASSUME NEW r \in Runtimes
    PROVE  /\ Keeps(r, recordActivity(r)) /\ recordActivity(r).done = r.done
           /\ Keeps(r, addToolCall(r)) /\ Keeps(r, removeToolCall(r))
<1>1. \A s \in Runtimes : Keeps(s, recordActivity(s)) /\ recordActivity(s).done = s.done
  BY ZenonT(60) DEF Keeps, Runtimes, recordActivity
<1>2. recordActivity(r) \in Runtimes
  BY <1>1, Zenon DEF Keeps
<1>3. recordActivity(r).tools \in SUBSET {"live", "lost"}
  BY <1>2, RuntimeFields
<1>4. Keeps(recordActivity(r), addToolCall(r)) /\ Keeps(recordActivity(r), removeToolCall(r))
  <2>1. /\ recordActivity(r).tools \cup {"live"} \in SUBSET {"live", "lost"}
        /\ recordActivity(r).tools \ {"live"} \in SUBSET {"live", "lost"}
    BY <1>3
  <2> QED BY <1>2, <2>1, PlainFields, Zenon DEF addToolCall, removeToolCall
<1> QED BY <1>1, <1>4, KeepsOn, Zenon

LEMMA ReleaseKeeps ==
    ASSUME NEW r \in Runtimes
    PROVE  /\ Keeps(r, releaseLease(r)) /\ Keeps(r, Closed(r))
           /\ releaseLease(r).phase = "idle" /\ ~releaseLease(r).done
           /\ Closed(r).phase = "idle" /\ ~Closed(r).done /\ ~Closed(r).run
<1>1. releaseLease(r) \in Runtimes
  <2>1. {} \in SUBSET {"live", "lost"}
    OBVIOUS
  <2> QED BY <2>1, ZenonT(60) DEF Runtimes, releaseLease
<1>2. /\ releaseLease(r).phase = "idle" /\ ~releaseLease(r).done
      /\ releaseLease(r).gen = r.gen /\ releaseLease(r).run = r.run
  BY DEF Runtimes, releaseLease
<1>3. "idle" # "running"
  OBVIOUS
<1>4. Keeps(r, releaseLease(r))
  BY <1>1, <1>2, <1>3 DEF Keeps
<1>5. Keeps(releaseLease(r), Closed(r))
  BY <1>1, ClosingFields, Zenon DEF Closed
<1>6. Closed(r).phase = "idle" /\ ~Closed(r).done /\ ~Closed(r).run
  <2>1. \A s \in Runtimes : /\ [s EXCEPT !.run = FALSE].phase = s.phase
                            /\ [s EXCEPT !.run = FALSE].done = s.done
                            /\ ~[s EXCEPT !.run = FALSE].run
    BY DEF Runtimes
  <2> QED BY <1>1, <1>2, <2>1, Zenon DEF Closed
<1> QED BY <1>2, <1>4, <1>5, <1>6, KeepsOn, Zenon

LEMMA AcquireOpens ==
    ASSUME NEW r \in Runtimes, r.gen < MaxTurns
    PROVE  /\ acquireLease(r) \in Runtimes /\ acquireLease(r).gen = r.gen + 1
           /\ ~acquireLease(r).done
<1>1. r.gen + 1 \in 0 .. MaxTurns
  BY LimitsAssumption DEF Runtimes
<1>2. {} \in SUBSET {"live", "lost"}
  OBVIOUS
<1>3. acquireLease(r) \in Runtimes
  BY <1>1, <1>2, ZenonT(60) DEF Runtimes, acquireLease
<1> QED BY <1>3 DEF Runtimes, acquireLease

LEMMA KeepsGoes ==
    ASSUME Keeps(rt, rt')
    PROVE  RuntimeGoes
BY DEF Keeps, RuntimeGoes

LEMMA FailingKeeps ==
    ASSUME NEW r, Keeps(rt, r), rt \in Runtimes, Failing(r),
           goal \in [status : {"active", "paused", "blocked"}, manual : BOOLEAN]
    PROVE  /\ Keeps(r, rt')
           /\ goal' \in [status : {"active", "paused", "blocked"}, manual : BOOLEAN]
<1>1. r \in Runtimes
  BY DEF Keeps
<1>2. r.fails + 1 \in Nat
  BY <1>1 DEF Runtimes
<1> DEFINE f == [r EXCEPT !.fails = r.fails + 1]
<1>3. Keeps(r, f)
  BY <1>1, <1>2, PlainFields
<1>4. CASE rt' = [r EXCEPT !.fails = @ + 1] /\ goal' = [goal EXCEPT !.status = "blocked"]
  BY <1>3, <1>4
<1>5. CASE rt' = [r EXCEPT !.fails = @ + 1, !.phase = "waiting_retry", !.retry = "set"] /\ UNCHANGED goal
  <2> DEFINE g == [f EXCEPT !.phase = "waiting_retry"]
  <2>1. Keeps(f, g)
    BY <1>3, ClosingFields, Zenon DEF Keeps
  <2>2. Keeps(g, [g EXCEPT !.retry = "set"])
    BY <2>1, PlainFields, Zenon DEF Keeps
  <2>3. rt' = [g EXCEPT !.retry = "set"]
    BY <1>1, <1>5 DEF Runtimes
  <2> HIDE DEF f, g
  <2>4. Keeps(r, rt')
    BY <1>3, <2>1, <2>2, <2>3, KeepsOn
  <2> QED BY <1>5, <2>4
<1> QED BY <1>4, <1>5 DEF Failing

-----------------------------------------------------------------------------
(* Events.                                                                  *)

LEMMA SeqMonotone ==
    ASSUME NEW S, NEW T, S \subseteq T, NEW s \in Seq(S)
    PROVE  s \in Seq(T)
OBVIOUS

\* What reaches the plugin is what was on its way and what was sent.
LEMMA EmitAdds ==
    ASSUME NEW S, wire \in Seq(S), NEW es, \A i \in DOMAIN es : es[i] \in S, Emit(es)
    PROVE  wire' \in Seq(S)
<1>1. PICK D \in SUBSET DOMAIN es :
         wire' = wire \o (IF 1 \in D THEN <<es[1]>> ELSE <<>>)
                      \o (IF 2 \in D THEN <<es[2]>> ELSE <<>>)
                      \o (IF 3 \in D THEN <<es[3]>> ELSE <<>>)
  BY Zenon DEF Emit
<1> DEFINE K(i) == IF i \in D THEN <<es[i]>> ELSE <<>>
<1>2. \A i : K(i) \in Seq(S)
  <2> TAKE i
  <2>1. CASE i \in D
    <3>1. es[i] \in S
      BY <2>1
    <3> QED BY <2>1, <3>1
  <2>2. CASE i \notin D
    BY <2>2
  <2> QED BY <2>1, <2>2
<1>3. wire' = wire \o K(1) \o K(2) \o K(3)
  BY <1>1
<1> HIDE DEF K
<1>4. \A s, t \in Seq(S) : s \o t \in Seq(S)
  OBVIOUS
<1> QED BY <1>2, <1>3, <1>4, Zenon

LEMMA TakeRemoves ==
    ASSUME NEW S, wire \in Seq(S), wire # <<>>
    PROVE  Head(wire) \in S /\ Tail(wire) \in Seq(S)
OBVIOUS
-----------------------------------------------------------------------------
(* What endings mean while the worker goes on.                              *)

\* An ended turn stays as it ended.
LEMMA EndedStays ==
    ASSUME TurnInv, HostGoes
    PROVE  /\ \A t \in Turns : host.out[t] \in Ended => host'.out[t] = host.out[t]
           /\ TrueEvents \subseteq TrueEvents'
<1>1. \A t \in Turns : host.out[t] \in Ended => host'.out[t] = host.out[t]
  BY DEF TurnInv, HostGoes, Executing, Ended
<1> QED BY <1>1 DEF TrueEvents

LEMMA HostFrame ==
    ASSUME TurnInv, RuntimeGoes, HostGoes, ThreadsGo, UNCHANGED hist
    PROVE  /\ RunningTurn' /\ Unopened' /\ Dispatching' /\ Executing'
           /\ DoneTrue' /\ ThreadsKnow' /\ ChargedOnce' /\ TurnsReallyOver'
<1> USE EndedStays
<1>1. Executing'
  BY DEF HostGoes
<1>2. RunningTurn'
  BY DEF TurnInv, RunningTurn, RuntimeGoes
<1>3. Unopened'
  BY DEF TurnInv, Unopened, RuntimeGoes, HostGoes
<1>4. Dispatching'
  BY DEF TurnInv, Dispatching, RuntimeGoes, HostGoes, ThreadsGo
<1>5. DoneTrue'
  <2>1. rt.done => rt.gen \in Turns
    BY DEF TurnInv, RunningTurn
  <2> QED BY <2>1 DEF TurnInv, DoneTrue, RuntimeGoes
<1>6. ThreadsKnow'
  BY DEF ThreadsKnow, ThreadsGo
<1>7. ChargedOnce'
  BY DEF TurnInv, ChargedOnce, RuntimeGoes
<1>8. TurnsReallyOver'
  BY DEF TurnInv, TypeOK, TurnsReallyOver, Ended
<1> QED BY <1>1, <1>2, <1>3, <1>4, <1>5, <1>6, <1>7, <1>8

\* Most steps only change what these say.
LEMMA Frame ==
    ASSUME TurnInv, RuntimeGoes, HostGoes, ThreadsGo, Small, wire' \in Seq(TrueEvents'), UNCHANGED hist
    PROVE  TurnInv'
<1>1. TypeOK'
  <2>1. wire' \in Seq(Events)
    <3>1. TrueEvents' \subseteq Events
      BY DEF TrueEvents
    <3> QED BY <3>1, SeqMonotone
  <2> QED BY <2>1 DEF TurnInv, TypeOK, RuntimeGoes, HostGoes, ThreadsGo, Small
<1> QED BY <1>1, HostFrame DEF TurnInv, OverTrue

LEMMA HostStill == ASSUME TurnInv, UNCHANGED host PROVE HostGoes
BY DEF TurnInv, TypeOK, HostGoes, Executing

LEMMA RuntimeStill == ASSUME TurnInv, UNCHANGED rt PROVE RuntimeGoes
BY DEF TurnInv, TypeOK, RuntimeGoes

LEMMA ThreadsStill == ASSUME TurnInv, UNCHANGED thread PROVE ThreadsGo
BY DEF TurnInv, TypeOK, ThreadsGo, ThreadsKnow

LEMMA WireStill ==
    ASSUME TurnInv, HostGoes, UNCHANGED wire
    PROVE  wire' \in Seq(TrueEvents')
<1>1. wire \in Seq(TrueEvents)
  BY DEF TurnInv, OverTrue
<1> QED BY <1>1, EndedStays, SeqMonotone

\* One thread goes elsewhere, with what it has or with nothing.
ElseWhere == Places \ {"dispatch", "inspect", "confirm"}

LEMMA ThreadMoves ==
    ASSUME TurnInv, NEW t \in Threads, NEW l \in ElseWhere, Go(t, l) \/ Then(t, l) \/ End(t)
    PROVE  ThreadsGo
<1>1. thread \in [Threads -> ThreadRecords]
  BY DEF TurnInv, TypeOK
<1>2. Rest \in ThreadRecords /\ Rest.at = "rest"
  <2>1. 0 \in 0 .. MaxTurns
    BY LimitsAssumption
  <2>2. NoSnapshot \in Snapshots
    BY <2>1, Zenon DEF NoSnapshot, Snapshots
  <2> QED BY <2>1, <2>2, Zenon DEF Rest, ThreadRecords, Places
<1>3. \A r \in ThreadRecords : [r EXCEPT !.at = l] \in ThreadRecords /\ [r EXCEPT !.at = l].at = l
  BY Zenon DEF ThreadRecords, ElseWhere
<1>4. PICK r \in ThreadRecords : thread' = [thread EXCEPT ![t] = r] /\ r.at \in ElseWhere
  <2>1. CASE Go(t, l)
    BY <1>2, <1>3, <2>1, Zenon DEF Go
  <2>2. CASE Then(t, l)
    <3>1. thread' = [thread EXCEPT ![t] = [thread[t] EXCEPT !.at = l]]
      BY <2>2, Zenon DEF Then
    <3> QED BY <1>1, <1>3, <3>1, Zenon
  <2>3. CASE End(t)
    <3>1. "rest" \in ElseWhere
      BY DEF ElseWhere, Places
    <3> QED BY <1>2, <2>3, <3>1, Zenon DEF End
  <2> QED BY <2>1, <2>2, <2>3
<1>5. r.at # "dispatch" /\ r.at # "inspect" /\ r.at # "confirm"
  BY <1>4 DEF ElseWhere
<1> QED BY <1>1, <1>4, <1>5 DEF ThreadsGo, TurnInv, ThreadsKnow

\* A thread goes on with a record of its own.
LEMMA ThreadTakes ==
    ASSUME TurnInv, NEW t \in Threads, NEW r \in ThreadRecords, thread' = [thread EXCEPT ![t] = r],
           r.at # "dispatch",
           r.at \in {"inspect", "confirm"} =>
              r.gen \in Turns /\ (r.at = "confirm" \/ r.done => host.out[r.gen] \in Ended)
    PROVE  ThreadsGo
BY DEF ThreadsGo, TurnInv, TypeOK, ThreadsKnow

\* The next states of what is only typed.
LEMMA SmallStill ==
    ASSUME TurnInv, held' \subseteq Threads,
           UNCHANGED goal \/ goal' \in [status : {"active", "paused", "blocked"}, manual : BOOLEAN],
           UNCHANGED op \/ op' \in Threads \cup {"none"},
           UNCHANGED fence \/ fence' \in [checks : BOOLEAN, await : BOOLEAN],
           UNCHANGED verbs \/ verbs' = verbs + 1
    PROVE  Small
BY DEF Small, TurnInv, TypeOK

LEMMA RestTyped == Rest \in ThreadRecords /\ Rest.at = "rest" /\ NoSnapshot \in Snapshots
<1>1. 0 \in 0 .. MaxTurns
  BY LimitsAssumption
<1>2. NoSnapshot \in Snapshots
  BY <1>1, Zenon DEF NoSnapshot, Snapshots
<1> QED BY <1>1, <1>2, Zenon DEF Rest, ThreadRecords, Places

-----------------------------------------------------------------------------
(* The worker session.                                                      *)

LEMMA SessionFields ==
    ASSUME TurnInv
    PROVE  /\ host \in Sessions /\ host.work \in Turns \cup {None, Foreign}
           /\ host.queue \in SUBSET (Turns \cup {Foreign}) /\ host.out \in [Turns -> Outcomes]
           /\ host.gap \in BOOLEAN /\ host.tool \in BOOLEAN
BY DEF TurnInv, TypeOK, Sessions

LEMMA TurnNames == /\ None \notin Turns /\ Foreign \notin Turns /\ Foreign # None
                   /\ \A t \in Turns : t \in Nat /\ t \in 1 .. MaxTurns
BY LimitsAssumption DEF Turns, None, Foreign

\* Only the prompt that executes ends, and it has not ended.
LEMMA AnswersWork ==
    ASSUME TurnInv, host' \in Sessions, NEW how \in Outcomes,
           host'.out = Answered(host.work, how), host'.queue = host.queue,
           (host'.work = host.work /\ how \in {"none", "step"}) \/ host'.work = None
    PROVE  HostGoes
<1>1. \A t \in Turns : host'.out[t] # host.out[t] => host.work = t
  BY DEF Answered
<1>2. \A t \in Turns : (t \in host'.queue => t \in host.queue) /\ (host'.work = t => host.work = t)
  BY TurnNames
<1>3. Executing'
  BY TurnNames DEF TurnInv, Executing, Answered
<1> QED BY <1>1, <1>2, <1>3 DEF HostGoes

\* Nothing ends, and nothing new executes.
LEMMA SameAnswers ==
    ASSUME TurnInv, host' \in Sessions, host'.out = host.out,
           \A t \in Turns : t \in host'.queue => t \in host.queue,
           \A t \in Turns : host'.work = t => (host.work = t /\ t \notin host'.queue)
                                              \/ (t \in host.queue /\ t \notin host'.queue)
    PROVE  HostGoes
BY DEF HostGoes, TurnInv, Executing

LEMMA EventNames ==
    ASSUME NEW t \in Turns \cup {Foreign},
           NEW k \in {"busy", "step", "idle", "part", "empty", "error", "user"}
    PROVE  Event(k, t) \in TrueEvents'
<1>1. Event(k, t) \in Events /\ Event(k, t).kind # "over"
  BY DEF Event, Events
<1> QED BY <1>1 DEF TrueEvents

LEMMA OldEvents ==
    ASSUME TurnInv, HostGoes
    PROVE  wire \in Seq(TrueEvents')
BY EndedStays, SeqMonotone DEF TurnInv, OverTrue

LEMMA WorkerFrame ==
    ASSUME TurnInv, held' \subseteq Threads, HostGoes, wire' \in Seq(TrueEvents'),
           RuntimeGoes, UNCHANGED <<goal, thread, op, hist>>,
           UNCHANGED fence \/ fence' \in [checks : BOOLEAN, await : BOOLEAN],
           UNCHANGED verbs \/ verbs' = verbs + 1
    PROVE  TurnInv'
BY SmallStill, ThreadsStill, Frame

LEMMA TurnStartsKeeps ==
    ASSUME TurnInv, held' \subseteq Threads, NEW t \in Turns \cup {Foreign}, TurnStarts(t)
    PROVE  TurnInv'
<1>1. host' = [host EXCEPT !.work = t, !.queue = @ \ {t}] /\ t \in host.queue /\ Emit(<<Event("busy", t)>>)
  BY DEF TurnStarts
<1>2. host' \in Sessions
  BY <1>1, SessionFields DEF Sessions
<1>3. host'.out = host.out /\ host'.work = t /\ host'.queue = host.queue \ {t}
  BY <1>1, SessionFields DEF Sessions
<1>4. HostGoes
  BY <1>1, <1>2, <1>3, SameAnswers
<1>5. wire' \in Seq(TrueEvents')
  <2>1. \A i \in DOMAIN <<Event("busy", t)>> : <<Event("busy", t)>>[i] \in TrueEvents'
    BY EventNames
  <2> QED BY <1>1, <1>4, <2>1, OldEvents, EmitAdds
<1> QED BY <1>4, <1>5, RuntimeStill, WorkerFrame DEF TurnStarts

LEMMA StepEndsKeeps ==
    ASSUME TurnInv, held' \subseteq Threads, NEW t \in Turns, StepEnds(t)
    PROVE  TurnInv'
<1> DEFINE es == <<Event("step", t), Event("idle", t)>>
<1>1. host' = [host EXCEPT !.gap = TRUE, !.out = Answered(t, "step")] /\ host.work = t /\ Emit(es)
  BY DEF StepEnds
<1>2. Answered(t, "step") \in [Turns -> Outcomes]
  BY SessionFields DEF Answered, Outcomes
<1>3. host' \in Sessions
  BY <1>1, <1>2, SessionFields DEF Sessions
<1>4. host'.out = Answered(t, "step") /\ host'.work = host.work /\ host'.queue = host.queue
  BY <1>1, SessionFields DEF Sessions
<1>5. HostGoes
  BY <1>1, <1>3, <1>4, AnswersWork DEF Outcomes
<1>6. wire' \in Seq(TrueEvents')
  <2>1. \A i \in DOMAIN es : es[i] \in TrueEvents'
    <3>1. Event("step", t) \in TrueEvents' /\ Event("idle", t) \in TrueEvents'
      BY EventNames
    <3> QED BY <3>1
  <2> QED BY <1>1, <1>5, <2>1, OldEvents, EmitAdds
<1> QED BY <1>5, <1>6, RuntimeStill, WorkerFrame DEF StepEnds

LEMMA NextStepKeeps ==
    ASSUME TurnInv, held' \subseteq Threads, NEW t \in Turns, NextStep(t)
    PROVE  TurnInv'
<1> DEFINE es == <<Event("busy", t), Event("part", t)>>
<1>1. host' = [host EXCEPT !.gap = FALSE] /\ Emit(es)
  BY DEF NextStep
<1>2. host' \in Sessions /\ host'.out = host.out /\ host'.work = host.work /\ host'.queue = host.queue
  BY <1>1, SessionFields DEF Sessions
<1>3. HostGoes
  BY <1>2, SameAnswers DEF TurnInv, Executing
<1>4. wire' \in Seq(TrueEvents')
  <2>1. \A i \in DOMAIN es : es[i] \in TrueEvents'
    <3>1. Event("busy", t) \in TrueEvents' /\ Event("part", t) \in TrueEvents'
      BY EventNames
    <3> QED BY <3>1
  <2> QED BY <1>1, <1>3, <2>1, OldEvents, EmitAdds
<1> QED BY <1>3, <1>4, RuntimeStill, WorkerFrame DEF NextStep

LEMMA TurnEndsKeeps ==
    ASSUME TurnInv, held' \subseteq Threads, NEW t \in Turns \cup {Foreign},
           NEW how \in {"done", "failed", "empty"}, TurnEnds(t, how)
    PROVE  TurnInv'
<1>1. /\ host' = [host EXCEPT !.work = None, !.out = Answered(t, how)]
      /\ host.work = t /\ Emit(EventsOf(t, how))
  BY DEF TurnEnds
<1>2. Answered(t, how) \in [Turns -> Outcomes]
  BY SessionFields DEF Answered, Outcomes
<1>3. host' \in Sessions
  BY <1>1, <1>2, SessionFields DEF Sessions
<1>4. host'.out = Answered(t, how) /\ host'.work = None /\ host'.queue = host.queue
  BY <1>1, SessionFields DEF Sessions
<1>5. HostGoes
  BY <1>1, <1>3, <1>4, AnswersWork DEF Outcomes
<1>6. /\ Event("idle", t) \in TrueEvents' /\ Event("part", t) \in TrueEvents'
      /\ Event("empty", t) \in TrueEvents' /\ Event("error", t) \in TrueEvents'
  BY EventNames
<1>7. t \in Turns /\ how # "empty" => Event("over", t) \in TrueEvents'
  <2> SUFFICES ASSUME t \in Turns, how # "empty" PROVE Event("over", t) \in TrueEvents'
    OBVIOUS
  <2>1. host'.out[t] \in Ended
    BY <1>4 DEF Answered, Ended
  <2>2. /\ Event("over", t) \in Events
        /\ Event("over", t).turn = t
    BY DEF Event, Events
  <2> QED BY <2>1, <2>2 DEF TrueEvents
<1>8. wire' \in Seq(TrueEvents')
  <2> DEFINE es == EventsOf(t, how)
  <2>1. \A i \in DOMAIN es : es[i] \in TrueEvents'
    <3>1. CASE how = "done" /\ t \in Turns
      <4>1. es = <<Event("over", t), Event("part", t), Event("idle", t)>>
        BY <3>1 DEF EventsOf
      <4> QED BY <1>6, <1>7, <3>1, <4>1
    <3>2. CASE how = "done" /\ t \notin Turns
      <4>1. es = <<Event("idle", t)>>
        BY <3>2 DEF EventsOf
      <4> QED BY <1>6, <4>1
    <3>3. CASE how = "empty"
      <4>1. es = <<Event("empty", t), Event("idle", t)>>
        BY <3>3 DEF EventsOf
      <4> QED BY <1>6, <4>1
    <3>4. CASE how = "failed" /\ t \in Turns
      <4>1. es = <<Event("over", t), Event("error", t), Event("idle", t)>>
        BY <3>4 DEF EventsOf
      <4> QED BY <1>6, <1>7, <3>4, <4>1
    <3>5. CASE how = "failed" /\ t \notin Turns
      <4>1. es = <<Event("error", t), Event("idle", t)>>
        BY <3>5 DEF EventsOf
      <4> QED BY <1>6, <4>1
    <3> QED BY <3>1, <3>2, <3>3, <3>4, <3>5
  <2> HIDE DEF es
  <2>2. Emit(es)
    BY <1>1 DEF es
  <2> QED BY <1>5, <2>1, <2>2, OldEvents, EmitAdds
<1> QED BY <1>5, <1>8, RuntimeStill, WorkerFrame DEF TurnEnds

LEMMA ForeignKeeps ==
    ASSUME TurnInv, held' \subseteq Threads, ForeignPrompt
    PROVE  TurnInv'
<1>1. /\ host' = Prompted(Foreign)
      /\ UNCHANGED <<goal, rt, thread, op, fence, wire, hist>> /\ verbs' = verbs + 1
  BY DEF ForeignPrompt, Verb
<1>2. host' = [host EXCEPT !.last = Foreign, !.gap = FALSE,
                  !.work = IF host.work = None THEN host.work ELSE Foreign,
                  !.queue = IF host.work = None THEN host.queue \cup {Foreign} ELSE host.queue]
  BY <1>1, SessionFields DEF Prompted, Sessions
<1>3. /\ host'.out = host.out /\ host'.work \in {None, Foreign}
      /\ host'.queue = host.queue \/ host'.queue = host.queue \cup {Foreign}
  BY <1>2, SessionFields DEF Sessions
<1>4. host' \in Sessions
  <2>1. Foreign \in Turns \cup {None, Foreign}
    OBVIOUS
  <2> QED BY <1>2, <2>1, SessionFields DEF Sessions
<1>5. HostGoes
  BY <1>3, <1>4, TurnNames, SameAnswers
<1> QED BY <1>1, <1>5, RuntimeStill, WireStill, WorkerFrame

LEMMA ToolsKeep ==
    ASSUME TurnInv, held' \subseteq Threads, ToolStarts \/ ToolEnds
    PROVE  TurnInv'
<1>0. rt \in Runtimes
  BY DEF TurnInv, TypeOK
<1>1. CASE ToolStarts
  <2>1. /\ host' = [host EXCEPT !.tool = TRUE] /\ rt' = addToolCall(rt)
        /\ UNCHANGED <<goal, thread, op, fence, wire, hist>> /\ verbs' = verbs + 1
    BY <1>1 DEF ToolStarts, Verb
  <2>2. host' \in Sessions /\ host'.out = host.out /\ host'.work = host.work /\ host'.queue = host.queue
    BY <2>1, SessionFields DEF Sessions
  <2>3. HostGoes
    BY <2>2, SameAnswers DEF TurnInv, Executing
  <2>4. RuntimeGoes
    BY <1>0, <2>1, RecordKeeps, KeepsGoes
  <2> QED BY <2>1, <2>3, <2>4, WireStill, WorkerFrame
<1>2. CASE ToolEnds
  <2>1. /\ host' = [host EXCEPT !.tool = FALSE]
        /\ UNCHANGED <<goal, thread, op, fence, wire, verbs, hist>>
        /\ \/ rt' = removeToolCall(rt)
           \/ rt' = [rt EXCEPT !.tools = {IF c = "live" THEN "lost" ELSE c : c \in rt.tools}]
    BY <1>2, Zenon DEF ToolEnds
  <2>2. host' \in Sessions /\ host'.out = host.out /\ host'.work = host.work /\ host'.queue = host.queue
    BY <2>1, SessionFields DEF Sessions
  <2>3. HostGoes
    BY <2>2, SameAnswers DEF TurnInv, Executing
  <2>4. {IF c = "live" THEN "lost" ELSE c : c \in rt.tools} \in SUBSET {"live", "lost"}
    BY <1>0, RuntimeFields
  <2>5. RuntimeGoes
    BY <1>0, <2>1, <2>4, RecordKeeps, PlainFields, KeepsGoes
  <2> QED BY <2>1, <2>3, <2>5, WireStill, WorkerFrame
<1> QED BY <1>1, <1>2

LEMMA FencesKeep ==
    ASSUME TurnInv, held' \subseteq Threads, ChecksBegin \/ ChecksEnd \/ Park
    PROVE  TurnInv'
<1>1. fence' \in [checks : BOOLEAN, await : BOOLEAN]
  BY DEF TurnInv, TypeOK, ChecksBegin, ChecksEnd, Park
<1>2. UNCHANGED <<goal, rt, thread, op, host, wire, hist>> /\ (UNCHANGED verbs \/ verbs' = verbs + 1)
  BY DEF ChecksBegin, ChecksEnd, Park, Verb
<1> QED BY <1>1, <1>2, HostStill, RuntimeStill, WireStill, WorkerFrame

LEMMA WorkerKeeps ==
    ASSUME TurnInv, held' \subseteq Threads, Worker
    PROVE  TurnInv'
<1>1. CASE \E t \in Turns : StepEnds(t) \/ NextStep(t)
  BY <1>1, StepEndsKeeps, NextStepKeeps
<1>2. CASE \E t \in Turns \cup {Foreign} : TurnStarts(t)
  BY <1>2, TurnStartsKeeps
<1>3. CASE \E t \in Turns \cup {Foreign}, how \in {"done", "failed", "empty"} : TurnEnds(t, how)
  BY <1>3, TurnEndsKeeps
<1>4. CASE ForeignPrompt \/ ToolStarts \/ ToolEnds \/ ChecksBegin \/ ChecksEnd \/ Park
  BY <1>4, ForeignKeeps, ToolsKeep, FencesKeep
<1> QED BY <1>1, <1>2, <1>3, <1>4, Zenon DEF Worker

LEMMA TimeKeeps ==
    ASSUME TurnInv, held' \subseteq Threads, Time
    PROVE  TurnInv'
<1>0. rt \in Runtimes
  BY DEF TurnInv, TypeOK
<1>1. UNCHANGED <<goal, thread, op, fence, host, wire, verbs, hist>>
  BY DEF Time, Ripen, RetryDue, Quieten, Linger, LeaseExpires, Passes, outside
<1>2. \/ rt' = [rt EXCEPT !.cand = IF rt.cand = "fresh" THEN "ripe" ELSE rt.cand]
      \/ rt' = [rt EXCEPT !.retry = IF rt.retry = "set" THEN "due" ELSE rt.retry]
      \/ rt' = [rt EXCEPT !.quiet = rt.phase = "running"]
      \/ rt' = [rt EXCEPT !.failed = IF rt.failed = "fresh" THEN "old" ELSE rt.failed]
      \/ rt' = [rt EXCEPT !.lease = FALSE]
  BY Zenon DEF Time, Ripen, RetryDue, Quieten, Linger, LeaseExpires, Passes
<1>3. /\ (IF rt.cand = "fresh" THEN "ripe" ELSE rt.cand) \in {"none", "fresh", "ripe"}
      /\ (IF rt.retry = "set" THEN "due" ELSE rt.retry) \in {"none", "set", "due"}
      /\ (IF rt.failed = "fresh" THEN "old" ELSE rt.failed) \in {"no", "fresh", "old"}
      /\ (rt.phase = "running") \in BOOLEAN /\ FALSE \in BOOLEAN
  BY <1>0, RuntimeFields
<1>4. Keeps(rt, rt')
  BY <1>0, <1>2, <1>3, PlainFields, Zenon
<1> QED BY <1>1, <1>4, KeepsGoes, HostStill, WireStill, WorkerFrame

-----------------------------------------------------------------------------
(* Turns.                                                                   *)

\* A step of the plugin that leaves the worker and the history alone.
LEMMA PluginFrame ==
    ASSUME TurnInv, held' \subseteq Threads, RuntimeGoes, ThreadsGo,
           UNCHANGED <<host, wire, hist>>,
           UNCHANGED goal \/ goal' \in [status : {"active", "paused", "blocked"}, manual : BOOLEAN],
           UNCHANGED op \/ op' \in Threads \cup {"none"},
           UNCHANGED fence \/ fence' \in [checks : BOOLEAN, await : BOOLEAN],
           UNCHANGED verbs \/ verbs' = verbs + 1
    PROVE  TurnInv'
BY HostStill, WireStill, SmallStill, Frame

LEMMA Here ==
    {"rest", "ask", "queued", "acquire", "record", "stage", "stamp", "charge", "swept", "recover",
     "tell", "stuck", "reset", "abort"} \subseteq ElseWhere
BY DEF ElseWhere, Places

LEMMA DropKeeps ==
    ASSUME TurnInv, held' \subseteq Threads, NEW t \in Threads, Drop(t)
    PROVE  TurnInv'
<1>1. ThreadsGo
  BY Here, ThreadMoves DEF Drop
<1> QED BY <1>1, RuntimeStill, PluginFrame DEF Drop, outside

LEMMA AskKeeps ==
    ASSUME TurnInv, held' \subseteq Threads, NEW t \in Threads, Ask(t)
    PROVE  TurnInv'
<1>1. ThreadsGo
  BY Here, ThreadMoves DEF Ask
<1> QED BY <1>1, RuntimeStill, PluginFrame DEF Ask, outside

LEMMA EnterKeeps ==
    ASSUME TurnInv, held' \subseteq Threads, NEW t \in Threads, Enter(t)
    PROVE  TurnInv'
<1>1. CASE Drop(t)
  BY <1>1, DropKeeps
<1>2. CASE Go(t, "acquire") /\ op' = t /\ UNCHANGED <<goal, rt, outside, hist>>
  <2>1. ThreadsGo
    BY <1>2, Here, ThreadMoves
  <2> QED BY <1>2, <2>1, RuntimeStill, PluginFrame DEF outside
<1> QED BY <1>1, <1>2, Zenon DEF Enter

\* A turn is opened: no trace of it exists, and no thread dispatches it.
LEMMA AcquireKeeps ==
    ASSUME TurnInv, held' \subseteq Threads, NEW t \in Threads, Acquire(t)
    PROVE  TurnInv'
<1>1. CASE Drop(t)
  BY <1>1, DropKeeps
<1>2. CASE /\ rt.gen < MaxTurns /\ rt' = acquireLease(rt)
           /\ thread' = [thread EXCEPT ![t] = [Rest EXCEPT !.at = "dispatch", !.gen = rt'.gen]]
           /\ UNCHANGED <<goal, op, outside, hist>>
  <2> DEFINE r == [Rest EXCEPT !.at = "dispatch", !.gen = rt'.gen]
  <2>1. rt \in Runtimes /\ thread \in [Threads -> ThreadRecords]
    BY DEF TurnInv, TypeOK
  <2>2. rt' \in Runtimes /\ rt'.gen = rt.gen + 1 /\ ~rt'.done
    BY <1>2, <2>1, AcquireOpens
  <2>3. rt.gen \in Nat /\ rt'.gen \in Turns /\ rt'.gen \in 0 .. MaxTurns
    BY <1>2, <2>1, <2>2, LimitsAssumption DEF Runtimes, Turns
  <2>4. r \in ThreadRecords
    BY <2>3, RestTyped, Zenon DEF ThreadRecords, Places
  <2>5. r.at = "dispatch" /\ r.gen = rt'.gen
    BY <2>3, RestTyped DEF ThreadRecords
  <2> HIDE DEF r
  <2>6. thread' = [thread EXCEPT ![t] = r]
    BY <1>2 DEF r
  <2>7. thread'[t] = r /\ \A u \in Threads \ {t} : thread'[u] = thread[u]
    BY <2>1, <2>6
  <2>8. thread' \in [Threads -> ThreadRecords]
    BY <2>1, <2>4, <2>6
  <2>9. UNCHANGED <<host, wire, hist, goal, op, fence, verbs>>
    BY <1>2 DEF outside
  <2>10. /\ host.out[rt'.gen] = "none" /\ host.work # rt'.gen /\ rt'.gen \notin host.queue
         /\ hist.charged[rt'.gen] = 0
    BY <2>2, <2>3 DEF TurnInv, Unopened
  <2>11. \A u \in Threads : thread[u].at = "dispatch" => thread[u].gen <= rt.gen /\ thread[u].gen \in Nat
    BY TurnNames DEF TurnInv, Dispatching
  <2>12. TypeOK'
    BY <2>2, <2>8, <2>9 DEF TurnInv, TypeOK
  <2>13. RunningTurn' /\ DoneTrue'
    BY <2>2, <2>3 DEF RunningTurn, DoneTrue
  <2>14. Unopened'
    BY <2>2, <2>3, <2>9, TurnNames DEF TurnInv, Unopened
  <2>15. Dispatching'
    <3> SUFFICES ASSUME NEW u \in Threads, thread'[u].at = "dispatch"
                 PROVE  /\ thread'[u].gen \in Turns /\ thread'[u].gen <= rt'.gen
                        /\ host.out[thread'[u].gen] = "none"
                        /\ host.work # thread'[u].gen /\ thread'[u].gen \notin host.queue
                        /\ \A v \in Threads \ {u} :
                              thread'[v].at = "dispatch" => thread'[v].gen # thread'[u].gen
      BY <2>9 DEF Dispatching
    <3>1. CASE u = t
      BY <2>2, <2>3, <2>5, <2>7, <2>10, <2>11, <3>1
    <3>2. CASE u # t
      <4>1. thread'[u] = thread[u] /\ thread[u].gen <= rt.gen /\ thread[u].gen \in Nat
        BY <2>7, <2>11, <3>2
      <4>2. \A v \in Threads \ {u} : thread'[v].at = "dispatch" => thread'[v].gen # thread'[u].gen
        BY <2>2, <2>3, <2>5, <2>7, <4>1 DEF TurnInv, Dispatching
      <4> QED BY <2>2, <2>3, <4>1, <4>2 DEF TurnInv, Dispatching
    <3> QED BY <3>1, <3>2
  <2>16. Executing' /\ OverTrue' /\ TurnsReallyOver'
    BY <2>9 DEF TurnInv, Executing, OverTrue, TrueEvents, TurnsReallyOver
  <2>17. ThreadsKnow'
    BY <2>5, <2>7, <2>9 DEF TurnInv, ThreadsKnow
  <2>18. ChargedOnce'
    BY <2>3, <2>9, <2>10 DEF TurnInv, ChargedOnce
  <2> QED BY <2>12, <2>13, <2>14, <2>15, <2>16, <2>17, <2>18 DEF TurnInv
<1> QED BY <1>1, <1>2, Zenon DEF Acquire

\* The prompt is sent, by the only thread that can.
LEMMA PromptKeeps ==
    ASSUME TurnInv, held' \subseteq Threads, NEW t \in Threads, thread[t].at = "dispatch",
           host' = Prompted(thread[t].gen), Emit(<<Event("user", thread[t].gen)>>),
           End(t), op' = "none", UNCHANGED <<goal, rt, fence, verbs, hist>>
    PROVE  TurnInv'
<1> DEFINE g == thread[t].gen
<1>1. /\ g \in Turns /\ g <= rt.gen /\ host.out[g] = "none" /\ host.work # g /\ g \notin host.queue
      /\ \A v \in Threads \ {t} : thread[v].at = "dispatch" => thread[v].gen # g
  BY DEF TurnInv, Dispatching
<1>2. /\ host'.out = host.out /\ host'.work = (IF host.work = None THEN None ELSE g)
      /\ host'.queue = IF host.work = None THEN host.queue \cup {g} ELSE host.queue
  BY SessionFields DEF Prompted, Sessions
<1>3. host' \in Sessions
  BY <1>1, SessionFields DEF Prompted, Sessions
<1>4. thread \in [Threads -> ThreadRecords] /\ rt \in Runtimes
  BY DEF TurnInv, TypeOK
<1>5. thread' \in [Threads -> ThreadRecords]
  BY <1>4, RestTyped DEF End
<1>6. thread'[t].at = "rest" /\ \A u \in Threads \ {t} : thread'[u] = thread[u]
  BY <1>4, RestTyped DEF End
<1> HIDE DEF g
<1>7. wire' \in Seq(TrueEvents)
  <2>1. Event("user", g) \in TrueEvents
    <3>1. Event("user", g) \in Events /\ Event("user", g).kind # "over"
      BY <1>1 DEF Event, Events
    <3> QED BY <3>1 DEF TrueEvents
  <2>2. \A i \in DOMAIN <<Event("user", g)>> : <<Event("user", g)>>[i] \in TrueEvents
    BY <2>1
  <2>3. Emit(<<Event("user", g)>>)
    BY DEF g
  <2> QED BY <2>2, <2>3, EmitAdds DEF TurnInv, OverTrue
<1>8. TrueEvents' = TrueEvents
  BY <1>2 DEF TrueEvents
<1>9. TypeOK'
  <2>1. wire' \in Seq(Events)
    <3>1. TrueEvents \subseteq Events
      BY DEF TrueEvents
    <3> QED BY <1>7, <3>1, SeqMonotone
  <2> QED BY <1>3, <1>5, <2>1 DEF TurnInv, TypeOK
<1>10. Unopened'
  BY <1>1, <1>2, <1>4, TurnNames DEF TurnInv, Unopened, Runtimes
<1>11. Dispatching'
  BY <1>1, <1>2, <1>6, TurnNames DEF TurnInv, Dispatching
<1>12. Executing'
  BY <1>1, <1>2, TurnNames DEF TurnInv, Executing
<1>13. ThreadsKnow'
  BY <1>2, <1>6 DEF TurnInv, ThreadsKnow
<1>14. RunningTurn' /\ DoneTrue' /\ ChargedOnce' /\ TurnsReallyOver'
  BY <1>2 DEF TurnInv, RunningTurn, DoneTrue, ChargedOnce, TurnsReallyOver
<1>15. OverTrue'
  BY <1>7, <1>8 DEF OverTrue
<1> QED BY <1>9, <1>10, <1>11, <1>12, <1>13, <1>14, <1>15 DEF TurnInv

LEMMA DispatchKeeps ==
    ASSUME TurnInv, held' \subseteq Threads, NEW t \in Threads, Dispatch(t)
    PROVE  TurnInv'
<1>0. rt \in Runtimes
  BY DEF TurnInv, TypeOK
<1>1. CASE /\ host' = Prompted(thread[t].gen) /\ Emit(<<Event("user", thread[t].gen)>>)
           /\ End(t) /\ op' = "none" /\ UNCHANGED <<goal, rt, fence, verbs, hist>>
  BY <1>1, PromptKeeps DEF Dispatch
<1>2. CASE Then(t, "record") /\ UNCHANGED <<goal, rt, op, outside, hist>>
  <2>1. ThreadsGo
    BY <1>2, Here, ThreadMoves
  <2> QED BY <1>2, <2>1, RuntimeStill, PluginFrame DEF outside
<1>3. CASE /\ rt' = (IF OwnRun(t) THEN Closed(rt) ELSE rt)
           /\ End(t) /\ op' = "none" /\ UNCHANGED <<goal, outside, hist>>
  <2>1. ThreadsGo
    BY <1>3, Here, ThreadMoves
  <2>2. RuntimeGoes
    BY <1>0, <1>3, ReleaseKeeps, KeepsGoes, RuntimeStill
  <2> QED BY <1>3, <2>1, <2>2, PluginFrame DEF outside
<1> QED BY <1>1, <1>2, <1>3, Zenon DEF Dispatch

LEMMA RecordFailureKeeps ==
    ASSUME TurnInv, held' \subseteq Threads, NEW t \in Threads, recordPromptFailure(t)
    PROVE  TurnInv'
<1>0. rt \in Runtimes /\ goal \in [status : {"active", "paused", "blocked"}, manual : BOOLEAN]
  BY DEF TurnInv, TypeOK
<1>1. ThreadsGo
  BY Here, ThreadMoves DEF recordPromptFailure
<1>2. /\ RuntimeGoes
      /\ goal' \in [status : {"active", "paused", "blocked"}, manual : BOOLEAN]
  <2>1. CASE Failing(Closed(rt))
    <3>1. Keeps(rt, Closed(rt))
      BY <1>0, ReleaseKeeps
    <3> QED BY <1>0, <2>1, <3>1, FailingKeeps, KeepsOn, KeepsGoes
  <2>2. CASE UNCHANGED <<goal, rt>>
    BY <1>0, <2>2, RuntimeStill
  <2> QED BY <2>1, <2>2 DEF recordPromptFailure
<1> QED BY <1>1, <1>2, PluginFrame DEF recordPromptFailure, outside

LEMMA ContinueKeeps ==
    ASSUME TurnInv, held' \subseteq Threads, NEW t \in Threads, Continue(t)
    PROVE  TurnInv'
BY AskKeeps, EnterKeeps, AcquireKeeps, DispatchKeeps, RecordFailureKeeps DEF Continue

-----------------------------------------------------------------------------
(* What an idle report is taken to mean.                                    *)

LEMMA ThreadFields ==
    ASSUME TurnInv
    PROVE  /\ thread \in [Threads -> ThreadRecords] /\ rt \in Runtimes
           /\ \A t \in Threads : /\ thread[t].gen \in 0 .. MaxTurns /\ thread[t].done \in BOOLEAN
                                 /\ thread[t].sure \in BOOLEAN /\ thread[t].snap \in Snapshots
BY DEF TurnInv, TypeOK, ThreadRecords

LEMMA StageKeeps ==
    ASSUME TurnInv, held' \subseteq Threads, NEW t \in Threads, Stage(t)
    PROVE  TurnInv'
<1>1. UNCHANGED <<goal, op, outside, hist>>
  BY DEF Stage
<1>2. CASE End(t) /\ UNCHANGED rt
  <2>1. ThreadsGo
    BY <1>2, Here, ThreadMoves
  <2> QED BY <1>1, <1>2, <2>1, RuntimeStill, PluginFrame DEF outside
<1>3. CASE /\ UNCHANGED rt /\ rt.phase = "running"
           /\ thread' = [thread EXCEPT ![t] =
                            [Rest EXCEPT !.at = "inspect", !.gen = rt.gen, !.done = rt.done]]
  <2> DEFINE r == [Rest EXCEPT !.at = "inspect", !.gen = rt.gen, !.done = rt.done]
  <2>1. rt.gen \in Turns /\ (rt.done => host.out[rt.gen] \in Ended)
    BY <1>3 DEF TurnInv, RunningTurn, DoneTrue
  <2>2. rt.gen \in 0 .. MaxTurns /\ rt.done \in BOOLEAN
    BY ThreadFields, RuntimeFields
  <2>3. r \in ThreadRecords
    BY <2>2, RestTyped, Zenon DEF ThreadRecords, Places
  <2>4. r.at = "inspect" /\ r.gen = rt.gen /\ r.done = rt.done
    BY <2>2, RestTyped DEF ThreadRecords
  <2> HIDE DEF r
  <2>5. ThreadsGo
    <3>1. thread' = [thread EXCEPT ![t] = r]
      BY <1>3 DEF r
    <3> QED BY <2>1, <2>3, <2>4, <3>1, ThreadTakes
  <2> QED BY <1>1, <1>3, <2>5, RuntimeStill, PluginFrame DEF outside
<1>4. CASE /\ rt' = [rt EXCEPT !.cand = IF rt.tools # {} THEN "none" ELSE "fresh"]
           /\ End(t)
  <2>1. ThreadsGo
    BY <1>4, Here, ThreadMoves
  <2>2. RuntimeGoes
    <3>1. (IF rt.tools # {} THEN "none" ELSE "fresh") \in {"none", "fresh", "ripe"}
      OBVIOUS
    <3> QED BY <1>4, <3>1, ThreadFields, PlainFields, KeepsGoes
  <2> QED BY <1>1, <1>4, <2>1, <2>2, PluginFrame DEF outside
<1> QED BY <1>2, <1>3, <1>4, Zenon DEF Stage

\* What inspectPromptTurn decides: only what has ended may be confirmed.
LEMMA VerdictsTrue ==
    ASSUME NEW g, NEW done, NEW v \in Verdicts(g, done)
    PROVE  /\ v \in {"charge", "stamp", "confirm"}
           /\ v = "confirm" => done \/ host.out[g] \in Ended
<1>1. PICK known :
         v = IF ~done /\ known /\ host.out[g] = "empty" THEN "charge"
             ELSE IF \/ known /\ host.out[g] = "step"
                     \/ ~done /\ (~(known /\ host.last = g)
                                  \/ ~(known /\ host.out[g] \in {"done", "failed"}))
             THEN "stamp" ELSE "confirm"
  BY Zenon DEF Verdicts
<1> QED BY <1>1 DEF Ended

LEMMA InspectKeeps ==
    ASSUME TurnInv, held' \subseteq Threads, NEW t \in Threads, Inspect(t)
    PROVE  TurnInv'
<1>1. thread[t].at = "inspect" /\ UNCHANGED <<goal, rt, op, outside, hist>>
  BY DEF Inspect
<1>2. PICK v \in Verdicts(thread[t].gen, thread[t].done) :
         thread' = [thread EXCEPT ![t] = [thread[t] EXCEPT !.at = v, !.done = FALSE, !.sure = v = "charge"]]
  BY ThreadFields, Zenon DEF Inspect
<1> DEFINE r == [thread[t] EXCEPT !.at = v, !.done = FALSE, !.sure = v = "charge"]
<1>3. v \in {"charge", "stamp", "confirm"}
  BY VerdictsTrue
<1>4. thread[t] \in ThreadRecords
  BY ThreadFields
<1>5. r \in ThreadRecords
  <2>1. v \in Places /\ (v = "charge") \in BOOLEAN
    BY <1>3 DEF Places
  <2> QED BY <1>4, <2>1, Zenon DEF ThreadRecords
<1>6. r.at = v /\ r.gen = thread[t].gen /\ r.done = FALSE
  BY <1>4 DEF ThreadRecords
<1> HIDE DEF r
<1>7. thread[t].gen \in Turns /\ (thread[t].done => host.out[thread[t].gen] \in Ended)
  BY <1>1 DEF TurnInv, ThreadsKnow
<1>8. v = "confirm" => host.out[thread[t].gen] \in Ended
  BY <1>7, VerdictsTrue
<1>9. ThreadsGo
  <2>1. thread' = [thread EXCEPT ![t] = r]
    BY <1>2 DEF r
  <2> QED BY <1>3, <1>5, <1>6, <1>7, <1>8, <2>1, ThreadTakes
<1> QED BY <1>1, <1>9, RuntimeStill, PluginFrame DEF outside

LEMMA StampKeeps ==
    ASSUME TurnInv, held' \subseteq Threads, NEW t \in Threads, Stamp(t)
    PROVE  TurnInv'
<1>1. ThreadsGo
  BY Here, ThreadMoves DEF Stamp
<1>2. RuntimeGoes
  <2> DEFINE f == IF rt.gen = thread[t].gen /\ rt.failed = "no" THEN "fresh" ELSE rt.failed
  <2>1. rt' = [rt EXCEPT !.failed = f]
    BY Zenon DEF Stamp
  <2>2. f \in {"no", "fresh", "old"}
    BY ThreadFields, RuntimeFields
  <2> HIDE DEF f
  <2> QED BY <2>1, <2>2, ThreadFields, PlainFields, KeepsGoes
<1> QED BY <1>1, <1>2, PluginFrame DEF Stamp, outside

\* A turn is recorded complete by the thread that saw it end.
LEMMA ConfirmKeeps ==
    ASSUME TurnInv, held' \subseteq Threads, NEW t \in Threads, Confirm(t)
    PROVE  TurnInv'
<1>1. thread[t].at = "confirm" /\ UNCHANGED <<goal, op, outside>>
  BY DEF Confirm
<1>2. ThreadsGo
  BY Here, ThreadMoves DEF Confirm
<1>3. CASE UNCHANGED <<rt, hist>>
  BY <1>1, <1>2, <1>3, RuntimeStill, PluginFrame DEF outside
<1>4. CASE /\ rt.gen = thread[t].gen /\ rt' = Closed(rt)
           /\ hist' = [hist EXCEPT !.complete = @ \cup {rt.gen}]
  <2>1. RuntimeGoes
    BY <1>4, ThreadFields, ReleaseKeeps, KeepsGoes
  <2>2. rt.gen \in Turns /\ host.out[rt.gen] \in Ended
    BY <1>1, <1>4 DEF TurnInv, ThreadsKnow
  <2>3. /\ hist'.complete = hist.complete \cup {rt.gen} /\ hist'.charged = hist.charged
        /\ hist' \in [complete : SUBSET Turns, charged : [Turns -> Nat]]
    BY <1>4, <2>2 DEF TurnInv, TypeOK
  <2>4. HostGoes /\ UNCHANGED <<host, wire>>
    BY <1>1, HostStill DEF outside
  <2>5. TypeOK'
    <3>1. Small
      BY <1>1, SmallStill DEF outside
    <3> QED BY <1>2, <2>1, <2>3, <2>4, <3>1 DEF TurnInv, TypeOK, Small, RuntimeGoes, ThreadsGo
  <2>6. RunningTurn' /\ DoneTrue' /\ OverTrue' /\ Executing'
    BY <2>1, <2>4 DEF TurnInv, RunningTurn, RuntimeGoes, DoneTrue, OverTrue, TrueEvents, Executing
  <2>7. Unopened' /\ ChargedOnce'
    BY <2>1, <2>3, <2>4 DEF TurnInv, Unopened, ChargedOnce, RuntimeGoes
  <2>8. Dispatching' /\ ThreadsKnow'
    BY <1>2, <2>1, <2>4 DEF TurnInv, Dispatching, ThreadsKnow, ThreadsGo, RuntimeGoes
  <2>9. TurnsReallyOver'
    BY <2>2, <2>3, <2>4 DEF TurnInv, TurnsReallyOver, Ended
  <2> QED BY <2>5, <2>6, <2>7, <2>8, <2>9 DEF TurnInv
<1> QED BY <1>3, <1>4, Zenon DEF Confirm

\* Charging ends the run that fences the charge.
LEMMA ChargeKeeps ==
    ASSUME TurnInv, held' \subseteq Threads, NEW t \in Threads, Charge(t)
    PROVE  TurnInv'
<1>1. UNCHANGED <<op, outside>>
  BY DEF Charge
<1>2. ThreadsGo
  BY Here, ThreadMoves DEF Charge
<1>3. CASE UNCHANGED <<goal, rt, hist>>
  BY <1>1, <1>2, <1>3, RuntimeStill, PluginFrame DEF outside
<1> DEFINE r == IF rt.phase = "running" THEN releaseLease(rt) ELSE [rt EXCEPT !.cand = "none"]
           q == [r EXCEPT !.run = @ /\ ~thread[t].sure]
<1>4. CASE /\ rt.gen = thread[t].gen
           /\ thread[t].sure => rt.run /\ rt.phase = "running"
           /\ Failing(q)
           /\ hist' = IF thread[t].sure THEN [hist EXCEPT !.charged[rt.gen] = @ + 1] ELSE hist
  <2>0. rt \in Runtimes /\ goal \in [status : {"active", "paused", "blocked"}, manual : BOOLEAN]
    BY DEF TurnInv, TypeOK
  <2>1. Keeps(rt, r)
    BY <2>0, ReleaseKeeps, PlainFields
  <2>2. r \in Runtimes /\ thread[t].sure \in BOOLEAN
    BY <2>1, ThreadFields DEF Keeps
  <2> HIDE DEF r
  <2>3. Keeps(r, q) /\ (q.run => ~thread[t].sure)
    <3>1. CASE thread[t].sure
      <4>1. q = [r EXCEPT !.run = FALSE]
        BY <2>2, <3>1 DEF Runtimes
      <4> HIDE DEF q
      <4>2. ~q.run
        BY <2>2, <4>1 DEF Runtimes
      <4> QED BY <2>2, <4>1, <4>2, ClosingFields
    <3>2. CASE ~thread[t].sure
      <4>1. q = r
        BY <2>2, <3>2 DEF Runtimes
      <4> QED BY <2>2, <3>2, <4>1, KeepsStill
    <3> QED BY <3>1, <3>2
  <2>4. Keeps(rt, q)
    BY <2>1, <2>3, KeepsOn
  <2> HIDE DEF q
  <2>5. /\ Keeps(q, rt')
        /\ goal' \in [status : {"active", "paused", "blocked"}, manual : BOOLEAN]
    BY <1>4, <2>0, <2>4, FailingKeeps
  <2>6. RuntimeGoes /\ (rt'.run => ~thread[t].sure)
    BY <2>3, <2>4, <2>5, KeepsOn, KeepsGoes DEF Keeps
  <2>7. CASE ~thread[t].sure
    BY <1>1, <1>2, <1>4, <2>5, <2>6, <2>7, PluginFrame DEF outside
  <2>8. CASE thread[t].sure
    <3>1. rt.gen \in Turns /\ rt.run /\ ~rt'.run /\ rt'.gen = rt.gen
      BY <1>4, <2>6, <2>8 DEF TurnInv, RunningTurn, RuntimeGoes
    <3>2. hist.charged[rt.gen] = 0
      BY <3>1 DEF TurnInv, TypeOK, ChargedOnce
    <3>3. /\ hist'.complete = hist.complete
          /\ hist'.charged = [hist.charged EXCEPT ![rt.gen] = 1]
          /\ hist' \in [complete : SUBSET Turns, charged : [Turns -> Nat]]
      <4> DEFINE c == [hist.charged EXCEPT ![rt.gen] = hist.charged[rt.gen] + 1]
      <4>1. hist \in [complete : SUBSET Turns, charged : [Turns -> Nat]]
        BY DEF TurnInv, TypeOK
      <4>2. hist' = [hist EXCEPT !.charged = c]
        BY <1>4, <2>8, <4>1, Zenon
      <4>3. c = [hist.charged EXCEPT ![rt.gen] = 1]
        BY <3>2
      <4>4. c \in [Turns -> Nat]
        BY <3>1, <4>1, <4>3
      <4> HIDE DEF c
      <4> QED BY <4>1, <4>2, <4>3, <4>4
    <3>4. HostGoes /\ UNCHANGED <<host, wire>>
      BY <1>1, HostStill DEF outside
    <3>5. TypeOK'
      <4>1. Small
        BY <1>1, <2>5, SmallStill DEF outside
      <4> QED BY <1>2, <2>6, <3>3, <3>4, <4>1 DEF TurnInv, TypeOK, Small, RuntimeGoes, ThreadsGo
    <3>6. RunningTurn' /\ DoneTrue' /\ OverTrue' /\ Executing'
      BY <2>6, <3>4 DEF TurnInv, RunningTurn, RuntimeGoes, DoneTrue, OverTrue, TrueEvents, Executing
    <3>7. Dispatching' /\ ThreadsKnow'
      BY <1>2, <2>6, <3>4 DEF TurnInv, Dispatching, ThreadsKnow, ThreadsGo, RuntimeGoes
    <3>8. \A u \in Turns : hist'.charged[u] = IF u = rt.gen THEN 1 ELSE hist.charged[u]
      BY <3>3 DEF TurnInv, TypeOK
    <3>9. Unopened'
      BY <2>0, <3>1, <3>4, <3>8, TurnNames DEF TurnInv, Unopened, Runtimes
    <3>10. ChargedOnce'
      BY <3>1, <3>8 DEF TurnInv, ChargedOnce
    <3>11. TurnsReallyOver'
      BY <3>3, <3>4 DEF TurnInv, TurnsReallyOver
    <3> QED BY <3>5, <3>6, <3>7, <3>9, <3>10, <3>11 DEF TurnInv
  <2> QED BY <2>7, <2>8
<1> QED BY <1>3, <1>4, Zenon DEF Charge

LEMMA JudgeKeeps ==
    ASSUME TurnInv, held' \subseteq Threads, NEW t \in Threads, Judge(t)
    PROVE  TurnInv'
BY StageKeeps, InspectKeeps, StampKeeps, ConfirmKeeps, ChargeKeeps DEF Judge

-----------------------------------------------------------------------------
(* Events.                                                                  *)

\* The event that is handled is true, and what follows it stays.
LEMMA TakeFrame ==
    ASSUME TurnInv, held' \subseteq Threads, NEW kinds, Take(kinds), RuntimeGoes, ThreadsGo
    PROVE  TurnInv'
<1>1. wire' = Tail(wire) /\ wire # <<>> /\ UNCHANGED <<goal, op, fence, host, verbs, hist>>
  BY DEF Take
<1>2. wire' \in Seq(TrueEvents')
  <2>1. Tail(wire) \in Seq(TrueEvents)
    BY <1>1, TakeRemoves DEF TurnInv, OverTrue
  <2> QED BY <1>1, <2>1, HostStill, EndedStays, SeqMonotone
<1> QED BY <1>1, <1>2, HostStill, SmallStill, Frame

LEMMA EventTakes ==
    ASSUME TurnInv, NEW r \in ThreadRecords, thread' = [thread EXCEPT !["event"] = r], r.at = "charge"
    PROVE  ThreadsGo
<1>1. "event" \in Threads
  BY DEF Threads
<1> QED BY <1>1, ThreadTakes

LEMMA MessageActivityKeeps ==
    ASSUME TurnInv, held' \subseteq Threads, MessageActivity
    PROVE  TurnInv'
<1> DEFINE kinds == {"user", "step", "over", "empty", "part"}
           kind == Head(wire).kind
<1>1. Take(kinds)
  BY DEF MessageActivity
<1>2. Head(wire) \in TrueEvents
  BY <1>1, TakeRemoves DEF Take, TurnInv, OverTrue
<1>3. CASE UNCHANGED <<rt, thread>>
  BY <1>1, <1>3, RuntimeStill, ThreadsStill, TakeFrame
<1>4. CASE /\ rt' = recordActivity(rt)
           /\ thread' = [thread EXCEPT !["event"] =
                            [Rest EXCEPT !.at = "charge", !.gen = rt.gen, !.sure = rt.run]]
  <2>1. RuntimeGoes
    BY <1>4, ThreadFields, RecordKeeps, KeepsGoes
  <2> DEFINE r == [Rest EXCEPT !.at = "charge", !.gen = rt.gen, !.sure = rt.run]
  <2>2. rt.gen \in 0 .. MaxTurns /\ rt.run \in BOOLEAN
    BY ThreadFields, RuntimeFields
  <2>3. r \in ThreadRecords
    BY <2>2, RestTyped, Zenon DEF ThreadRecords, Places
  <2>4. r.at = "charge"
    BY RestTyped DEF ThreadRecords
  <2> HIDE DEF r
  <2>5. ThreadsGo
    <3>1. thread' = [thread EXCEPT !["event"] = r]
      BY <1>4 DEF r
    <3> QED BY <2>3, <2>4, <3>1, EventTakes
  <2> QED BY <1>1, <2>1, <2>5, TakeFrame
<1>5. CASE /\ Mine /\ UNCHANGED thread
           /\ rt' = CASE kind = "user" -> recordActivity(rt)
                      [] kind = "part" -> IF rt.done THEN rt ELSE recordActivity(rt)
                      [] OTHER -> [recordActivity(rt) EXCEPT !.done = kind = "over"]
  <2>0. rt \in Runtimes
    BY ThreadFields
  <2> DEFINE a == recordActivity(rt)
  <2>1. Keeps(rt, a) /\ a \in Runtimes
    BY <2>0, RecordKeeps DEF Keeps
  <2> HIDE DEF a
  <2>2. \/ rt' = a \/ rt' = rt
        \/ rt' = [a EXCEPT !.done = kind = "over"]
    <3>1. CASE kind = "user"
      BY <1>5, <3>1 DEF a
    <3>2. CASE kind = "part"
      BY <1>5, <3>2 DEF a
    <3>3. CASE kind # "user" /\ kind # "part"
      BY <1>5, <3>3 DEF a
    <3> QED BY <3>1, <3>2, <3>3
  <2>3. CASE rt' = a
    BY <1>1, <1>5, <2>1, <2>3, KeepsGoes, ThreadsStill, TakeFrame
  <2>4. CASE rt' = rt
    BY <1>1, <1>5, <2>4, RuntimeStill, ThreadsStill, TakeFrame
  <2>5. CASE rt' = [a EXCEPT !.done = kind = "over"]
    <3>1. /\ rt'.gen = a.gen /\ rt'.phase = a.phase /\ rt'.run = a.run
          /\ rt'.done = (kind = "over")
      BY <2>1, <2>5 DEF Runtimes
    <3>2. rt' \in Runtimes
      <4>1. (kind = "over") \in BOOLEAN
        OBVIOUS
      <4> HIDE DEF kind
      <4> QED BY <2>1, <2>5, <4>1, ZenonT(60) DEF Runtimes
    <3>3. kind = "over" => rt.gen \in Turns /\ host.out[rt.gen] \in Ended
      BY <1>2, <1>5 DEF TrueEvents, Mine
    <3>4. RuntimeGoes
      BY <2>1, <3>1, <3>2, <3>3 DEF Keeps, RuntimeGoes
    <3> QED BY <1>1, <1>5, <3>4, ThreadsStill, TakeFrame
  <2> QED BY <2>2, <2>3, <2>4, <2>5
<1> QED BY <1>3, <1>4, <1>5, Zenon DEF MessageActivity

LEMMA handleEventKeeps ==
    ASSUME TurnInv, held' \subseteq Threads, handleEvent
    PROVE  TurnInv'
<1>0. "event" \in Threads
  BY DEF Threads
<1>1. CASE MessageActivity
  BY <1>1, MessageActivityKeeps
<1>2. CASE SessionStatus
  <2>1. RuntimeGoes
    BY <1>2, ThreadFields, RecordKeeps, KeepsGoes, RuntimeStill DEF SessionStatus
  <2> QED BY <1>2, <2>1, ThreadsStill, TakeFrame DEF SessionStatus
<1>3. CASE SessionIdle
  <2>1. ThreadsGo
    BY <1>0, <1>3, Here, ThreadMoves, ThreadsStill DEF SessionIdle
  <2> QED BY <1>3, <2>1, RuntimeStill, TakeFrame DEF SessionIdle
<1>4. CASE SessionError
  <2> DEFINE r == [Rest EXCEPT !.at = "charge", !.gen = rt.gen]
  <2>1. rt.gen \in 0 .. MaxTurns
    BY ThreadFields, RuntimeFields
  <2>2. r \in ThreadRecords
    BY <2>1, RestTyped, Zenon DEF ThreadRecords, Places
  <2>3. r.at = "charge"
    BY RestTyped DEF ThreadRecords
  <2> HIDE DEF r
  <2>4. UNCHANGED thread \/ thread' = [thread EXCEPT !["event"] = r]
    BY <1>4 DEF SessionError, r
  <2>5. ThreadsGo
    BY <2>2, <2>3, <2>4, EventTakes, ThreadsStill
  <2> QED BY <1>4, <2>5, RuntimeStill, TakeFrame DEF SessionError
<1> QED BY <1>1, <1>2, <1>3, <1>4 DEF handleEvent

-----------------------------------------------------------------------------
(* The sweep and the owner.                                                 *)

LEMMA ThreadNames == "event" \in Threads /\ "sweep" \in Threads /\ "owner" \in Threads
BY DEF Threads

LEMMA UnknownTyped ==
    ASSUME NEW r \in Runtimes, NEW n \in 0 .. UnknownLimit
    PROVE  Keeps(r, [r EXCEPT !.unknown = n])
BY PlainFields

LEMMA ClearStaleKeeps == ASSUME TurnInv PROVE Keeps(rt, ClearStaleRun) /\ ClearStaleRun \in Runtimes
<1>1. Keeps(rt, ClearStaleRun)
  BY ThreadFields, ReleaseKeeps, KeepsStill DEF ClearStaleRun
<1> QED BY <1>1 DEF Keeps

LEMMA SnapshotTyped == ASSUME TurnInv PROVE Snapshot \in Snapshots
<1> DEFINE running == rt.phase = "running"
<1>1. /\ rt.phase \in {"none", "idle", "running", "waiting_retry"}
      /\ (IF running THEN rt.gen ELSE 0) \in 0 .. MaxTurns
  BY ThreadFields, RuntimeFields, LimitsAssumption
<1>2. /\ (rt.phase = "idle" /\ rt.run) \in BOOLEAN /\ (running /\ rt.quiet) \in BOOLEAN
      /\ (running /\ rt.failed = "old" /\ ~rt.idleTold) \in BOOLEAN
      /\ (running /\ rt.quiet /\ rt.run /\ ~rt.lease /\ ~rt.runTold) \in BOOLEAN
      /\ (rt.unknown > 0) \in BOOLEAN
  OBVIOUS
<1> QED BY <1>1, <1>2, ZenonT(60) DEF Snapshot, Snapshots

LEMMA SweepKeeps ==
    ASSUME TurnInv, held' \subseteq Threads, maintenance
    PROVE  TurnInv'
<1>0. rt \in Runtimes
  BY ThreadFields
<1>a. 0 \in 0 .. UnknownLimit
  BY LimitsAssumption
<1>1. CASE ClearLeak
  <2>1. Keeps(Closed(rt), rt')
    BY <1>0, <1>1, <1>a, ReleaseKeeps, UnknownTyped DEF ClearLeak, Keeps
  <2>2. RuntimeGoes
    BY <1>0, <2>1, ReleaseKeeps, KeepsOn, KeepsGoes
  <2> QED BY <1>1, <2>2, ThreadsStill, PluginFrame DEF ClearLeak, outside
<1>2. CASE SweepStart
  <2> DEFINE r == [Rest EXCEPT !.at = "swept", !.snap = Snapshot]
  <2>1. r \in ThreadRecords
    BY SnapshotTyped, RestTyped, Zenon DEF ThreadRecords, Places
  <2>2. r.at = "swept"
    BY RestTyped DEF ThreadRecords
  <2> HIDE DEF r
  <2>3. ThreadsGo
    <3>1. thread' = [thread EXCEPT !["sweep"] = r]
      BY <1>2 DEF SweepStart, r
    <3> QED BY <2>1, <2>2, <3>1, ThreadNames, ThreadTakes
  <2> QED BY <1>2, <2>3, RuntimeStill, PluginFrame DEF SweepStart, outside
<1>3. CASE RetryReady
  <2>1. ThreadsGo
    BY <1>3, Here, ThreadNames, ThreadMoves DEF RetryReady
  <2> DEFINE p == [rt EXCEPT !.phase = "idle"]
  <2>2. Keeps(rt, p) /\ p \in Runtimes
    BY <1>0, ClosingFields DEF Keeps
  <2>3. rt' = [p EXCEPT !.retry = "none"]
    BY <1>0, <1>3 DEF RetryReady, Runtimes
  <2> HIDE DEF p
  <2>4. RuntimeGoes
    BY <2>2, <2>3, PlainFields, KeepsOn, KeepsGoes
  <2> QED BY <1>3, <2>1, <2>4, PluginFrame DEF RetryReady, outside
<1>4. CASE StatusUnknown
  <2>1. ThreadsGo
    BY <1>4, Here, ThreadNames, ThreadMoves DEF StatusUnknown
  <2> DEFINE n == IF rt.unknown < UnknownLimit THEN rt.unknown + 1 ELSE UnknownLimit
  <2>2. n \in 0 .. UnknownLimit
    BY <1>0, RuntimeFields, LimitsAssumption
  <2>3. rt' = [ClearStaleRun EXCEPT !.unknown = n]
    BY <1>4 DEF StatusUnknown
  <2> HIDE DEF n
  <2>4. RuntimeGoes
    BY <2>2, <2>3, ClearStaleKeeps, UnknownTyped, KeepsOn, KeepsGoes
  <2> QED BY <1>4, <2>1, <2>4, PluginFrame DEF StatusUnknown, Verb, outside
<1>5. CASE ReadStatus
  <2>1. ThreadsGo
    <3>1. PICK l \in {"ask", "recover", "tell", "stage", "stuck", "rest"} :
             Go("sweep", l) \/ Then("sweep", l) \/ End("sweep")
      BY <1>5, Zenon DEF ReadStatus, Unconfirmed
    <3>2. l \in ElseWhere
      BY Here
    <3> QED BY <3>1, <3>2, ThreadNames, ThreadMoves
  <2>2. RuntimeGoes
    BY <1>5, <1>a, ClearStaleKeeps, UnknownTyped, KeepsOn, KeepsGoes DEF ReadStatus
  <2> QED BY <1>5, <2>1, <2>2, PluginFrame DEF ReadStatus, outside
<1>6. CASE IdleRecover
  <2>1. ThreadsGo
    <3>1. PICK l \in {"ask", "tell", "stage"} : Go("sweep", l) \/ Then("sweep", l)
      BY <1>6, Zenon DEF IdleRecover, Unconfirmed
    <3>2. l \in ElseWhere
      BY Here
    <3> QED BY <3>1, <3>2, ThreadNames, ThreadMoves
  <2>2. RuntimeGoes
    BY <1>0, <1>6, ReleaseKeeps, KeepsGoes, RuntimeStill DEF IdleRecover
  <2> QED BY <1>6, <2>1, <2>2, PluginFrame DEF IdleRecover, outside
<1>7. CASE IdleStuck
  <2>1. ThreadsGo
    BY <1>7, Here, ThreadNames, ThreadMoves DEF IdleStuck
  <2> DEFINE b == rt.idleTold \/ (rt.gen = Sweep.snap.gen /\ rt.phase = "running")
  <2>2. rt' = [rt EXCEPT !.idleTold = b] /\ b \in BOOLEAN
    BY <1>7 DEF IdleStuck
  <2> HIDE DEF b
  <2>3. RuntimeGoes
    BY <1>0, <2>2, PlainFields, KeepsGoes
  <2> QED BY <1>7, <2>1, <2>3, PluginFrame DEF IdleStuck, outside
<1>8. CASE RunStuck
  <2>1. ThreadsGo
    BY <1>8, Here, ThreadNames, ThreadMoves DEF RunStuck
  <2> DEFINE b == rt.runTold \/ (rt.run /\ rt.gen = Sweep.snap.gen)
  <2>2. rt' = [rt EXCEPT !.runTold = b] /\ b \in BOOLEAN
    BY <1>8 DEF RunStuck
  <2> HIDE DEF b
  <2>3. RuntimeGoes
    BY <1>0, <2>2, PlainFields, KeepsGoes
  <2> QED BY <1>8, <2>1, <2>3, PluginFrame DEF RunStuck, outside
<1> QED BY <1>1, <1>2, <1>3, <1>4, <1>5, <1>6, <1>7, <1>8 DEF maintenance

\* Aborting ends what executes.
LEMMA AbortKeeps ==
    ASSUME TurnInv, held' \subseteq Threads, Abort
    PROVE  TurnInv'
<1> DEFINE out == IF host.work \in Turns THEN Answered(host.work, "failed") ELSE host.out
<1>1. host' = [host EXCEPT !.work = None, !.gap = FALSE, !.tool = FALSE, !.out = out]
  BY Zenon DEF Abort
<1>2. out \in [Turns -> Outcomes]
  BY SessionFields DEF Answered, Outcomes
<1> HIDE DEF out
<1>3. host' \in Sessions
  BY <1>1, <1>2, SessionFields DEF Sessions
<1>4. host'.out = out /\ host'.work = None /\ host'.queue = host.queue
  BY <1>1, SessionFields DEF Sessions
<1>5. HostGoes
  <2>1. CASE host.work \in Turns
    BY <1>3, <1>4, <2>1, AnswersWork DEF out, Outcomes
  <2>2. CASE host.work \notin Turns
    BY <1>3, <1>4, <2>2, TurnNames, SameAnswers DEF out
  <2> QED BY <2>1, <2>2
<1>6. wire' \in Seq(TrueEvents')
  <2>1. CASE host.work = None
    BY <1>5, <2>1, WireStill DEF Abort
  <2>2. CASE host.work # None
    <3> DEFINE es == <<Event("error", host.work), Event("idle", host.work)>>
    <3>1. host.work \in Turns \cup {Foreign}
      BY <2>2, SessionFields
    <3>2. Event("error", host.work) \in TrueEvents' /\ Event("idle", host.work) \in TrueEvents'
      BY <3>1, EventNames
    <3>3. \A i \in DOMAIN es : es[i] \in TrueEvents'
      BY <3>2
    <3>4. Emit(es)
      BY <2>2 DEF Abort
    <3> QED BY <1>5, <3>3, <3>4, OldEvents, EmitAdds
  <2> QED BY <2>1, <2>2
<1>7. ThreadsGo
  BY Here, ThreadNames, ThreadMoves DEF Abort
<1>8. fence' \in [checks : BOOLEAN, await : BOOLEAN]
  BY DEF Abort, TurnInv, TypeOK
<1> QED BY <1>5, <1>6, <1>7, <1>8, RuntimeStill, SmallStill, Frame DEF Abort

LEMMA OwnerKeeps ==
    ASSUME TurnInv, held' \subseteq Threads, Owner
    PROVE  TurnInv'
<1>0. rt \in Runtimes /\ goal \in [status : {"active", "paused", "blocked"}, manual : BOOLEAN]
  BY DEF TurnInv, TypeOK
<1>1. CASE Wake
  <2>1. fence' \in [checks : BOOLEAN, await : BOOLEAN]
    BY <1>1 DEF Wake, TurnInv, TypeOK
  <2>2. UNCHANGED <<goal, rt, host, wire, hist, verbs>> /\ (UNCHANGED op \/ op' = "owner")
    BY <1>1 DEF Wake, nudgeUnlocked
  <2>3. ThreadsGo
    BY <1>1, Here, ThreadNames, ThreadMoves, ThreadsStill DEF Wake, nudgeUnlocked
  <2> QED BY <2>1, <2>2, <2>3, ThreadNames, RuntimeStill, PluginFrame
<1>2. CASE Reset
  <2>1. CASE Drop("owner")
    BY <2>1, ThreadNames, DropKeeps
  <2>2. CASE /\ rt' = [rt EXCEPT !.phase = "idle", !.run = FALSE, !.cand = "none", !.tools = {}]
             /\ Go("owner", "acquire") /\ UNCHANGED <<goal, op, outside, hist>>
    <3> DEFINE a == [rt EXCEPT !.phase = "idle"]
               b == [a EXCEPT !.run = FALSE]
               c == [b EXCEPT !.cand = "none"]
    <3>1. rt' = [c EXCEPT !.tools = {}]
      BY <1>0, <2>2 DEF Runtimes
    <3>2. Keeps(rt, a) /\ a \in Runtimes
      BY <1>0, ClosingFields DEF Keeps
    <3> HIDE DEF a
    <3>3. Keeps(a, b) /\ b \in Runtimes
      BY <3>2, ClosingFields DEF Keeps
    <3> HIDE DEF b
    <3>4. Keeps(b, c) /\ c \in Runtimes
      BY <3>3, PlainFields DEF Keeps
    <3> HIDE DEF c
    <3>5. Keeps(c, rt')
      BY <3>1, <3>4, PlainFields
    <3>6. RuntimeGoes
      BY <3>2, <3>3, <3>4, <3>5, KeepsOn, KeepsGoes
    <3>7. ThreadsGo
      BY <2>2, Here, ThreadNames, ThreadMoves
    <3> QED BY <2>2, <3>6, <3>7, PluginFrame DEF outside
  <2> QED BY <1>2, <2>1, <2>2, Zenon DEF Reset
<1>3. CASE Pause
  <2>1. goal' \in [status : {"active", "paused", "blocked"}, manual : BOOLEAN]
    BY <1>0, <1>3 DEF Pause
  <2>2. RuntimeGoes
    BY <1>0, <1>3, ReleaseKeeps, KeepsGoes DEF Pause
  <2>3. ThreadsGo
    BY <1>3, Here, ThreadNames, ThreadMoves DEF Pause
  <2> QED BY <1>3, <2>1, <2>2, <2>3, ThreadNames, PluginFrame DEF Pause, Verb
<1>4. CASE Abort
  BY <1>4, AbortKeeps
<1>5. CASE Resume
  <2>1. goal' \in [status : {"active", "paused", "blocked"}, manual : BOOLEAN]
    BY <1>0, <1>5 DEF Resume
  <2>2. ThreadsGo
    BY <1>5, Here, ThreadNames, ThreadMoves DEF Resume
  <2> QED BY <1>5, <2>1, <2>2, ThreadNames, RuntimeStill, PluginFrame DEF Resume, Verb
<1>6. CASE setInteractive
  <2>1. goal' \in [status : {"active", "paused", "blocked"}, manual : BOOLEAN]
    BY <1>0, <1>6 DEF setInteractive
  <2> QED BY <1>6, <2>1, RuntimeStill, ThreadsStill, PluginFrame DEF setInteractive, Verb
<1> QED BY <1>1, <1>2, <1>3, <1>4, <1>5, <1>6 DEF Owner
-----------------------------------------------------------------------------
LEMMA StepTurn == TurnInv /\ [Next]_vars => TurnInv'
<1> SUFFICES ASSUME TurnInv, [Next]_vars PROVE TurnInv'
  OBVIOUS
<1>1. CASE Next
  <2>1. held' \subseteq Threads
    BY <1>1 DEF Next
  <2>2. CASE Worker \/ Time \/ handleEvent \/ maintenance \/ Owner
    BY <2>1, <2>2, WorkerKeeps, TimeKeeps, handleEventKeeps, SweepKeeps, OwnerKeeps
  <2>3. CASE \E t \in Threads : Continue(t) \/ Judge(t)
    BY <2>1, <2>3, ContinueKeeps, JudgeKeeps
  <2> QED BY <1>1, <2>2, <2>3 DEF Next, Step
<1>2. CASE UNCHANGED vars
  <2>1. UNCHANGED <<goal, op, fence, verbs, host, wire, hist>> /\ held' \subseteq Threads
    BY <1>2 DEF vars, TurnInv, TypeOK
  <2> QED BY <1>2, <2>1, RuntimeStill, ThreadsStill, PluginFrame DEF vars
<1> QED BY <1>1, <1>2

LEMMA TurnInvariant == Spec => []TurnInv
BY InitTurn, StepTurn, PTL DEF Spec

\* Every variable keeps holding values of its kind, whatever is lost or late.
THEOREM TypeCorrect == Spec => []TypeOK
<1>1. TurnInv => TypeOK
  BY DEF TurnInv
<1> QED BY <1>1, TurnInvariant, PTL

\* A turn that handleSessionIdle records complete has ended for good on the
\* host: of any number of turns, with any events lost, any transcript reads
\* failing and any owner's call in between.
THEOREM TurnsOver == Spec => []TurnsReallyOver
<1>1. TurnInv => TurnsReallyOver
  BY DEF TurnInv
<1> QED BY <1>1, TurnInvariant, PTL

\* A turn the host closed without output is never recorded complete, and
\* handleMessageActivity and the sweep charge it at most once between them.
THEOREM OutputlessCharged == Spec => []OutputlessFails
<1>1. TurnInv => OutputlessFails
  BY DEF TurnInv, TurnsReallyOver, ChargedOnce, OutputlessFails
<1> QED BY <1>1, TurnInvariant, PTL
=============================================================================
