------------------------ MODULE CommandSession_proofs ------------------------
(***************************************************************************)
(* Theorems about managed command sessions, for any callers, commands,      *)
(* specs and bounds.                                                        *)
(***************************************************************************)
EXTENDS CommandSession, FiniteSetTheorems, WellFoundedInduction, TLAPS

LEMMA NoCommand == 0 \notin Commands /\ Commands \subseteq 0 .. MaxCommands /\ 0 \in 0 .. MaxCommands
BY BoundsAssumption DEF Commands

LEMMA ThreadNames ==
    /\ Plugin \in Threads /\ Callers \subseteq Threads
    /\ \A c \in Commands : <<"queue", c>> \in Threads /\ <<"timer", c>> \in Threads
BY DEF Threads, Queue, Timer

LEMMA Blanks ==
    /\ Blank \in CommandRecords
    /\ [Blank EXCEPT !.st = "gone"] \in CommandRecords
    /\ Idle \in ThreadRecords /\ Idle \in ThreadStates
    /\ None \in AwaitRecords
    /\ NoWatcher \in Watchers
    /\ \A w \in Watch : NewWatcher(w) \in Watchers
    /\ NoTodo \in Plans
    /\ NoTimers \in Timers
<1>1. Blank \in CommandRecords
  BY DEF Blank, CommandRecords, Watch, Outcomes
<1>2. [Blank EXCEPT !.st = "gone"] \in CommandRecords
  BY <1>1, Zenon DEF CommandRecords
<1>3. Idle \in ThreadRecords
  BY NoCommand DEF Idle, ThreadRecords, Labels, Resting, Reasons, Watch
<1>4. Idle \in ThreadStates
  BY <1>3 DEF Idle, ThreadStates, Resting
<1>5. None \in AwaitRecords
  BY DEF None, AwaitRecords
<1>6. NoWatcher \in Watchers
  BY DEF NoWatcher, Watchers, Watch
<1>7. NoTodo \in Plans
  BY DEF NoTodo, Plans
<1>8. \A w \in Watch : NewWatcher(w) \in Watchers
  BY <1>6 DEF NewWatcher, Watchers
<1>9. NoTimers \in Timers
  BY DEF NoTimers, Timers
<1> QED
  BY <1>1, <1>2, <1>3, <1>4, <1>5, <1>6, <1>7, <1>8, <1>9

LEMMA RecordFields ==
    ASSUME NEW r \in CommandRecords
    PROVE  /\ \A x \in {"none", "running", "gone"} \cup Stopped : [r EXCEPT !.st = x] \in CommandRecords
           /\ \A x \in Watch : [r EXCEPT !.watch = x] \in CommandRecords
           /\ \A x \in {"none", "SIGINT", "SIGTERM", "SIGKILL"} : [r EXCEPT !.sig = x] \in CommandRecords
           /\ \A x \in Outcomes : [r EXCEPT !.reason = x] \in CommandRecords
           /\ \A x \in BOOLEAN : /\ [r EXCEPT !.limit = x] \in CommandRecords
                                 /\ [r EXCEPT !.always = x] \in CommandRecords
                                 /\ [r EXCEPT !.hit = x] \in CommandRecords
                                 /\ [r EXCEPT !.told = x] \in CommandRecords
                                 /\ [r EXCEPT !.kept = x] \in CommandRecords
                                 /\ [r EXCEPT !.detached = x] \in CommandRecords
<1>1. \A x \in {"none", "running", "gone"} \cup Stopped : [r EXCEPT !.st = x] \in CommandRecords
  BY Zenon DEF CommandRecords
<1>2. \A x \in Watch : [r EXCEPT !.watch = x] \in CommandRecords
  BY Zenon DEF CommandRecords
<1>3. \A x \in {"none", "SIGINT", "SIGTERM", "SIGKILL"} : [r EXCEPT !.sig = x] \in CommandRecords
  BY Zenon DEF CommandRecords
<1>4. \A x \in Outcomes : [r EXCEPT !.reason = x] \in CommandRecords
  BY Zenon DEF CommandRecords
<1>5. \A x \in BOOLEAN : [r EXCEPT !.limit = x] \in CommandRecords
  BY Zenon DEF CommandRecords
<1>6. \A x \in BOOLEAN : [r EXCEPT !.always = x] \in CommandRecords
  BY Zenon DEF CommandRecords
<1>7. \A x \in BOOLEAN : [r EXCEPT !.hit = x] \in CommandRecords
  BY Zenon DEF CommandRecords
<1>8. \A x \in BOOLEAN : [r EXCEPT !.told = x] \in CommandRecords
  BY Zenon DEF CommandRecords
<1>9. \A x \in BOOLEAN : [r EXCEPT !.kept = x] \in CommandRecords
  BY Zenon DEF CommandRecords
<1>10. \A x \in BOOLEAN : [r EXCEPT !.detached = x] \in CommandRecords
  BY Zenon DEF CommandRecords
<1> QED
  BY <1>1, <1>2, <1>3, <1>4, <1>5, <1>6, <1>7, <1>8, <1>9, <1>10

LEMMA OtherFields ==
    /\ \A r \in ThreadRecords, l \in Labels : [r EXCEPT !.at = l] \in ThreadRecords
    /\ \A r \in ThreadRecords, c \in 0 .. MaxCommands : [r EXCEPT !.cmd = c] \in ThreadRecords
    /\ \A r \in ThreadRecords, w \in Reasons : [r EXCEPT !.why = w] \in ThreadRecords
    /\ \A r \in ThreadRecords, n \in Nat : [r EXCEPT !.hand = n] \in ThreadRecords
    /\ \A r \in Watchers, n \in Nat : /\ [r EXCEPT !.pend = n] \in Watchers
                                     /\ [r EXCEPT !.st = "matched", !.pend = n] \in Watchers
    /\ \A r \in Timers, S \in SUBSET Commands : /\ [r EXCEPT !.deadline = S] \in Timers
                                                /\ [r EXCEPT !.flush = S] \in Timers
                                                /\ [r EXCEPT !.notice = S] \in Timers
    /\ \A r \in Timers, S \in SUBSET Commands, f \in [Commands -> Nat] :
           /\ [r EXCEPT !.notice = S, !.tries = f] \in Timers
           /\ [r EXCEPT !.tries = f, !.notice = S] \in Timers
           /\ [r EXCEPT !.flush = S, !.notice = S, !.tries = f] \in Timers
<1>1. \A r \in ThreadRecords, l \in Labels : [r EXCEPT !.at = l] \in ThreadRecords
  BY Zenon DEF ThreadRecords
<1>2. \A r \in ThreadRecords, c \in 0 .. MaxCommands : [r EXCEPT !.cmd = c] \in ThreadRecords
  BY Zenon DEF ThreadRecords
<1>3. \A r \in ThreadRecords, w \in Reasons : [r EXCEPT !.why = w] \in ThreadRecords
  BY Zenon DEF ThreadRecords
<1>4. \A r \in ThreadRecords, n \in Nat : [r EXCEPT !.hand = n] \in ThreadRecords
  BY Zenon DEF ThreadRecords
<1>5. \A r \in Watchers, n \in Nat : [r EXCEPT !.pend = n] \in Watchers
  BY Zenon DEF Watchers
<1>9. \A r \in Watchers, n \in Nat : [r EXCEPT !.st = "matched", !.pend = n] \in Watchers
  <2>1. "matched" \in {"none", "active", "matched"}
    OBVIOUS
  <2> QED
    BY <2>1, Zenon DEF Watchers
<1>10. \A r \in Timers, S \in SUBSET Commands, f \in [Commands -> Nat] :
          [r EXCEPT !.notice = S, !.tries = f] \in Timers
  BY Zenon DEF Timers
<1>11. \A r \in Timers, S \in SUBSET Commands, f \in [Commands -> Nat] :
          [r EXCEPT !.tries = f, !.notice = S] \in Timers
  BY Zenon DEF Timers
<1>12. \A r \in Timers, S \in SUBSET Commands, f \in [Commands -> Nat] :
          [r EXCEPT !.flush = S, !.notice = S, !.tries = f] \in Timers
  BY Zenon DEF Timers
<1>6. \A r \in Timers, S \in SUBSET Commands : [r EXCEPT !.deadline = S] \in Timers
  BY Zenon DEF Timers
<1>7. \A r \in Timers, S \in SUBSET Commands : [r EXCEPT !.flush = S] \in Timers
  BY Zenon DEF Timers
<1>8. \A r \in Timers, S \in SUBSET Commands : [r EXCEPT !.notice = S] \in Timers
  BY Zenon DEF Timers
<1> QED
  BY <1>1, <1>2, <1>3, <1>4, <1>5, <1>6, <1>7, <1>8, <1>9, <1>10, <1>11, <1>12

LEMMA InitType == Init => TypeOK
<1> SUFFICES ASSUME Init PROVE TypeOK
  OBVIOUS
<1>1. rec \in [Commands -> CommandRecords] /\ thread \in [Threads -> ThreadStates] /\ todo \in Plans
  BY Blanks DEF Init
<1>2. waits \in [Commands -> AwaitRecords]
  BY DEF Init, AwaitRecords
<1>3. queue \in [Commands -> Seq(Operation)]
  BY DEF Init
<1>4. watcher \in [Commands -> Watchers] /\ armed \in Timers
  BY Blanks DEF Init
<1>5. bound \in BoundRecords /\ HistTyped(hist)
  BY BoundsAssumption DEF Init, BoundRecords, HistTyped
<1> QED
  BY <1>1, <1>2, <1>3, <1>4, <1>5 DEF Init, TypeOK
-----------------------------------------------------------------------------
(* Where a thread goes: the one thread that moves, its label and command.   *)

Goes(t, l, c) ==
    /\ thread' \in [Threads -> ThreadStates]
    /\ \A u \in Threads \ {t} : thread'[u] = thread[u]
    /\ thread'[t].at = l /\ thread'[t].cmd = c

Parameterised == {"watch", "enlist", "register"}

LEMMA Moves ==
    ASSUME TypeOK, NEW t \in Threads, NEW r \in ThreadRecords, thread' = [thread EXCEPT ![t] = r],
           r.at \notin Resting => r.cmd \in Commands,
           r.at = "watch" => r.why \in Watch,
           r.at \in {"enlist", "register"} => r.why \in {"exit", "until"}
    PROVE  Goes(t, r.at, r.cmd)
<1>1. r \in ThreadStates
  BY DEF ThreadStates
<1> QED
  BY <1>1 DEF TypeOK, Goes

LEMMA GotoGoes ==
    ASSUME TypeOK, NEW t \in Threads, NEW l \in Labels \ Parameterised, thread[t].at \notin Resting \/ l \in Resting, Goto(t, l)
    PROVE  Goes(t, l, thread[t].cmd)
<1>1. thread[t] \in ThreadRecords /\ (thread[t].at \notin Resting => thread[t].cmd \in Commands)
  BY DEF TypeOK, ThreadStates
<1>2. PICK r \in ThreadRecords : r = [thread[t] EXCEPT !.at = l]
  BY <1>1, OtherFields
<1>3. r.at = l /\ r.cmd = thread[t].cmd
  BY <1>1, <1>2 DEF ThreadRecords
<1>4. thread' = [thread EXCEPT ![t] = r]
  BY <1>2 DEF Goto
<1>5. Goes(t, r.at, r.cmd)
  BY <1>1, <1>3, <1>4, Moves DEF Parameterised
<1> QED
  BY <1>3, <1>5

LEMMA WhyGoes ==
    ASSUME TypeOK, NEW t \in Threads, NEW l \in Labels \ Parameterised, NEW w \in Reasons, thread[t].at \notin Resting,
           thread' = [thread EXCEPT ![t].at = l, ![t].why = w]
    PROVE  Goes(t, l, thread[t].cmd)
<1>1. thread[t] \in ThreadRecords /\ thread[t].cmd \in Commands
  BY DEF TypeOK, ThreadStates
<1>2. PICK q \in ThreadRecords : q = [thread[t] EXCEPT !.at = l]
  BY <1>1, OtherFields
<1>3. PICK r \in ThreadRecords : r = [q EXCEPT !.why = w]
  BY OtherFields
<1>4. r.at = l /\ r.cmd = thread[t].cmd
  BY <1>1, <1>2, <1>3 DEF ThreadRecords
<1>5. thread' = [thread EXCEPT ![t] = r]
  BY <1>2, <1>3 DEF TypeOK
<1>6. Goes(t, r.at, r.cmd)
  BY <1>1, <1>4, <1>5, Moves DEF Parameterised
<1> QED
  BY <1>4, <1>6

LEMMA HandGoes ==
    ASSUME TypeOK, NEW t \in Threads, NEW l \in Labels \ Parameterised, NEW n \in Nat, thread[t].at \notin Resting,
           thread' = [thread EXCEPT ![t].at = l, ![t].hand = n]
    PROVE  Goes(t, l, thread[t].cmd)
<1>1. thread[t] \in ThreadRecords /\ thread[t].cmd \in Commands
  BY DEF TypeOK, ThreadStates
<1>2. PICK q \in ThreadRecords : q = [thread[t] EXCEPT !.at = l]
  BY <1>1, OtherFields
<1>3. PICK r \in ThreadRecords : r = [q EXCEPT !.hand = n]
  BY OtherFields
<1>4. r.at = l /\ r.cmd = thread[t].cmd
  BY <1>1, <1>2, <1>3 DEF ThreadRecords
<1>5. thread' = [thread EXCEPT ![t] = r]
  BY <1>2, <1>3 DEF TypeOK
<1>6. Goes(t, r.at, r.cmd)
  BY <1>1, <1>4, <1>5, Moves DEF Parameterised
<1> QED
  BY <1>4, <1>6

LEMMA BeginGoes ==
    ASSUME TypeOK, NEW t \in Threads, NEW l \in Labels, NEW c \in Commands, NEW w \in Reasons,
           l = "watch" => w \in Watch, l \in {"enlist", "register"} => w \in {"exit", "until"},
           \/ thread' = [thread EXCEPT ![t] = [Idle EXCEPT !.at = l, !.cmd = c, !.why = w]]
           \/ thread' = [thread EXCEPT ![t] = [Idle EXCEPT !.cmd = c, !.why = w, !.at = l]]
    PROVE  Goes(t, l, c)
<1>1. ASSUME NEW r, r = [Idle EXCEPT !.at = l, !.cmd = c, !.why = w] \/ r = [Idle EXCEPT !.cmd = c, !.why = w, !.at = l]
      PROVE  r \in ThreadRecords /\ r.at = l /\ r.cmd = c /\ r.why = w
  <2>1. c \in 0 .. MaxCommands /\ l \in Labels /\ w \in Reasons
    BY NoCommand
  <2>2. r \in ThreadRecords
    BY <1>1, <2>1, Blanks, Zenon DEF ThreadRecords
  <2> QED
    BY <1>1, <2>2 DEF Idle
<1>2. PICK r : /\ r = [Idle EXCEPT !.at = l, !.cmd = c, !.why = w] \/ r = [Idle EXCEPT !.cmd = c, !.why = w, !.at = l]
               /\ thread' = [thread EXCEPT ![t] = r]
  OBVIOUS
<1>3. r \in ThreadRecords /\ r.at = l /\ r.cmd = c /\ r.why = w
  BY <1>1, <1>2
<1>4. Goes(t, r.at, r.cmd)
  BY <1>2, <1>3, Moves
<1> QED
  BY <1>3, <1>4

Returns(t) == \E l \in Resting : Goes(t, l, 0)

LEMMA ReturnReturns ==
    ASSUME TypeOK, NEW t \in Threads, Return(t)
    PROVE  Returns(t)
<1>1. \A l \in Resting : /\ [Idle EXCEPT !.at = l] \in ThreadRecords
                         /\ [Idle EXCEPT !.at = l].at = l /\ [Idle EXCEPT !.at = l].cmd = 0
  BY Blanks, OtherFields DEF Idle, Labels
<1>2. Idle.at \in Resting /\ Idle.cmd = 0 /\ Idle \in ThreadRecords
  BY Blanks DEF Idle, Resting
<1>3. \E r \in ThreadRecords : thread' = [thread EXCEPT ![t] = r] /\ r.at \in Resting /\ r.cmd = 0
  <2>1. CASE t = Plugin /\ thread[t].why = "control"
    BY <1>1, <2>1 DEF Return, Resting
  <2>2. CASE t = Plugin /\ thread[t].why # "control"
    BY <1>1, <2>2 DEF Return, Resting
  <2>3. CASE t # Plugin
    BY <1>2, <2>3 DEF Return
  <2> QED
    BY <2>1, <2>2, <2>3
<1>4. PICK r \in ThreadRecords : thread' = [thread EXCEPT ![t] = r] /\ r.at \in Resting /\ r.cmd = 0
  BY <1>3
<1>5. Goes(t, r.at, r.cmd)
  BY <1>4, Moves DEF Resting
<1> QED
  BY <1>4, <1>5 DEF Returns

\* The end of a call, or one of its next labels with the same command.
Proceeds(t, L) == Returns(t) \/ \E l \in L : Goes(t, l, thread[t].cmd)

LEMMA AfterStopProceeds ==
    ASSUME TypeOK, NEW t \in Threads, thread[t].at \notin Resting, AfterStop(t)
    PROVE  Proceeds(t, {"stamp", "restart", "remove"})
<1>1. Goto(t, "stamp") \/ Goto(t, "restart") \/ Goto(t, "remove") \/ Return(t)
  BY Zenon DEF AfterStop
<1> QED
  BY <1>1, GotoGoes, ReturnReturns DEF Proceeds, Labels, Parameterised

LEMMA RefuseProceeds ==
    ASSUME TypeOK, NEW t \in Threads, thread[t].at \notin Resting, Refuse(t)
    PROVE  Proceeds(t, {"stamp", "restart", "remove"})
BY AfterStopProceeds, ReturnReturns DEF Refuse, Proceeds

LEMMA AfterNotifyProceeds ==
    ASSUME TypeOK, NEW t \in Threads, thread[t].at \notin Resting, AfterNotify(t)
    PROVE  Proceeds(t, {"stamp", "restart", "remove"})
<1>1. AfterStop(t) \/ Return(t)
  BY Zenon DEF AfterNotify
<1> QED
  BY <1>1, AfterStopProceeds, ReturnReturns DEF Proceeds

LEMMA AfterFireProceeds ==
    ASSUME TypeOK, NEW t \in Threads, thread[t].at \notin Resting, AfterFire(t)
    PROVE  Proceeds(t, {"notify"})
BY GotoGoes, ReturnReturns DEF AfterFire, Proceeds, Labels, Parameterised

LEMMA BoundsType ==
    ASSUME TypeOK,
           \/ Spend("verbs", MaxVerbs) \/ Spend("lines", MaxLines)
           \/ Refused \/ \E what \in {"start", "dispose", "crash"} : Fails(what)
           \/ UNCHANGED bound
    PROVE  bound' \in BoundRecords
<1>1. bound \in BoundRecords /\ bound.verbs \in 0 .. MaxVerbs /\ bound.lines \in 0 .. MaxLines /\ bound.faults \in 0 .. MaxFaults
  BY DEF TypeOK, BoundRecords
<1>2. \A r \in BoundRecords : /\ \A n \in 0 .. MaxVerbs : [r EXCEPT !.verbs = n] \in BoundRecords
                              /\ \A n \in 0 .. MaxLines : [r EXCEPT !.lines = n] \in BoundRecords
  BY Zenon DEF BoundRecords
<1>3. \A r \in BoundRecords, m \in 0 .. MaxVerbs, n \in 0 .. MaxFaults :
          [r EXCEPT !.verbs = m, !.faults = n] \in BoundRecords
  BY Zenon DEF BoundRecords
<1>4. CASE Spend("verbs", MaxVerbs)
  <2>1. bound.verbs + 1 \in 0 .. MaxVerbs
    BY <1>1, <1>4, BoundsAssumption DEF Spend
  <2>2. bound' = [bound EXCEPT !.verbs = bound.verbs + 1]
    BY <1>4, Zenon DEF Spend
  <2> QED
    BY <1>1, <1>2, <2>1, <2>2
<1>5. CASE Spend("lines", MaxLines)
  <2>1. bound.lines + 1 \in 0 .. MaxLines
    BY <1>1, <1>5, BoundsAssumption DEF Spend
  <2>2. bound' = [bound EXCEPT !.lines = bound.lines + 1]
    BY <1>5, Zenon DEF Spend
  <2> QED
    BY <1>1, <1>2, <2>1, <2>2
<1>7. CASE Refused
  <2>1. bound.faults + 1 \in 0 .. MaxFaults
    BY <1>1, <1>7, BoundsAssumption DEF Refused, Spend
  <2>2. bound' = [bound EXCEPT !.faults = bound.faults + 1]
    BY <1>7, Zenon DEF Refused, Spend
  <2>3. \A n \in 0 .. MaxFaults : [bound EXCEPT !.faults = n] \in BoundRecords
    BY <1>1, Zenon DEF BoundRecords
  <2> QED
    BY <2>1, <2>2, <2>3
<1>6. CASE \E what \in {"start", "dispose", "crash"} : Fails(what)
  <2>1. bound.verbs + 1 \in 0 .. MaxVerbs /\ bound.faults + 1 \in 0 .. MaxFaults
    BY <1>1, <1>6, BoundsAssumption DEF Fails
  <2>2. bound' = [bound EXCEPT !.verbs = bound.verbs + 1, !.faults = bound.faults + 1]
    BY <1>6, Zenon DEF Fails
  <2> QED
    BY <1>1, <1>3, <2>1, <2>2
<1> QED
  BY <1>1, <1>4, <1>5, <1>6, <1>7

LEMMA TimersType ==
    ASSUME TypeOK, NEW c \in Commands
    PROVE  /\ [armed EXCEPT !.deadline = @ \ {c}] \in Timers
           /\ [armed EXCEPT !.deadline = @ \cup {c}] \in Timers
           /\ [armed EXCEPT !.flush = @ \ {c}] \in Timers
           /\ [armed EXCEPT !.flush = @ \cup {c}] \in Timers
           /\ [armed EXCEPT !.notice = @ \ {c}] \in Timers
           /\ [armed EXCEPT !.notice = @ \cup {c}] \in Timers
           /\ clearNotifyRetry(c) \in Timers
           /\ [clearNotifyRetry(c) EXCEPT !.flush = @ \ {c}] \in Timers
           /\ \A S \in SUBSET Commands :
                  [armed EXCEPT !.tries[c] = @ + 1, !.notice = S] \in Timers
           /\ Disarm(c) \in Timers
<1>1. armed \in Timers /\ armed.deadline \in SUBSET Commands /\ armed.flush \in SUBSET Commands /\ armed.notice \in SUBSET Commands
  BY DEF TypeOK, Timers
<1>2. /\ armed.deadline \ {c} \in SUBSET Commands /\ armed.deadline \cup {c} \in SUBSET Commands
      /\ armed.flush \ {c} \in SUBSET Commands /\ armed.flush \cup {c} \in SUBSET Commands
      /\ armed.notice \ {c} \in SUBSET Commands /\ armed.notice \cup {c} \in SUBSET Commands
      /\ {} \in SUBSET Commands
  BY <1>1
<1>3. \A r \in Timers, S, T \in SUBSET Commands :
          [r EXCEPT !.deadline = S, !.flush = T] \in Timers
  BY Zenon DEF Timers
<1>9. /\ [armed.tries EXCEPT ![c] = 0] \in [Commands -> Nat]
      /\ [armed.tries EXCEPT ![c] = @ + 1] \in [Commands -> Nat]
  BY DEF TypeOK, Timers
<1>4. Disarm(c) = [armed EXCEPT !.deadline = armed.deadline \ {c}, !.flush = armed.flush \ {c}]
  BY Zenon DEF Disarm
<1>5. /\ [armed EXCEPT !.deadline = @ \ {c}] \in Timers /\ [armed EXCEPT !.deadline = @ \cup {c}] \in Timers
      /\ [armed EXCEPT !.flush = @ \ {c}] \in Timers /\ [armed EXCEPT !.flush = @ \cup {c}] \in Timers
      /\ [armed EXCEPT !.notice = @ \ {c}] \in Timers /\ [armed EXCEPT !.notice = @ \cup {c}] \in Timers
  BY <1>1, <1>2, OtherFields, Zenon
<1>6. clearNotifyRetry(c) \in Timers /\ [clearNotifyRetry(c) EXCEPT !.flush = @ \ {c}] \in Timers
  <2>1. clearNotifyRetry(c) = [armed EXCEPT !.notice = armed.notice \ {c}, !.tries = [armed.tries EXCEPT ![c] = 0]]
    BY DEF clearNotifyRetry
  <2>5. [armed EXCEPT !.notice = armed.notice \ {c}, !.tries = [armed.tries EXCEPT ![c] = 0]] \in Timers
    BY <1>1, <1>2, <1>9, OtherFields, Zenon
  <2>2. clearNotifyRetry(c) \in Timers
    BY <2>1, <2>5, Zenon
  <2>3. clearNotifyRetry(c).flush \ {c} \in SUBSET Commands
    BY <2>2 DEF Timers
  <2>4. [clearNotifyRetry(c) EXCEPT !.flush = clearNotifyRetry(c).flush \ {c}] \in Timers
    BY <2>2, <2>3, OtherFields
  <2> QED
    BY <2>2, <2>4, Zenon
<1>10. \A S \in SUBSET Commands : [armed EXCEPT !.tries[c] = @ + 1, !.notice = S] \in Timers
  <2>1. \A S \in SUBSET Commands : [armed EXCEPT !.tries[c] = @ + 1, !.notice = S]
            = [armed EXCEPT !.tries = [armed.tries EXCEPT ![c] = @ + 1], !.notice = S]
    OBVIOUS
  <2>2. \A S \in SUBSET Commands : [armed EXCEPT !.tries = [armed.tries EXCEPT ![c] = @ + 1], !.notice = S] \in Timers
    BY <1>1, <1>9, OtherFields, Zenon
  <2> QED
    BY <2>1, <2>2
<1>8. Disarm(c) \in Timers
  <2>1. [armed EXCEPT !.deadline = armed.deadline \ {c}, !.flush = armed.flush \ {c}] \in Timers
    BY <1>1, <1>2, <1>3, Zenon
  <2> QED
    BY <1>4, <2>1, Zenon
<1> QED
  BY <1>5, <1>6, <1>8, <1>10

LEMMA HistsType ==
    ASSUME TypeOK
    PROVE  /\ \A x : HistTyped([hist EXCEPT !.owed = x])
           /\ \A c \in Commands : HistTyped([hist EXCEPT !.pings[c] = @ + 1])
           /\ \A x : \A S \in SUBSET Commands : HistTyped([hist EXCEPT !.owed = x, !.unmarked = S])
<1> DEFINE H(x) == [owed : {x}, pings : [Commands -> Nat], unmarked : SUBSET Commands]
<1>1. hist \in H(hist.owed) /\ hist.pings \in [Commands -> Nat]
  BY DEF TypeOK, HistTyped
<1>2. \A x : [hist EXCEPT !.owed = x] \in H(x) /\ [hist EXCEPT !.owed = x].owed = x
  <2>1. \A x : [hist EXCEPT !.owed = x] \in H(x)
    BY <1>1, Zenon
  <2> QED
    BY <2>1
<1>3. \A x : \A S \in SUBSET Commands : [hist EXCEPT !.owed = x, !.unmarked = S] \in H(x) /\ [hist EXCEPT !.owed = x, !.unmarked = S].owed = x
  <2>1. \A x : \A S \in SUBSET Commands : [hist EXCEPT !.owed = x, !.unmarked = S] \in H(x)
    BY <1>1, Zenon
  <2> QED
    BY <2>1
<1>4. \A f \in [Commands -> Nat] : [hist EXCEPT !.pings = f] \in H(hist.owed) /\ [hist EXCEPT !.pings = f].owed = hist.owed
  <2>1. \A f \in [Commands -> Nat] : [hist EXCEPT !.pings = f] \in H(hist.owed)
    BY <1>1, Zenon
  <2> QED
    BY <2>1
<1>5. \A c \in Commands : [hist.pings EXCEPT ![c] = @ + 1] \in [Commands -> Nat]
  BY <1>1
<1>6. \A c \in Commands : [hist EXCEPT !.pings[c] = @ + 1] = [hist EXCEPT !.pings = [hist.pings EXCEPT ![c] = @ + 1]]
  BY Zenon
<1>7. \A x : HistTyped([hist EXCEPT !.owed = x])
  BY <1>2, Zenon DEF HistTyped
<1>8. \A c \in Commands : HistTyped([hist EXCEPT !.pings[c] = @ + 1])
  <2> TAKE c \in Commands
  <2>1. PICK f \in [Commands -> Nat] : [hist EXCEPT !.pings[c] = @ + 1] = [hist EXCEPT !.pings = f]
    BY <1>5, <1>6, Zenon
  <2> QED
    BY <1>4, <2>1, Zenon DEF HistTyped
<1>9. \A x : \A S \in SUBSET Commands : HistTyped([hist EXCEPT !.owed = x, !.unmarked = S])
  BY <1>3, Zenon DEF HistTyped
<1> QED
  BY <1>7, <1>8, <1>9

LEMMA WaitsType ==
    ASSUME TypeOK, NEW c \in Commands
    PROVE  /\ waits[c] \in AwaitRecords /\ waits[c].exit \in Nat /\ waits[c].until \in Nat /\ Outstanding(c) \in Nat
           /\ [waits EXCEPT ![c] = None] \in [Commands -> AwaitRecords]
           /\ [waits EXCEPT ![c].until = 0] \in [Commands -> AwaitRecords]
           /\ [waits EXCEPT ![c].until = @ + 1] \in [Commands -> AwaitRecords]
           /\ [waits EXCEPT ![c].exit = @ + 1] \in [Commands -> AwaitRecords]
<1>1. waits \in [Commands -> AwaitRecords] /\ waits[c] \in AwaitRecords /\ waits[c].exit \in Nat /\ waits[c].until \in Nat
  BY DEF TypeOK, AwaitRecords
<1>2. Outstanding(c) \in Nat
  BY <1>1 DEF Outstanding
<1>3. \A r \in AwaitRecords, n \in Nat : [r EXCEPT !.until = n] \in AwaitRecords /\ [r EXCEPT !.exit = n] \in AwaitRecords
  BY Zenon DEF AwaitRecords
<1>4. 0 \in Nat /\ waits[c].until + 1 \in Nat /\ waits[c].exit + 1 \in Nat
  BY <1>1
<1>5. \A r \in AwaitRecords : [waits EXCEPT ![c] = r] \in [Commands -> AwaitRecords]
  BY <1>1
<1>6. /\ [waits EXCEPT ![c].until = 0] = [waits EXCEPT ![c] = [waits[c] EXCEPT !.until = 0]]
      /\ [waits EXCEPT ![c].until = @ + 1] = [waits EXCEPT ![c] = [waits[c] EXCEPT !.until = waits[c].until + 1]]
      /\ [waits EXCEPT ![c].exit = @ + 1] = [waits EXCEPT ![c] = [waits[c] EXCEPT !.exit = waits[c].exit + 1]]
  BY Zenon
<1> QED
  BY <1>1, <1>2, <1>3, <1>4, <1>5, <1>6, Blanks

LEMMA EnlistType ==
    ASSUME TypeOK, NEW c \in Commands, NEW kind \in {"exit", "until"}, Enlist(c, kind)
    PROVE  waits' \in [Commands -> AwaitRecords] /\ HistTyped(hist')
<1>1. hist' = [hist EXCEPT !.owed = @ + 1]
  BY DEF Enlist
<1>2. waits' = [waits EXCEPT ![c].until = @ + 1] \/ waits' = [waits EXCEPT ![c].exit = @ + 1]
  BY Zenon DEF Enlist
<1>3. HistTyped(hist')
  BY <1>1, HistsType, Zenon
<1>4. waits' \in [Commands -> AwaitRecords]
  BY <1>2, WaitsType, Zenon
<1> QED
  BY <1>3, <1>4

LEMMA QueueType ==
    ASSUME TypeOK, NEW c \in Commands
    PROVE  /\ \A op \in Operation : [queue EXCEPT ![c] = Append(@, op)] \in [Commands -> Seq(Operation)]
           /\ [queue EXCEPT ![c] = <<>>] \in [Commands -> Seq(Operation)]
           /\ queue[c] # <<>> => [queue EXCEPT ![c] = Tail(@)] \in [Commands -> Seq(Operation)]
<1>1. queue \in [Commands -> Seq(Operation)] /\ queue[c] \in Seq(Operation)
  BY DEF TypeOK
<1>2. \A s \in Seq(Operation) : [queue EXCEPT ![c] = s] \in [Commands -> Seq(Operation)]
  BY <1>1
<1>3. \A op \in Operation : Append(queue[c], op) \in Seq(Operation)
  BY <1>1
<1>4. queue[c] # <<>> => Tail(queue[c]) \in Seq(Operation)
  BY <1>1
<1> QED
  BY <1>1, <1>2, <1>3, <1>4
LEMMA CallsNamed ==
    ASSUME TypeOK, NEW t \in Threads, CallStep(t)
    PROVE  thread[t].at \notin Resting /\ thread[t].cmd \in Commands
<1>1. thread[t].at \notin Resting
  BY DEF CallStep, At, Resting, Restart, Spawn, RecordStart, StartFails, ReleaseStart, rollbackStart, Judge, MissingSignalled,
     Claim, Signal, Escalate, Waited, Finalize, Stamp, KillJudge, ClaimKill, SignalKill, WaitedKill, FinalizeKill,
     fireCommandAwaits, Deliver, fireUntilAwaits, EnlistOver, Register, Recheck, NotifyEnter, Decide, Send, MarkTold,
     RemoveJudge, RemoveRecord, clearAwaitsForCommand, RecordWatch
<1> QED
  BY <1>1 DEF TypeOK, ThreadStates

LEMMA FreshRecord ==
    ASSUME NEW w \in Watch, NEW l \in BOOLEAN, NEW a \in BOOLEAN
    PROVE  /\ [Blank EXCEPT !.watch = w, !.limit = l, !.always = a] \in CommandRecords
           /\ [Blank EXCEPT !.watch = w, !.limit = l, !.always = a].st = "none"
           /\ ~[Blank EXCEPT !.watch = w, !.limit = l, !.always = a].told
<1>1. [Blank EXCEPT !.watch = w, !.limit = l, !.always = a] \in CommandRecords
  BY Blanks, Zenon DEF CommandRecords
<1>2. [Blank EXCEPT !.watch = w, !.limit = l, !.always = a].st = "none"
  BY DEF Blank
<1>3. ~[Blank EXCEPT !.watch = w, !.limit = l, !.always = a].told
  BY DEF Blank
<1> QED
  BY <1>1, <1>2, <1>3

LEMMA WorkGoes ==
    ASSUME TypeOK, NEW c \in Commands, NEW l \in Labels \ Parameterised, NEW w \in Reasons, Work(c, l, w)
    PROVE  Goes(<<"queue", c>>, l, c)
BY BeginGoes, ThreadNames DEF Work, Parameterised

LEMMA TurnGoes ==
    ASSUME TypeOK, NEW c \in Commands, NEW l \in Labels \ Parameterised, NEW w \in Reasons, Turn(c, l, w)
    PROVE  Goes(Plugin, l, c)
BY BeginGoes, ThreadNames DEF Turn, Parameterised

LEMMA FeedType ==
    ASSUME TypeOK, NEW c \in Commands, FeedOutput(c)
    PROVE  watcher' \in [Commands -> Watchers]
<1>1. feedChunk(c) \in Watchers
  <2>1. PICK w \in Watchers : w = IF watcher[c].st = "none" /\ rec[c].st = "running" /\ rec[c].watch # "none"
                                 THEN NewWatcher(rec[c].watch) ELSE watcher[c]
    BY Blanks DEF TypeOK, CommandRecords
  <2>2. feedChunk(c) = CASE w.st = "none" -> w
          [] w.st = "active" /\ w.watch \in {"keep", "stop"} -> [w EXCEPT !.st = "matched", !.pend = @ + 1]
          [] w.st = "matched" /\ w.watch = "stop" -> w
          [] OTHER -> [w EXCEPT !.pend = @ + 1]
    BY <2>1, Zenon DEF feedChunk
  <2>3. w.pend + 1 \in Nat
    BY DEF Watchers
  <2>4. [w EXCEPT !.st = "matched", !.pend = w.pend + 1] \in Watchers /\ [w EXCEPT !.pend = w.pend + 1] \in Watchers
    BY <2>3, OtherFields
  <2> QED
    BY <2>2, <2>4, Zenon
<1> QED
  BY <1>1 DEF FeedOutput, TypeOK

LEMMA FedNames == \A c \in Commands : Fed(c) \in {"unwatched", "matched", "until", "output"}
BY DEF Fed

LEMMA TakeType ==
    ASSUME TypeOK, NEW c \in Commands, NEW op, Ready(c, op), Take(c)
    PROVE  queue' \in [Commands -> Seq(Operation)]
BY QueueType DEF Ready, Take

LEMMA AppendType ==
    ASSUME TypeOK, NEW c \in Commands, NEW op \in Operation,
           queue' = [queue EXCEPT ![c] = Append(@, op)] \/ Hears(c, op) \/ UNCHANGED queue
    PROVE  queue' \in [Commands -> Seq(Operation)]
<1>1. queue' = [queue EXCEPT ![c] = Append(@, op)] \/ queue' = [queue EXCEPT ![c] = queue[c]] \/ queue' = queue
  BY Zenon DEF Hears
<1>2. queue \in [Commands -> Seq(Operation)] /\ [queue EXCEPT ![c] = queue[c]] = queue
  BY DEF TypeOK
<1>3. [queue EXCEPT ![c] = Append(@, op)] \in [Commands -> Seq(Operation)]
  BY QueueType
<1>4. CASE queue' = [queue EXCEPT ![c] = Append(@, op)]
  BY <1>3, <1>4, Zenon
<1>5. CASE queue' = [queue EXCEPT ![c] = queue[c]] \/ queue' = queue
  BY <1>2, <1>5
<1> QED
  BY <1>1, <1>4, <1>5

LEMMA RecordsType ==
    ASSUME TypeOK, NEW c \in Commands
    PROVE  /\ rec \in [Commands -> CommandRecords] /\ rec[c] \in CommandRecords
           /\ \A r \in CommandRecords : [rec EXCEPT ![c] = r] \in [Commands -> CommandRecords]
           /\ \A x \in {"none", "running", "gone"} \cup Stopped : [rec EXCEPT ![c].st = x] \in [Commands -> CommandRecords]
           /\ \A x \in {"none", "SIGINT", "SIGTERM", "SIGKILL"} : [rec EXCEPT ![c].sig = x] \in [Commands -> CommandRecords]
           /\ \A x \in Outcomes : [rec EXCEPT ![c].reason = x] \in [Commands -> CommandRecords]
           /\ \A x \in BOOLEAN : /\ [rec EXCEPT ![c].hit = x] \in [Commands -> CommandRecords]
                                 /\ [rec EXCEPT ![c].told = x] \in [Commands -> CommandRecords]
                                 /\ [rec EXCEPT ![c].kept = x] \in [Commands -> CommandRecords]
                                 /\ [rec EXCEPT ![c].detached = x] \in [Commands -> CommandRecords]
<1>1. rec \in [Commands -> CommandRecords] /\ rec[c] \in CommandRecords
  BY DEF TypeOK
<1>2. \A r \in CommandRecords : [rec EXCEPT ![c] = r] \in [Commands -> CommandRecords]
  BY <1>1
<1>3. \A x : /\ [rec EXCEPT ![c].st = x] = [rec EXCEPT ![c] = [rec[c] EXCEPT !.st = x]]
            /\ [rec EXCEPT ![c].sig = x] = [rec EXCEPT ![c] = [rec[c] EXCEPT !.sig = x]]
            /\ [rec EXCEPT ![c].reason = x] = [rec EXCEPT ![c] = [rec[c] EXCEPT !.reason = x]]
            /\ [rec EXCEPT ![c].hit = x] = [rec EXCEPT ![c] = [rec[c] EXCEPT !.hit = x]]
            /\ [rec EXCEPT ![c].told = x] = [rec EXCEPT ![c] = [rec[c] EXCEPT !.told = x]]
            /\ [rec EXCEPT ![c].kept = x] = [rec EXCEPT ![c] = [rec[c] EXCEPT !.kept = x]]
            /\ [rec EXCEPT ![c].detached = x] = [rec EXCEPT ![c] = [rec[c] EXCEPT !.detached = x]]
  BY Zenon
<1>4. \A x \in {"none", "running", "gone"} \cup Stopped : [rec EXCEPT ![c].st = x] \in [Commands -> CommandRecords]
  BY <1>1, <1>2, <1>3, RecordFields
<1>5. \A x \in {"none", "SIGINT", "SIGTERM", "SIGKILL"} : [rec EXCEPT ![c].sig = x] \in [Commands -> CommandRecords]
  BY <1>1, <1>2, <1>3, RecordFields
<1>6. \A x \in Outcomes : [rec EXCEPT ![c].reason = x] \in [Commands -> CommandRecords]
  BY <1>1, <1>2, <1>3, RecordFields
<1>7. \A x \in BOOLEAN : /\ [rec EXCEPT ![c].hit = x] \in [Commands -> CommandRecords]
                         /\ [rec EXCEPT ![c].told = x] \in [Commands -> CommandRecords]
                         /\ [rec EXCEPT ![c].kept = x] \in [Commands -> CommandRecords]
                         /\ [rec EXCEPT ![c].detached = x] \in [Commands -> CommandRecords]
  BY <1>1, <1>2, <1>3, RecordFields
<1> QED
  BY <1>1, <1>2, <1>4, <1>5, <1>6, <1>7

LEMMA EndedType ==
    ASSUME TypeOK, NEW c \in Commands, NEW how
    PROVE  Ended(c, how) \in CommandRecords
BY RecordFields DEF TypeOK, Ended, Outcomes, Stopped

LEMMA LabelNames ==
    /\ {"rest", "read", "loop", "dispose"} \subseteq Labels \ Parameterised
    /\ {"rest", "read", "loop", "dispose"} \subseteq Resting
    /\ {"spawn", "record", "release", "rollback", "restart", "persist", "fireUntil", "exit",
        "ask", "claim", "signal", "wait", "finish", "foundDead", "signalled", "stamp",
        "askKill", "claimKill", "kill", "waitKill", "finishKill", "recheck", "fire", "deliver",
        "notify", "decide", "send", "mark", "remove", "removing", "clearing"} \subseteq Labels \ Parameterised
    /\ Parameterised \subseteq Labels
BY DEF Labels, Resting, Parameterised

LEMMA ReasonNames ==
    /\ Watch \subseteq Reasons
    /\ {"start", "output", "unwatched", "matched", "until", "recheck", "exit", "exited", "signalled", "terminate", "kill", "restart", "remove",
        "timeout", "timed out", "stopped", "await", "again", "boot", "control"} \subseteq Reasons
BY DEF Reasons

LEMMA RecordEdits ==
    ASSUME NEW r \in CommandRecords
    PROVE  /\ \A x \in {"none", "SIGINT", "SIGTERM", "SIGKILL"}, o \in Outcomes : [r EXCEPT !.sig = x, !.reason = o] \in CommandRecords
           /\ \A x \in {"none", "running", "gone"} \cup Stopped, o \in Outcomes : [r EXCEPT !.st = x, !.reason = o] \in CommandRecords
           /\ \A x, y \in BOOLEAN : [r EXCEPT !.hit = x, !.told = y] \in CommandRecords
           /\ \A w \in Watch, x \in BOOLEAN : [r EXCEPT !.watch = w, !.hit = x] \in CommandRecords
<1>1. \A x \in {"none", "SIGINT", "SIGTERM", "SIGKILL"}, o \in Outcomes : [r EXCEPT !.sig = x, !.reason = o] \in CommandRecords
  BY Zenon DEF CommandRecords
<1>2. \A x \in {"none", "running", "gone"} \cup Stopped, o \in Outcomes : [r EXCEPT !.st = x, !.reason = o] \in CommandRecords
  BY Zenon DEF CommandRecords
<1>3. \A x, y \in BOOLEAN : [r EXCEPT !.hit = x, !.told = y] \in CommandRecords
  BY Zenon DEF CommandRecords
<1>4. \A w \in Watch, x \in BOOLEAN : [r EXCEPT !.watch = w, !.hit = x] \in CommandRecords
  BY Zenon DEF CommandRecords
<1> QED
  BY <1>1, <1>2, <1>3, <1>4

LEMMA RecordValues ==
    ASSUME TypeOK, NEW c \in Commands
    PROVE  /\ rec[c].st \in {"none", "running", "gone"} \cup Stopped /\ rec[c].watch \in Watch /\ rec[c].reason \in Outcomes
           /\ rec[c].sig \in {"none", "SIGINT", "SIGTERM", "SIGKILL"}
           /\ rec[c].limit \in BOOLEAN /\ rec[c].always \in BOOLEAN /\ rec[c].hit \in BOOLEAN /\ rec[c].told \in BOOLEAN
           /\ rec[c].kept \in BOOLEAN /\ rec[c].detached \in BOOLEAN
           /\ Known(c) \in BOOLEAN
BY DEF TypeOK, CommandRecords, Known

LEMMA OutcomeNames == {"none", "exit", "terminate", "timeout", "until", "missing"} \subseteq Outcomes
BY DEF Outcomes

LEMMA CloseType ==
    ASSUME TypeOK, NEW c \in Commands, NEW s \in Stopped, NEW o \in Outcomes, Close(c, s, o)
    PROVE  rec' \in [Commands -> CommandRecords] /\ armed' \in Timers /\ live' \in SUBSET Commands
<1>1. armed' \in Timers
  BY TimersType DEF Close
<1>2. live' \in SUBSET Commands
  BY DEF Close, TypeOK
<1>3. CASE rec[c].st # "running"
  <2>1. rec' = [rec EXCEPT ![c] = rec[c]]
    BY <1>3, Zenon DEF Close
  <2> QED
    BY <1>1, <1>2, <2>1, RecordsType
<1>4. CASE rec[c].st = "running" /\ rec[c].reason = "timeout"
  <2>1. rec' = [rec EXCEPT ![c] = [rec[c] EXCEPT !.st = s, !.reason = "timeout"]]
    BY <1>4, Zenon DEF Close
  <2>2. [rec[c] EXCEPT !.st = s, !.reason = "timeout"] \in CommandRecords
    BY RecordsType, RecordEdits, OutcomeNames
  <2> QED
    BY <1>1, <1>2, <2>1, <2>2, RecordsType
<1>5. CASE rec[c].st = "running" /\ rec[c].reason # "timeout"
  <2>1. rec' = [rec EXCEPT ![c] = [rec[c] EXCEPT !.st = s, !.reason = o]]
    BY <1>5, Zenon DEF Close
  <2>2. [rec[c] EXCEPT !.st = s, !.reason = o] \in CommandRecords
    BY RecordsType, RecordEdits
  <2> QED
    BY <1>1, <1>2, <2>1, <2>2, RecordsType
<1> QED
  BY <1>3, <1>4, <1>5

LEMMA TypeCall ==
    ASSUME TypeOK, NEW t \in Threads, CallStep(t)
    PROVE  TypeOK'
<1>0. thread[t].at \notin Resting /\ thread[t].cmd \in Commands
  BY CallsNamed
<1>1. CASE Restart(t)
  <2>1. rec' \in [Commands -> CommandRecords]
    <3>1. CASE UNCHANGED rec
      BY <3>1 DEF TypeOK
    <3>2. CASE \E c \in Commands : rec' = [rec EXCEPT ![c] = [Blank EXCEPT !.watch = rec[thread[t].cmd].watch,
                          !.limit = rec[thread[t].cmd].limit, !.always = rec[thread[t].cmd].always]]
      <4>1. [Blank EXCEPT !.watch = rec[thread[t].cmd].watch, !.limit = rec[thread[t].cmd].limit,
                          !.always = rec[thread[t].cmd].always] \in CommandRecords
        BY <1>1, <1>0, FreshRecord, RecordValues
      <4> QED
        BY <3>2, <4>1 DEF TypeOK
    <3> QED
      BY <1>1, <1>0, <3>1, <3>2, Zenon DEF Restart
  <2>2. thread' \in [Threads -> ThreadStates]
    <3>1. Return(t) \/ \E c \in Commands : thread' = [thread EXCEPT ![t] = [Idle EXCEPT !.at = "spawn", !.cmd = c, !.why = "start"]]
      BY <1>1, <1>0 DEF Restart
    <3>2. \A c \in Commands : thread' = [thread EXCEPT ![t] = [Idle EXCEPT !.at = "spawn", !.cmd = c, !.why = "start"]] => Goes(t, "spawn", c)
      BY BeginGoes, LabelNames, ReasonNames
    <3> QED
      BY <3>1, <3>2, ReturnReturns DEF Goes, Returns
  <2> QED
    BY <1>1, <2>1, <2>2 DEF Restart, TypeOK, stored, memory
<1>2. CASE Spawn(t)
  <2>1. proc' \in [Commands -> {"none", "alive", "termed", "killed", "dead"}]
    BY <1>2, <1>0 DEF Spawn, TypeOK, stored, memory
  <2>2. thread' \in [Threads -> ThreadStates]
    BY <1>2, <1>0, GotoGoes DEF Spawn, At, Goes, Resting, Labels, Parameterised, stored, memory
  <2> QED
    BY <1>2, <2>1, <2>2 DEF Spawn, TypeOK, stored, memory
<1>3. CASE RecordStart(t)
  <2>1. rec' \in [Commands -> CommandRecords]
    BY <1>3, <1>0, RecordsType, RecordFields, Blanks DEF RecordStart, Outcomes, Stopped, stored, memory
  <2>2. thread' \in [Threads -> ThreadStates]
    BY <1>3, <1>0, GotoGoes DEF RecordStart, At, Goes, Resting, Labels, Parameterised, stored, memory
  <2> QED
    BY <1>3, <2>1, <2>2 DEF RecordStart, TypeOK, stored, memory
<1>4. CASE StartFails(t)
  <2>1. rec' \in [Commands -> CommandRecords]
    <3>1. UNCHANGED rec \/ rec' = [rec EXCEPT ![thread[t].cmd] = [Blank EXCEPT !.st = "gone"]]
      BY <1>4, <1>0 DEF StartFails
    <3>2. rec \in [Commands -> CommandRecords] /\ \A r \in CommandRecords : [rec EXCEPT ![thread[t].cmd] = r] \in [Commands -> CommandRecords]
      BY <1>4, <1>0, RecordsType
    <3> QED
      BY <3>1, <3>2, Blanks, Zenon
  <2>2. bound' \in BoundRecords
    BY <1>4, <1>0, BoundsType DEF StartFails, stored, memory
  <2>3. thread' \in [Threads -> ThreadStates]
    BY <1>4, <1>0, GotoGoes, ReturnReturns DEF StartFails, At, Returns, Goes, Resting, Labels, Parameterised, stored, memory
  <2> QED
    BY <1>4, <2>1, <2>2, <2>3 DEF StartFails, TypeOK, stored, memory
<1>5. CASE ReleaseStart(t)
  <2>1. watcher' \in [Commands -> Watchers]
    BY <1>5, <1>0, Blanks DEF ReleaseStart, TypeOK, CommandRecords, stored, memory
  <2>2. armed' \in Timers
    <3>1. armed' = [armed EXCEPT !.deadline = @ \cup {thread[t].cmd}] \/ armed' = [armed EXCEPT !.deadline = @]
      BY <1>5, <1>0, Zenon DEF ReleaseStart
    <3>2. [armed EXCEPT !.deadline = @] = armed /\ armed \in Timers
      BY DEF TypeOK, Timers
    <3> QED
      BY <1>5, <1>0, <3>1, <3>2, TimersType, Zenon
  <2>3. thread' \in [Threads -> ThreadStates]
    BY <1>5, <1>0, ReturnReturns DEF ReleaseStart, Returns, Goes, stored, memory
  <2> QED
    BY <1>5, <2>1, <2>2, <2>3 DEF ReleaseStart, TypeOK, stored, memory
<1>6. CASE rollbackStart(t)
  <2>1. rec' \in [Commands -> CommandRecords]
    BY <1>6, <1>0, RecordsType, RecordFields, Blanks DEF rollbackStart, Outcomes, Stopped, stored, memory
  <2>2. proc' \in [Commands -> {"none", "alive", "termed", "killed", "dead"}]
    BY <1>6, <1>0 DEF rollbackStart, TypeOK, stored, memory
  <2>3. queue' \in [Commands -> Seq(Operation)]
    BY <1>6, <1>0, QueueType DEF rollbackStart, stored, memory
  <2>4. thread' \in [Threads -> ThreadStates]
    BY <1>6, <1>0, ReturnReturns DEF rollbackStart, Returns, Goes, stored, memory
  <2> QED
    BY <1>6, <2>1, <2>2, <2>3, <2>4 DEF rollbackStart, TypeOK, stored, memory
<1>7. CASE Judge(t)
  <2>1. proc' \in [Commands -> {"none", "alive", "termed", "killed", "dead"}]
    BY <1>7, <1>0 DEF Judge, TypeOK, stored, memory
  <2>2. thread' \in [Threads -> ThreadStates]
    BY <1>7, <1>0, GotoGoes, AfterStopProceeds, RefuseProceeds, AfterNotifyProceeds, AfterFireProceeds, ReturnReturns DEF Judge, At, Proceeds, Returns, Goes, Resting, Labels, Parameterised, stored, memory
  <2> QED
    BY <1>7, <2>1, <2>2 DEF Judge, TypeOK, stored, memory
<1>8. CASE MissingSignalled(t)
  <2>1. orphans' \in SUBSET Commands
    BY <1>8, <1>0 DEF MissingSignalled, TypeOK, stored, memory
  <2>2. thread' \in [Threads -> ThreadStates]
    BY <1>8, <1>0, GotoGoes, AfterStopProceeds, RefuseProceeds, AfterNotifyProceeds, AfterFireProceeds, ReturnReturns DEF MissingSignalled, At, Proceeds, Returns, Goes, Resting, Labels, Parameterised, stored, memory
  <2> QED
    BY <1>8, <2>1, <2>2 DEF MissingSignalled, TypeOK, stored, memory
<1>9. CASE Claim(t)
  <2>1. rec' \in [Commands -> CommandRecords]
    <3> DEFINE c == thread[t].cmd
    <3>1. CASE rec[c].st # "running"
      <4>1. rec' = [rec EXCEPT ![c] = rec[c]]
        BY <1>9, <1>0, <3>1, Zenon DEF Claim
      <4> QED
        BY <1>9, <1>0, <4>1, RecordsType
    <3>2. CASE rec[c].st = "running"
      <4>1. \E o \in Outcomes : rec' = [rec EXCEPT ![c] = [rec[c] EXCEPT !.sig = "SIGTERM", !.reason = o]]
        <5>1. CASE rec[c].reason # "timeout" /\ rec[c].hit /\ StopsOnMatch(rec[c].watch)
          <6>1. rec' = [rec EXCEPT ![c] = [rec[c] EXCEPT !.sig = "SIGTERM", !.reason = "until"]]
            BY <1>9, <1>0, <3>2, <5>1, Zenon DEF Claim
          <6> QED
            BY <6>1, OutcomeNames
        <5>2. CASE ~(rec[c].reason # "timeout" /\ rec[c].hit /\ StopsOnMatch(rec[c].watch))
          <6>1. rec' = [rec EXCEPT ![c] = [rec[c] EXCEPT !.sig = "SIGTERM", !.reason = rec[c].reason]]
            BY <1>9, <1>0, <3>2, <5>2, Zenon DEF Claim
          <6> QED
            BY <1>9, <1>0, <6>1, RecordValues
        <5> QED
          BY <5>1, <5>2
      <4>2. \A o \in Outcomes : [rec[c] EXCEPT !.sig = "SIGTERM", !.reason = o] \in CommandRecords
        BY <1>9, <1>0, RecordsType, RecordEdits
      <4>3. \A r \in CommandRecords : [rec EXCEPT ![c] = r] \in [Commands -> CommandRecords]
        BY <1>9, <1>0, RecordsType
      <4> QED
        BY <4>1, <4>2, <4>3, Zenon
    <3> QED
      BY <3>1, <3>2
  <2>2. thread' \in [Threads -> ThreadStates]
    BY <1>9, <1>0, GotoGoes DEF Claim, At, Goes, Resting, Labels, Parameterised, stored, memory
  <2> QED
    BY <1>9, <2>1, <2>2 DEF Claim, TypeOK, stored, memory
<1>10. CASE Signal(t)
  <2>1. proc' \in [Commands -> {"none", "alive", "termed", "killed", "dead"}]
    BY <1>10, <1>0 DEF Signal, TypeOK, stored, memory
  <2>2. thread' \in [Threads -> ThreadStates]
    BY <1>10, <1>0, GotoGoes DEF Signal, At, Goes, Resting, Labels, Parameterised, stored, memory
  <2> QED
    BY <1>10, <2>1, <2>2 DEF Signal, TypeOK, stored, memory
<1>11. CASE Escalate(t)
  <2>1. proc' \in [Commands -> {"none", "alive", "termed", "killed", "dead"}]
    BY <1>11, <1>0 DEF Escalate, TypeOK, stored, memory
  <2> QED
    BY <1>11, <2>1 DEF Escalate, TypeOK, stored, memory
<1>12. CASE Waited(t)
  <2>1. thread' \in [Threads -> ThreadStates]
    BY <1>12, <1>0, GotoGoes DEF Waited, At, Goes, Resting, Labels, Parameterised, stored, memory
  <2> QED
    BY <1>12, <2>1 DEF Waited, TypeOK, stored, memory
<1>13. CASE Finalize(t)
  <2>1. rec' \in [Commands -> CommandRecords]
    <3>1. \E s \in Stopped, o \in Outcomes : Close(thread[t].cmd, s, o)
      BY <1>13, <1>0, OutcomeNames, Zenon DEF Finalize, Stopped
    <3> QED
      BY <1>13, <1>0, <3>1, CloseType
  <2>2. armed' \in Timers
    <3>1. \E s \in Stopped, o \in Outcomes : Close(thread[t].cmd, s, o)
      BY <1>13, <1>0, OutcomeNames, Zenon DEF Finalize, Stopped
    <3> QED
      BY <1>13, <1>0, <3>1, CloseType
  <2>3. thread' \in [Threads -> ThreadStates]
    BY <1>13, <1>0, GotoGoes DEF Finalize, At, Goes, Resting, Labels, Parameterised, stored, memory
  <2> QED
    BY <1>13, <2>1, <2>2, <2>3 DEF Finalize, TypeOK, stored, memory, Close
<1>14. CASE Stamp(t)
  <2>1. rec' \in [Commands -> CommandRecords]
    <3>1. \E o \in Outcomes : rec' = [rec EXCEPT ![thread[t].cmd].reason = o]
      BY <1>14, <1>0, OutcomeNames, RecordValues DEF Stamp
    <3>2. \A x \in Outcomes : [rec EXCEPT ![thread[t].cmd].reason = x] \in [Commands -> CommandRecords]
      BY <1>14, <1>0, RecordsType
    <3> QED
      BY <3>1, <3>2, Zenon
  <2>2. thread' \in [Threads -> ThreadStates]
    BY <1>14, <1>0, WhyGoes DEF Stamp, At, Goes, Labels, Resting, Parameterised, Reasons, stored, memory
  <2> QED
    BY <1>14, <2>1, <2>2 DEF Stamp, TypeOK, stored, memory
<1>15. CASE KillJudge(t)
  <2>1. proc' \in [Commands -> {"none", "alive", "termed", "killed", "dead"}]
    BY <1>15, <1>0 DEF KillJudge, TypeOK, stored, memory
  <2>2. thread' \in [Threads -> ThreadStates]
    BY <1>15, <1>0, GotoGoes, ReturnReturns DEF KillJudge, At, Returns, Goes, Resting, Labels, Parameterised, stored, memory
  <2> QED
    BY <1>15, <2>1, <2>2 DEF KillJudge, TypeOK, stored, memory
<1>16. CASE ClaimKill(t)
  <2>1. rec' \in [Commands -> CommandRecords]
    <3>1. \E x \in {"none", "SIGINT", "SIGTERM", "SIGKILL"} : rec' = [rec EXCEPT ![thread[t].cmd].sig = x]
      BY <1>16, <1>0, RecordValues DEF ClaimKill
    <3>2. \A x \in {"none", "SIGINT", "SIGTERM", "SIGKILL"} : [rec EXCEPT ![thread[t].cmd].sig = x] \in [Commands -> CommandRecords]
      BY <1>16, <1>0, RecordsType
    <3> QED
      BY <3>1, <3>2, Zenon
  <2>2. thread' \in [Threads -> ThreadStates]
    BY <1>16, <1>0, GotoGoes DEF ClaimKill, At, Goes, Resting, Labels, Parameterised, stored, memory
  <2> QED
    BY <1>16, <2>1, <2>2 DEF ClaimKill, TypeOK, stored, memory
<1>17. CASE SignalKill(t)
  <2>1. proc' \in [Commands -> {"none", "alive", "termed", "killed", "dead"}]
    BY <1>17, <1>0 DEF SignalKill, TypeOK, stored, memory
  <2>2. thread' \in [Threads -> ThreadStates]
    BY <1>17, <1>0, GotoGoes DEF SignalKill, At, Goes, Resting, Labels, Parameterised, stored, memory
  <2> QED
    BY <1>17, <2>1, <2>2 DEF SignalKill, TypeOK, stored, memory
<1>18. CASE WaitedKill(t)
  <2>1. thread' \in [Threads -> ThreadStates]
    BY <1>18, <1>0, GotoGoes DEF WaitedKill, At, Goes, Resting, Labels, Parameterised, stored, memory
  <2> QED
    BY <1>18, <2>1 DEF WaitedKill, TypeOK, stored, memory
<1>19. CASE FinalizeKill(t)
  <2>1. rec' \in [Commands -> CommandRecords]
    BY <1>19, <1>0, RecordFields DEF FinalizeKill, Close, TypeOK, Outcomes, Stopped, At, stored, memory
  <2>2. armed' \in Timers
    BY <1>19, <1>0, TimersType DEF FinalizeKill, Close, stored, memory
  <2>3. thread' \in [Threads -> ThreadStates]
    BY <1>19, <1>0, GotoGoes DEF FinalizeKill, At, Goes, Resting, Labels, Parameterised, stored, memory
  <2> QED
    BY <1>19, <2>1, <2>2, <2>3 DEF FinalizeKill, TypeOK, stored, memory, Close
<1>20. CASE fireCommandAwaits(t)
  <2>1. waits' \in [Commands -> AwaitRecords]
    <3>1. [waits EXCEPT ![thread[t].cmd] = None] \in [Commands -> AwaitRecords] /\ waits \in [Commands -> AwaitRecords]
      BY <1>20, <1>0, WaitsType DEF TypeOK
    <3> QED
      BY <1>20, <1>0, <3>1 DEF fireCommandAwaits
  <2>2. HistTyped(hist')
    <3>1. (\E x : hist' = [hist EXCEPT !.owed = x]) \/ UNCHANGED hist
      BY <1>20, <1>0 DEF fireCommandAwaits
    <3> QED
      BY <3>1, HistsType DEF TypeOK
  <2>3. thread' \in [Threads -> ThreadStates]
    <3>1. Outstanding(thread[t].cmd) \in Nat
      BY <1>20, <1>0, WaitsType
    <3>2. AfterFire(t) \/ thread' = [thread EXCEPT ![t].at = "deliver", ![t].hand = Outstanding(thread[t].cmd)]
      BY <1>20, <1>0 DEF fireCommandAwaits
    <3> QED
      BY <1>20, <1>0, <3>1, <3>2, HandGoes, AfterFireProceeds, LabelNames DEF Proceeds, Returns, Goes
  <2> QED
    BY <1>20, <2>1, <2>2, <2>3 DEF fireCommandAwaits, TypeOK, stored, memory
<1>21. CASE Deliver(t)
  <2>1. HistTyped(hist')
    BY <1>21, <1>0, HistsType, Zenon DEF Deliver
  <2>2. thread' \in [Threads -> ThreadStates]
    BY <1>21, <1>0, HandGoes, ReturnReturns, LabelNames DEF Deliver, Returns, Goes
  <2> QED
    BY <1>21, <2>1, <2>2 DEF Deliver, TypeOK, stored, memory
<1>22. CASE fireUntilAwaits(t)
  <2>1. waits' \in [Commands -> AwaitRecords]
    <3>1. [waits EXCEPT ![thread[t].cmd].until = 0] \in [Commands -> AwaitRecords] /\ waits \in [Commands -> AwaitRecords]
      BY <1>22, <1>0, WaitsType DEF TypeOK
    <3> QED
      BY <1>22, <1>0, <3>1 DEF fireUntilAwaits
  <2>2. thread' \in [Threads -> ThreadStates]
    <3>1. waits[thread[t].cmd].until \in Nat
      BY <1>22, <1>0, WaitsType
    <3> QED
      BY <1>22, <1>0, <3>1, HandGoes, WhyGoes, ReturnReturns, LabelNames, ReasonNames DEF fireUntilAwaits, Returns, Goes
  <2> QED
    BY <1>22, <2>1, <2>2 DEF fireUntilAwaits, TypeOK, stored, memory
<1>23. CASE EnlistOver(t)
  <2>1. waits' \in [Commands -> AwaitRecords] /\ HistTyped(hist')
    <3>1. thread[t].why \in {"exit", "until"}
      BY <1>23, <1>0 DEF EnlistOver, At, TypeOK, ThreadStates
    <3> QED
      BY <1>23, <1>0, <3>1, EnlistType DEF EnlistOver
  <2>2. thread' \in [Threads -> ThreadStates]
    BY <1>23, <1>0, WhyGoes DEF EnlistOver, At, Goes, Labels, Resting, Parameterised, Reasons, stored, memory
  <2> QED
    BY <1>23, <2>1, <2>2 DEF EnlistOver, TypeOK, stored, memory
<1>24. CASE Register(t)
  <2>1. waits' \in [Commands -> AwaitRecords] /\ HistTyped(hist')
    <3>1. thread[t].why \in {"exit", "until"}
      BY <1>24, <1>0 DEF Register, At, TypeOK, ThreadStates
    <3>2. Enlist(thread[t].cmd, thread[t].why) \/ UNCHANGED <<waits, hist>>
      BY <1>24, <1>0 DEF Register
    <3> QED
      BY <1>24, <1>0, <3>1, <3>2, EnlistType DEF TypeOK
  <2>2. thread' \in [Threads -> ThreadStates]
    <3>1. \/ Return(t)
          \/ thread' = [thread EXCEPT ![t].at = "fire", ![t].why = "await"]
          \/ thread' = [thread EXCEPT ![t].at = "recheck", ![t].why = "recheck"]
      BY <1>24, <1>0, Zenon DEF Register
    <3> QED
      BY <1>24, <1>0, <3>1, WhyGoes, ReturnReturns, LabelNames, ReasonNames DEF Returns, Goes
  <2> QED
    BY <1>24, <2>1, <2>2 DEF Register, TypeOK, stored, memory
<1>25. CASE Recheck(t)
  <2>1. thread' \in [Threads -> ThreadStates]
    BY <1>25, <1>0, GotoGoes, ReturnReturns DEF Recheck, At, Returns, Goes, Resting, Labels, Parameterised, stored, memory
  <2> QED
    BY <1>25, <2>1 DEF Recheck, TypeOK, stored, memory
<1>26. CASE NotifyEnter(t)
  <2>1. busy' \in SUBSET Commands
    BY <1>26, <1>0 DEF NotifyEnter, TypeOK, stored, memory
  <2>2. thread' \in [Threads -> ThreadStates]
    BY <1>26, <1>0, GotoGoes, AfterStopProceeds, RefuseProceeds, AfterNotifyProceeds, AfterFireProceeds, ReturnReturns DEF NotifyEnter, At, Proceeds, Returns, Goes, Resting, Labels, Parameterised, stored, memory
  <2> QED
    BY <1>26, <2>1, <2>2 DEF NotifyEnter, TypeOK, stored, memory
<1>27. CASE Decide(t)
  <2>1. busy' \in SUBSET Commands
    BY <1>27, <1>0 DEF Decide, TypeOK, stored, memory
  <2>2. thread' \in [Threads -> ThreadStates]
    BY <1>27, <1>0, GotoGoes, AfterStopProceeds, RefuseProceeds, AfterNotifyProceeds, AfterFireProceeds, ReturnReturns DEF Decide, At, Proceeds, Returns, Goes, Resting, Labels, Parameterised, stored, memory
  <2> QED
    BY <1>27, <2>1, <2>2 DEF Decide, TypeOK, stored, memory
<1>28. CASE Send(t)
  <2>1. HistTyped(hist')
    <3>1. HistTyped([hist EXCEPT !.pings[thread[t].cmd] = @ + 1])
      BY <1>28, <1>0, HistsType
    <3>2. HistTyped(hist)
      BY DEF TypeOK
    <3> QED
      BY <1>28, <1>0, <3>1, <3>2, Zenon DEF Send
  <2>2. bound' \in BoundRecords
    BY <1>28, <1>0, BoundsType DEF Send, stored, memory
  <2>3. armed' \in Timers
    <3>1. PICK c \in Commands : c = thread[t].cmd
      BY <1>28, <1>0
    <3>2. armed' = armed \/ \E S \in SUBSET Commands : armed' = [armed EXCEPT !.tries[c] = @ + 1, !.notice = S]
      <4>1. armed.notice \in SUBSET Commands /\ armed.notice \cup {c} \in SUBSET Commands
        BY DEF TypeOK, Timers
      <4>2. \/ armed' = armed
            \/ armed' = [armed EXCEPT !.tries[c] = @ + 1,
                          !.notice = IF armed.tries[c] < NoticeRetries THEN @ \cup {c} ELSE @]
        BY <1>28, <3>1, Zenon DEF Send
      <4>3. CASE armed.tries[c] < NoticeRetries
        BY <4>1, <4>2, <4>3, Zenon
      <4>4. CASE ~(armed.tries[c] < NoticeRetries)
        BY <4>1, <4>2, <4>4, Zenon
      <4> QED
        BY <4>3, <4>4
    <3>3. \A S \in SUBSET Commands : [armed EXCEPT !.tries[c] = @ + 1, !.notice = S] \in Timers
      BY TimersType
    <3>4. armed \in Timers
      BY DEF TypeOK
    <3> QED
      BY <3>2, <3>3, <3>4, Zenon
  <2>4. busy' \in SUBSET Commands
    BY <1>28, <1>0 DEF Send, TypeOK, stored, memory
  <2>5. thread' \in [Threads -> ThreadStates]
    BY <1>28, <1>0, GotoGoes, AfterStopProceeds, RefuseProceeds, AfterNotifyProceeds, AfterFireProceeds, ReturnReturns DEF Send, At, Proceeds, Returns, Goes, Resting, Labels, Parameterised, stored, memory
  <2> QED
    BY <1>28, <2>1, <2>2, <2>3, <2>4, <2>5 DEF Send, TypeOK, stored, memory
<1>29. CASE MarkTold(t)
  <2>1. rec' \in [Commands -> CommandRecords]
    BY <1>29, <1>0, RecordsType, RecordFields, Blanks DEF MarkTold, Outcomes, Stopped, stored, memory
  <2>2. armed' \in Timers
    BY <1>29, <1>0, TimersType DEF MarkTold, stored, memory
  <2>3. busy' \in SUBSET Commands
    BY <1>29, <1>0 DEF MarkTold, TypeOK, stored, memory
  <2>4. thread' \in [Threads -> ThreadStates]
    BY <1>29, <1>0, GotoGoes, AfterStopProceeds, RefuseProceeds, AfterNotifyProceeds, AfterFireProceeds, ReturnReturns DEF MarkTold, At, Proceeds, Returns, Goes, Resting, Labels, Parameterised, stored, memory
  <2> QED
    BY <1>29, <2>1, <2>2, <2>3, <2>4 DEF MarkTold, TypeOK, stored, memory
<1>30. CASE RemoveJudge(t)
  <2>1. watcher' \in [Commands -> Watchers]
    BY <1>30, <1>0, Blanks DEF RemoveJudge, TypeOK, Watchers, stored, memory
  <2>2. armed' \in Timers
    <3>1. [clearNotifyRetry(thread[t].cmd) EXCEPT !.flush = @ \ {thread[t].cmd}] \in Timers
      BY <1>30, <1>0, TimersType
    <3> QED
      BY <1>30, <1>0, <3>1 DEF RemoveJudge, TypeOK
  <2>3. thread' \in [Threads -> ThreadStates]
    BY <1>30, <1>0, GotoGoes, ReturnReturns DEF RemoveJudge, At, Returns, Goes, Resting, Labels, Parameterised, stored, memory
  <2> QED
    BY <1>30, <2>1, <2>2, <2>3 DEF RemoveJudge, TypeOK, stored, memory
<1>31. CASE RemoveRecord(t)
  <2>1. rec' \in [Commands -> CommandRecords]
    BY <1>31, <1>0, RecordsType, RecordFields, Blanks DEF RemoveRecord, Outcomes, Stopped, stored, memory
  <2>2. orphans' \in SUBSET Commands /\ log' \in SUBSET Commands
    BY <1>31, <1>0 DEF RemoveRecord, TypeOK, stored, memory
  <2>3. thread' \in [Threads -> ThreadStates]
    BY <1>31, <1>0, GotoGoes DEF RemoveRecord, At, Goes, Resting, Labels, Parameterised, stored, memory
  <2> QED
    BY <1>31, <2>1, <2>2, <2>3 DEF RemoveRecord, TypeOK, stored, memory
<1>32. CASE clearAwaitsForCommand(t)
  <2>1. waits' \in [Commands -> AwaitRecords]
    BY <1>32, <1>0, WaitsType DEF clearAwaitsForCommand, stored, memory
  <2>2. HistTyped(hist')
    BY <1>32, <1>0, HistsType, Zenon DEF clearAwaitsForCommand
  <2>3. thread' \in [Threads -> ThreadStates]
    BY <1>32, <1>0, ReturnReturns DEF clearAwaitsForCommand, Returns, Goes, stored, memory
  <2> QED
    BY <1>32, <2>1, <2>2, <2>3 DEF clearAwaitsForCommand, TypeOK, stored, memory
<1>33. CASE RecordWatch(t)
  <2>1. rec' \in [Commands -> CommandRecords]
    <3>1. thread[t].why \in Watch
      BY <1>33, <1>0 DEF RecordWatch, At, TypeOK, ThreadStates
    <3>2. CASE Known(thread[t].cmd)
      <4>1. rec' = [rec EXCEPT ![thread[t].cmd] = [rec[thread[t].cmd] EXCEPT !.watch = thread[t].why, !.hit = FALSE]]
        BY <1>33, <1>0, <3>2, Zenon DEF RecordWatch
      <4> QED
        BY <1>33, <1>0, <3>1, <4>1, RecordsType, RecordEdits
    <3>3. CASE ~Known(thread[t].cmd)
      <4>1. rec' = [rec EXCEPT ![thread[t].cmd] = rec[thread[t].cmd]]
        BY <1>33, <1>0, <3>3, Zenon DEF RecordWatch
      <4> QED
        BY <1>33, <1>0, <4>1, RecordsType
    <3> QED
      BY <3>2, <3>3
  <2>2. thread' \in [Threads -> ThreadStates]
    BY <1>33, <1>0, ReturnReturns DEF RecordWatch, Returns, Goes, stored, memory
  <2> QED
    BY <1>33, <2>1, <2>2 DEF RecordWatch, TypeOK, stored, memory
<1> QED
  BY <1>1, <1>2, <1>3, <1>4, <1>5, <1>6, <1>7, <1>8, <1>9, <1>10, <1>11, <1>12, <1>13, <1>14, <1>15, <1>16, <1>17, <1>18, <1>19, <1>20, <1>21, <1>22, <1>23, <1>24, <1>25, <1>26, <1>27, <1>28, <1>29, <1>30, <1>31, <1>32, <1>33 DEF CallStep

LEMMA TypeCommand ==
    ASSUME TypeOK, NEW c \in Commands, Output(c) \/ Exit(c) \/ QueueStep(c) \/ TimerStep(c) \/ interrupt(c) \/ cancelAwaitsForGoal(c)
    PROVE  TypeOK'
<1>1. ASSUME FeedOutput(c) PROVE TypeOK'
  <2>1. watcher' \in [Commands -> Watchers]
    BY <1>1, FeedType DEF FeedOutput, stored, memory
  <2>2. queue' \in [Commands -> Seq(Operation)]
    BY <1>1, TakeType DEF FeedOutput, stored, memory
  <2>3. log' \in SUBSET Commands
    BY <1>1 DEF FeedOutput, TypeOK, stored, memory
  <2>4. thread' \in [Threads -> ThreadStates]
    <3>1. Work(c, "persist", Fed(c)) /\ Fed(c) \in Reasons
      BY <1>1, FedNames, ReasonNames DEF FeedOutput
    <3> QED
      BY <3>1, WorkGoes, LabelNames DEF Goes
  <2> QED
    BY <1>1, <2>1, <2>2, <2>3, <2>4 DEF FeedOutput, TypeOK, stored, memory
<1>2. ASSUME PersistOutput(c) PROVE TypeOK'
  <2>1. rec' \in [Commands -> CommandRecords]
    <3>1. \E x \in BOOLEAN : rec' = [rec EXCEPT ![c].hit = x]
      BY <1>2, RecordValues DEF PersistOutput
    <3>2. \A x \in BOOLEAN : [rec EXCEPT ![c].hit = x] \in [Commands -> CommandRecords]
      BY RecordsType
    <3> QED
      BY <3>1, <3>2, Zenon
  <2>2. armed' \in Timers
    <3>1. \/ armed' = [armed EXCEPT !.flush = @ \ {c}]
          \/ armed' = [armed EXCEPT !.flush = @ \cup {c}]
          \/ armed' = [armed EXCEPT !.flush = @]
      BY <1>2, Zenon DEF PersistOutput
    <3>2. [armed EXCEPT !.flush = @] = armed /\ armed \in Timers
      BY DEF TypeOK, Timers
    <3> QED
      BY <3>1, <3>2, TimersType, Zenon
  <2>3. queue' \in [Commands -> Seq(Operation)]
    BY <1>2, AppendType DEF PersistOutput, Operation, stored, memory
  <2>4. thread' \in [Threads -> ThreadStates]
    BY <1>2, WhyGoes, ThreadNames DEF PersistOutput, At, Goes, Labels, Resting, Parameterised, Reasons, stored, memory
  <2> QED
    BY <1>2, <2>1, <2>2, <2>3, <2>4 DEF PersistOutput, TypeOK, stored, memory
<1>3. ASSUME flushWatch(c) PROVE TypeOK'
  <2>1. queue' \in [Commands -> Seq(Operation)]
    BY <1>3, TakeType DEF flushWatch, stored, memory
  <2>2. watcher' \in [Commands -> Watchers]
    <3>1. watcher[c].pend \in Nat /\ 0 \in Nat /\ watcher[c] \in Watchers
      BY DEF TypeOK, Watchers
    <3>2. \A n \in Nat : [watcher EXCEPT ![c].pend = n] = [watcher EXCEPT ![c] = [watcher[c] EXCEPT !.pend = n]]
      BY Zenon
    <3>3. \A n \in Nat : [watcher EXCEPT ![c].pend = n] \in [Commands -> Watchers]
      BY <3>1, <3>2, OtherFields DEF TypeOK
    <3>4. \E n \in Nat : watcher' = [watcher EXCEPT ![c].pend = n]
      BY <1>3, <3>1 DEF flushWatch
    <3> QED
      BY <3>3, <3>4
  <2> QED
    BY <1>3, <2>1, <2>2 DEF flushWatch, TypeOK, stored, memory
<1>4. ASSUME UntilClaim(c) PROVE TypeOK'
  <2>1. queue' \in [Commands -> Seq(Operation)]
    BY <1>4, TakeType DEF UntilClaim, stored, memory
  <2>2. watcher' \in [Commands -> Watchers]
    <3>1. watcher[c].pend \in Nat /\ 0 \in Nat /\ watcher[c] \in Watchers
      BY DEF TypeOK, Watchers
    <3>2. \A n \in Nat : [watcher EXCEPT ![c].pend = n] = [watcher EXCEPT ![c] = [watcher[c] EXCEPT !.pend = n]]
      BY Zenon
    <3>3. \A n \in Nat : [watcher EXCEPT ![c].pend = n] \in [Commands -> Watchers]
      BY <3>1, <3>2, OtherFields DEF TypeOK
    <3>4. watcher' = [watcher EXCEPT ![c].pend = 0] \/ watcher' = watcher
      BY <1>4 DEF UntilClaim
    <3> QED
      BY <3>1, <3>3, <3>4 DEF TypeOK
  <2>3. armed' \in Timers
    <3>1. [armed EXCEPT !.flush = @ \ {c}] \in Timers
      BY TimersType
    <3> QED
      BY <1>4, <3>1 DEF UntilClaim, TypeOK
  <2>4. rec' \in [Commands -> CommandRecords]
    <3>1. CASE watcher[c].st = "none" \/ ~Known(c)
      BY <1>4, <3>1 DEF UntilClaim, TypeOK
    <3>2. CASE ~(watcher[c].st = "none" \/ ~Known(c))
      <4>1. rec' = [rec EXCEPT ![c].hit = watcher[c].st = "matched", ![c].told = @ \/ StopsOnMatch(watcher[c].watch)]
        BY <1>4, <3>2 DEF UntilClaim
      <4>2. rec' = [rec EXCEPT ![c] = [rec[c] EXCEPT !.hit = watcher[c].st = "matched", !.told = rec[c].told \/ StopsOnMatch(watcher[c].watch)]]
        BY <4>1 DEF TypeOK
      <4>3. (watcher[c].st = "matched") \in BOOLEAN /\ (rec[c].told \/ StopsOnMatch(watcher[c].watch)) \in BOOLEAN
        BY RecordValues DEF StopsOnMatch
      <4>4. [rec[c] EXCEPT !.hit = watcher[c].st = "matched", !.told = rec[c].told \/ StopsOnMatch(watcher[c].watch)] \in CommandRecords
        BY <4>3, RecordsType, RecordEdits, Zenon
      <4> QED
        BY <4>2, <4>4, RecordsType
    <3> QED
      BY <3>1, <3>2
  <2>5. thread' \in [Threads -> ThreadStates]
    BY <1>4, WorkGoes DEF UntilClaim, Goes, Labels, Resting, Reasons, Parameterised, TypeOK, stored, memory
  <2> QED
    BY <1>4, <2>1, <2>2, <2>3, <2>4, <2>5 DEF UntilClaim, TypeOK, stored, memory
<1>5. ASSUME ExitHeard(c) PROVE TypeOK'
  <2>1. queue' \in [Commands -> Seq(Operation)]
    BY <1>5, TakeType DEF ExitHeard, stored, memory
  <2>2. watcher' \in [Commands -> Watchers]
    BY <1>5, Blanks DEF ExitHeard, TypeOK, Watchers, stored, memory
  <2>3. armed' \in Timers
    BY <1>5, TimersType DEF ExitHeard, stored, memory
  <2>4. thread' \in [Threads -> ThreadStates]
    BY <1>5, WorkGoes DEF ExitHeard, Goes, Labels, Resting, Reasons, Parameterised, stored, memory
  <2>5. live' \in SUBSET Commands
    BY <1>5 DEF ExitHeard, TypeOK, stored, memory
  <2> QED
    BY <1>5, <2>1, <2>2, <2>3, <2>4, <2>5 DEF ExitHeard, TypeOK, stored, memory
<1>6. ASSUME ExitRecord(c) PROVE TypeOK'
  <2>1. rec' \in [Commands -> CommandRecords]
    BY <1>6, EndedType DEF ExitRecord, TypeOK, stored, memory
  <2>2. thread' \in [Threads -> ThreadStates]
    BY <1>6, WorkGoes DEF ExitRecord, Goes, Labels, Resting, Reasons, Parameterised, stored, memory
  <2> QED
    BY <1>6, <2>1, <2>2 DEF ExitRecord, TypeOK, stored, memory
<1>7. ASSUME FlushTimer(c) PROVE TypeOK'
  <2>1. armed' \in Timers
    BY <1>7, TimersType DEF FlushTimer, stored, memory
  <2>2. queue' \in [Commands -> Seq(Operation)]
    BY <1>7, AppendType DEF FlushTimer, Operation, stored, memory
  <2> QED
    BY <1>7, <2>1, <2>2 DEF FlushTimer, TypeOK, stored, memory
<1>8. ASSUME Deadline(c) PROVE TypeOK'
  <2>1. armed' \in Timers
    BY <1>8, TimersType DEF Deadline, stored, memory
  <2>2. thread' \in [Threads -> ThreadStates]
    <3>1. \/ thread' = thread
          \/ thread' = [thread EXCEPT ![<<"timer", c>>] = [Idle EXCEPT !.at = "ask", !.cmd = c, !.why = "timeout"]]
      BY <1>8 DEF Deadline
    <3>2. CASE thread' = thread
      BY <3>2 DEF TypeOK
    <3>3. CASE thread' = [thread EXCEPT ![<<"timer", c>>] = [Idle EXCEPT !.at = "ask", !.cmd = c, !.why = "timeout"]]
      <4>1. Goes(<<"timer", c>>, "ask", c)
        BY <3>3, BeginGoes, ThreadNames, LabelNames, ReasonNames
      <4> QED
        BY <4>1 DEF Goes
    <3> QED
      BY <3>1, <3>2, <3>3
  <2> QED
    BY <1>8, <2>1, <2>2 DEF Deadline, TypeOK, stored, memory
<1>9. ASSUME retryOwnerNotification(c) PROVE TypeOK'
  <2>1. armed' \in Timers
    BY <1>9, TimersType DEF retryOwnerNotification, stored, memory
  <2>2. thread' \in [Threads -> ThreadStates]
    BY <1>9, BeginGoes, ThreadNames, LabelNames, ReasonNames DEF retryOwnerNotification, Goes, Parameterised
  <2> QED
    BY <1>9, <2>1, <2>2 DEF retryOwnerNotification, TypeOK, stored, memory
<1>10. ASSUME Output(c) PROVE TypeOK'
  <2>1. bound' \in BoundRecords
    BY <1>10, BoundsType DEF Output, stored, memory
  <2>2. queue' \in [Commands -> Seq(Operation)]
    BY <1>10, AppendType DEF Output, Operation, stored, memory
  <2> QED
    BY <1>10, <2>1, <2>2 DEF Output, TypeOK, stored, memory
<1>11. ASSUME Exit(c) PROVE TypeOK'
  <2>1. proc' \in [Commands -> {"none", "alive", "termed", "killed", "dead"}]
    BY <1>11 DEF Exit, TypeOK, stored, memory
  <2>2. queue' \in [Commands -> Seq(Operation)]
    BY <1>11, AppendType DEF Exit, Operation, stored, memory
  <2> QED
    BY <1>11, <2>1, <2>2 DEF Exit, TypeOK, stored, memory
<1>12. ASSUME interrupt(c) PROVE TypeOK'
  <2>1. rec' \in [Commands -> CommandRecords]
    BY <1>12, RecordsType, RecordFields, Blanks DEF interrupt, Outcomes, Stopped, stored, memory
  <2>2. bound' \in BoundRecords
    BY <1>12, BoundsType DEF interrupt, stored, memory
  <2> QED
    BY <1>12, <2>1, <2>2 DEF interrupt, TypeOK, stored, memory
<1>13. ASSUME cancelAwaitsForGoal(c) PROVE TypeOK'
  <2>1. waits' \in [Commands -> AwaitRecords]
    BY <1>13, WaitsType DEF cancelAwaitsForGoal, stored, memory
  <2>2. HistTyped(hist')
    BY <1>13, HistsType, Zenon DEF cancelAwaitsForGoal
  <2>3. bound' \in BoundRecords
    BY <1>13, BoundsType DEF cancelAwaitsForGoal, stored, memory
  <2> QED
    BY <1>13, <2>1, <2>2, <2>3 DEF cancelAwaitsForGoal, TypeOK, stored, memory
<1> QED
  BY <1>1, <1>2, <1>3, <1>4, <1>5, <1>6, <1>7, <1>8, <1>9, <1>10, <1>11, <1>12, <1>13 DEF QueueStep, TimerStep

LEMMA TypeTool ==
    ASSUME TypeOK, Tool
    PROVE  TypeOK'
<1>1. ASSUME NEW t \in Callers, NEW c \in Commands, NEW s \in Specs, AskStart(t, c, s) PROVE TypeOK'
  <2>1. rec' \in [Commands -> CommandRecords]
    BY <1>1, FreshRecord, SpecsAssumption DEF AskStart, TypeOK, Spawnable, stored, memory
  <2>2. bound' \in BoundRecords
    BY <1>1, BoundsType DEF AskStart, stored, memory
  <2>3. thread' \in [Threads -> ThreadStates]
    BY <1>1, BeginGoes, ThreadNames, LabelNames, ReasonNames DEF AskStart, Goes, Parameterised
  <2> QED
    BY <1>1, <2>1, <2>2, <2>3 DEF AskStart, TypeOK, stored, memory
<1>2. ASSUME NEW t \in Callers, NEW c \in Commands, NEW how \in {"terminate", "kill", "restart", "remove"}, AskStop(t, c, how) PROVE TypeOK'
  <2>1. bound' \in BoundRecords
    BY <1>2, BoundsType DEF AskStop, stored, memory
  <2>2. thread' \in [Threads -> ThreadStates]
    <3>1. \E l \in {"askKill", "restart", "ask"} : thread' = [thread EXCEPT ![t] = [Idle EXCEPT !.cmd = c, !.why = how, !.at = l]]
      BY <1>2, Zenon DEF AskStop
    <3>2. {"askKill", "restart", "ask"} \subseteq Labels \ Parameterised /\ {"terminate", "kill", "restart", "remove"} \subseteq Reasons
      BY LabelNames, ReasonNames
    <3>3. PICK l \in {"askKill", "restart", "ask"} : thread' = [thread EXCEPT ![t] = [Idle EXCEPT !.cmd = c, !.why = how, !.at = l]]
      BY <3>1
    <3>4. l \in Labels /\ how \in Reasons /\ l # "watch" /\ l \notin {"enlist", "register"} /\ t \in Threads
      BY <3>2, ThreadNames
    <3>5. Goes(t, l, c)
      BY <3>3, <3>4, BeginGoes
    <3> QED
      BY <3>5 DEF Goes
  <2> QED
    BY <1>2, <2>1, <2>2 DEF AskStop, TypeOK, stored, memory
<1>3. ASSUME NEW t \in Callers, NEW c \in Commands, NEW kind \in {"exit", "until"}, AskAwait(t, c, kind) PROVE TypeOK'
  <2>1. bound' \in BoundRecords
    BY <1>3, BoundsType DEF AskAwait, stored, memory
  <2>2. thread' \in [Threads -> ThreadStates]
    <3>1. \E l \in {"register", "enlist"} : thread' = [thread EXCEPT ![t] = [Idle EXCEPT !.cmd = c, !.why = kind, !.at = l]]
      BY <1>3 DEF AskAwait
    <3>2. {"register", "enlist"} \subseteq Labels /\ {"exit", "until"} \subseteq Reasons
      BY LabelNames, ReasonNames DEF Parameterised
    <3> QED
      BY <3>1, <3>2, BeginGoes, ThreadNames DEF Goes
  <2> QED
    BY <1>3, <2>1, <2>2 DEF AskAwait, TypeOK, stored, memory
<1>4. ASSUME NEW t \in Callers, NEW c \in Commands, NEW w \in Watches, AskWatch(t, c, w) PROVE TypeOK'
  <2>1. bound' \in BoundRecords
    BY <1>4, BoundsType DEF AskWatch, stored, memory
  <2>2. watcher' \in [Commands -> Watchers]
    BY <1>4, Blanks, SpecsAssumption DEF AskWatch, TypeOK, Watch, stored, memory
  <2>3. armed' \in Timers
    BY <1>4, TimersType DEF AskWatch, stored, memory
  <2>4. thread' \in [Threads -> ThreadStates]
    <3>1. "watch" \in Labels /\ w \in Reasons /\ w \in Watch /\ t \in Threads
      BY SpecsAssumption, ReasonNames, LabelNames, ThreadNames DEF Parameterised
    <3>2. thread' = [thread EXCEPT ![t] = [Idle EXCEPT !.at = "watch", !.cmd = c, !.why = w]]
      BY <1>4 DEF AskWatch
    <3>3. Goes(t, "watch", c)
      BY <3>1, <3>2, BeginGoes
    <3> QED
      BY <3>3 DEF Goes
  <2> QED
    BY <1>4, <2>1, <2>2, <2>3, <2>4 DEF AskWatch, TypeOK, stored, memory
<1>5. ASSUME NEW t \in Callers, NEW c \in Commands, AskRemove(t, c) PROVE TypeOK'
  <2>1. bound' \in BoundRecords
    BY <1>5, BoundsType DEF AskRemove, stored, memory
  <2>2. thread' \in [Threads -> ThreadStates]
    BY <1>5, BeginGoes, ThreadNames, LabelNames, ReasonNames DEF AskRemove, Goes, Parameterised
  <2> QED
    BY <1>5, <2>1, <2>2 DEF AskRemove, TypeOK, stored, memory
<1> QED
  BY <1>1, <1>2, <1>3, <1>4, <1>5 DEF Tool

LEMMA TypePlugin ==
    ASSUME TypeOK, PluginStep \/ Dispose
    PROVE  TypeOK'
<1>1. ASSUME ReconcileRead PROVE TypeOK'
  <2>1. todo' \in Plans
    BY <1>1 DEF ReconcileRead, Plans, TypeOK, stored, memory
  <2>2. thread' \in [Threads -> ThreadStates]
    BY <1>1, GotoGoes, ThreadNames, LabelNames DEF ReconcileRead, Goes
  <2> QED
    BY <1>1, <2>1, <2>2 DEF ReconcileRead, TypeOK, stored, memory
<1>2. ASSUME reconcileCommandAwaits PROVE TypeOK'
  <2>1. thread' \in [Threads -> ThreadStates]
    <3>1. (\E c \in Commands : Turn(c, "fire", "await")) \/ thread' = [thread EXCEPT ![Plugin] = Idle]
      BY <1>2 DEF reconcileCommandAwaits
    <3> QED
      BY <3>1, TurnGoes, Blanks, LabelNames, ReasonNames DEF Goes, TypeOK
  <2> QED
    BY <1>2, <2>1 DEF reconcileCommandAwaits, TypeOK, stored, memory
<1>3. ASSUME NEW c \in Commands, ReconcileOver(c) PROVE TypeOK'
  <2>1. todo' \in Plans
    BY <1>3 DEF ReconcileOver, Plans, TypeOK, stored, memory
  <2>2. thread' \in [Threads -> ThreadStates]
    BY <1>3, TurnGoes, LabelNames, ReasonNames DEF ReconcileOver, Goes
  <2> QED
    BY <1>3, <2>1, <2>2 DEF ReconcileOver, TypeOK, stored, memory
<1>4. ASSUME NEW c \in Commands, ReconcileRunning(c) PROVE TypeOK'
  <2>1. todo' \in Plans
    BY <1>4 DEF ReconcileRunning, Plans, TypeOK, stored, memory
  <2>2. rec' \in [Commands -> CommandRecords]
    <3>1. \/ UNCHANGED rec
          \/ rec' = [rec EXCEPT ![c] = rec[c]]
          \/ rec' = [rec EXCEPT ![c] = [rec[c] EXCEPT !.st = "exited", !.reason = "exit"]]
          \/ rec' = [rec EXCEPT ![c] = [rec[c] EXCEPT !.st = "missing", !.reason = "missing"]]
          \/ \E x \in BOOLEAN : rec' = [rec EXCEPT ![c].detached = x]
      <4>1. CASE rec[c].st = "running"
        BY <1>4, <4>1, RecordValues DEF ReconcileRunning
      <4>2. CASE rec[c].st # "running"
        BY <1>4, <4>2, RecordValues DEF ReconcileRunning
      <4> QED
        BY <4>1, <4>2
    <3>2. /\ [rec[c] EXCEPT !.st = "exited", !.reason = "exit"] \in CommandRecords
          /\ [rec[c] EXCEPT !.st = "missing", !.reason = "missing"] \in CommandRecords
      <4>1. "exited" \in Stopped /\ "missing" \in Stopped
        BY DEF Stopped
      <4> QED
        BY <4>1, RecordsType, RecordEdits, OutcomeNames
    <3>3. /\ rec \in [Commands -> CommandRecords] /\ rec[c] \in CommandRecords
          /\ \A r \in CommandRecords : [rec EXCEPT ![c] = r] \in [Commands -> CommandRecords]
          /\ \A x \in BOOLEAN : [rec EXCEPT ![c].detached = x] \in [Commands -> CommandRecords]
      BY RecordsType
    <3> QED
      BY <3>1, <3>2, <3>3, Zenon
  <2>3. orphans' \in SUBSET Commands /\ live' \in SUBSET Commands
    BY <1>4 DEF ReconcileRunning, TypeOK, stored, memory
  <2>4. watcher' \in [Commands -> Watchers]
    BY <1>4, Blanks DEF ReconcileRunning, TypeOK, CommandRecords, stored, memory
  <2>5. armed' \in Timers
    <3>1. Disarm(c) \in Timers /\ armed \in Timers
      BY TimersType DEF TypeOK
    <3> QED
      BY <1>4, <3>1 DEF ReconcileRunning
  <2>6. thread' \in [Threads -> ThreadStates]
    <3>1. Turn(c, "fire", "boot") \/ UNCHANGED thread
      BY <1>4 DEF ReconcileRunning
    <3> QED
      BY <3>1, TurnGoes, LabelNames, ReasonNames DEF Goes, TypeOK
  <2> QED
    BY <1>4, <2>1, <2>2, <2>3, <2>4, <2>5, <2>6 DEF ReconcileRunning, TypeOK, stored, memory
<1>5. ASSUME NEW c \in Commands, DisposeCommand(c) PROVE TypeOK'
  <2>1. todo' \in Plans
    BY <1>5 DEF DisposeCommand, Plans, TypeOK, stored, memory
  <2>2. rec' \in [Commands -> CommandRecords]
    <3>1. UNCHANGED rec \/ \E x \in BOOLEAN : rec' = [rec EXCEPT ![c].kept = x]
      BY <1>5, RecordValues DEF DisposeCommand
    <3>2. \A x \in BOOLEAN : [rec EXCEPT ![c].kept = x] \in [Commands -> CommandRecords]
      BY RecordsType
    <3>3. rec \in [Commands -> CommandRecords]
      BY DEF TypeOK
    <3> QED
      BY <3>1, <3>2, <3>3, Zenon
  <2>3. thread' \in [Threads -> ThreadStates]
    <3>1. Turn(c, "ask", "control") \/ UNCHANGED thread
      BY <1>5 DEF DisposeCommand
    <3> QED
      BY <3>1, TurnGoes, LabelNames, ReasonNames DEF Goes, TypeOK
  <2> QED
    BY <1>5, <2>1, <2>2, <2>3 DEF DisposeCommand, TypeOK, stored, memory
<1>6. ASSUME Dispose PROVE TypeOK'
  <2>1. todo' \in Plans
    BY <1>6, Blanks DEF Dispose, Plans, TypeOK, NoTodo, stored, memory
  <2>2. watcher' \in [Commands -> Watchers]
    BY <1>6, Blanks DEF Dispose, TypeOK, Watchers, stored, memory
  <2>3. armed' \in Timers
    <3>1. PICK f : armed' = [armed EXCEPT !.flush = {}, !.notice = {}, !.tries = f]
                   /\ f = [c \in Commands |-> IF c \in armed.notice THEN 0 ELSE armed.tries[c]]
      BY <1>6 DEF Dispose
    <3>2. f \in [Commands -> Nat]
      BY <3>1 DEF TypeOK, Timers
    <3>3. armed \in Timers /\ {} \in SUBSET Commands
      BY DEF TypeOK
    <3>4. [armed EXCEPT !.flush = {}, !.notice = {}, !.tries = f] \in Timers
      BY <3>2, <3>3, OtherFields, Zenon
    <3> QED
      BY <3>1, <3>4, Zenon
  <2>4. bound' \in BoundRecords
    BY <1>6, BoundsType DEF Dispose, stored, memory
  <2>5. thread' \in [Threads -> ThreadStates]
    BY <1>6, GotoGoes, ThreadNames, LabelNames DEF Dispose, Goes
  <2> QED
    BY <1>6, <2>1, <2>2, <2>3, <2>4, <2>5 DEF Dispose, TypeOK, stored, memory
<1> QED
  BY <1>1, <1>2, <1>3, <1>4, <1>5, <1>6 DEF PluginStep

LEMMA TypeReload ==
    ASSUME TypeOK, Reload
    PROVE  TypeOK'
<1>1. proc' \in [Commands -> {"none", "alive", "termed", "killed", "dead"}]
  BY DEF Reload, TypeOK
<1>2. bound' \in BoundRecords
  BY BoundsType DEF Reload
<1>3. watcher' \in [Commands -> Watchers] /\ queue' \in [Commands -> Seq(Operation)] /\ todo' \in Plans
  BY Blanks DEF Reload
<1>4. armed' \in Timers
  BY Blanks DEF Reload
<1>5. thread' \in [Threads -> ThreadStates]
  <2>1. [Idle EXCEPT !.at = "read"] \in ThreadRecords /\ [Idle EXCEPT !.at = "read"].at = "read"
    BY Blanks, OtherFields, LabelNames DEF Idle
  <2>2. [Idle EXCEPT !.at = "read"] \in ThreadStates
    BY <2>1 DEF ThreadStates, Resting
  <2> QED
    BY <2>2, Blanks DEF Reload
<1>6. HistTyped(hist')
  <2>1. hist.unmarked \cup {thread[t].cmd : t \in {u \in Threads : At(u, "mark")}} \in SUBSET Commands
    <3>1. \A t \in Threads : At(t, "mark") => thread[t].cmd \in Commands
      BY DEF TypeOK, ThreadStates, At, Resting
    <3>2. hist.unmarked \in SUBSET Commands
      BY DEF TypeOK, HistTyped
    <3> QED
      BY <3>1, <3>2
  <2>2. \A S \in SUBSET Commands : HistTyped([hist EXCEPT !.owed = hist.owed - Total(Hands), !.unmarked = S])
    BY HistsType, Zenon
  <2>3. hist' = [hist EXCEPT !.owed = hist.owed - Total(Hands),
                             !.unmarked = hist.unmarked \cup {thread[t].cmd : t \in {u \in Threads : At(u, "mark")}}]
    BY Zenon DEF Reload
  <2> QED
    BY <2>1, <2>2, <2>3, Zenon
<1> QED
  BY <1>1, <1>2, <1>3, <1>4, <1>5, <1>6 DEF Reload, TypeOK, stored
LEMMA TypeStep == TypeOK /\ [Next]_vars => TypeOK'
<1> SUFFICES ASSUME TypeOK, [Next]_vars PROVE TypeOK'
  OBVIOUS
<1>1. CASE Tool
  BY <1>1, TypeTool
<1>2. CASE \E t \in Threads : CallStep(t)
  BY <1>2, TypeCall
<1>3. CASE \E c \in Commands : Output(c) \/ Exit(c) \/ QueueStep(c) \/ TimerStep(c) \/ interrupt(c) \/ cancelAwaitsForGoal(c)
  BY <1>3, TypeCommand
<1>4. CASE PluginStep \/ Dispose
  BY <1>4, TypePlugin
<1>5. CASE Reload
  BY <1>5, TypeReload
<1>6. CASE UNCHANGED vars
  BY <1>6 DEF vars, stored, memory, TypeOK
<1> QED
  BY <1>1, <1>2, <1>3, <1>4, <1>5, <1>6 DEF Next

(* Every variable of a command session stays in its set: no step leaves a   *)
(* thread under way without a command, or a record without a status.        *)
THEOREM TypeCorrect == Spec => []TypeOK
BY InitType, TypeStep, PTL DEF Spec
-----------------------------------------------------------------------------
(* The labels at which a call holds a command that nobody else may hold     *)
(* with it: starting it, removing its record, telling its owner.            *)
Starting == {"spawn", "record", "rollback"}
Telling == {"decide", "send", "mark"}
Special == Starting \cup Telling \cup {"removing"}

SpecialKept ==
    \A u \in Threads : thread[u].at \in Special \/ thread'[u].at \in Special =>
                          thread'[u].at = thread[u].at /\ thread'[u].cmd = thread[u].cmd
EndsOnly == \A c \in Commands : rec'[c].st = rec[c].st \/ (rec[c].st = "running" /\ rec'[c].st \in Stopped)
ToldKept == \A c \in Commands : (rec'[c].told => rec[c].told \/ Known(c)) /\ (rec[c].told => rec'[c].told)
FencesKept ==
    \A c \in Commands :
        /\ proc[c] = "dead" => proc'[c] = "dead"
        /\ rec'[c].st = "missing" /\ rec[c].st # "missing" => c \in orphans'
        /\ c \in orphans /\ c \notin orphans' /\ rec'[c].st = "missing" => proc'[c] = "dead"
TellingKept == busy' = busy /\ hist'.pings = hist.pings /\ hist'.unmarked = hist.unmarked

\* What most steps do as far as the safety properties can tell.
Ordinary == SpecialKept /\ EndsOnly /\ ToldKept /\ FencesKept /\ TellingKept

LEMMA GoesSpecial ==
    ASSUME TypeOK, NEW t \in Threads, thread[t].at \notin Special,
           \/ UNCHANGED thread
           \/ Returns(t)
           \/ \E l \in Labels \ Special, c \in Commands : Goes(t, l, c)
    PROVE  SpecialKept
<1>1. \A l \in Resting : l \notin Special
  BY DEF Resting, Special, Starting, Telling
<1> QED
  BY <1>1 DEF SpecialKept, Goes, Returns

LEMMA QuietKeeps ==
    ASSUME UNCHANGED rec, UNCHANGED orphans, \A c \in Commands : proc[c] = "dead" => proc'[c] = "dead"
    PROVE  EndsOnly /\ ToldKept /\ FencesKept
BY DEF EndsOnly, ToldKept, FencesKept

LEMMA EditKeeps ==
    ASSUME TypeOK, NEW c \in Commands, NEW r \in CommandRecords, rec' = [rec EXCEPT ![c] = r],
           r.st = rec[c].st \/ (rec[c].st = "running" /\ r.st \in {"exited", "terminated"}),
           r.told => rec[c].told \/ Known(c), rec[c].told => r.told,
           UNCHANGED <<proc, orphans>>
    PROVE  EndsOnly /\ ToldKept /\ FencesKept
<1>1. rec'[c] = r /\ \A d \in Commands : d # c => rec'[d] = rec[d]
  BY DEF TypeOK
<1>2. "exited" \in Stopped /\ "terminated" \in Stopped
  BY DEF Stopped
<1>3. EndsOnly
  BY <1>1, <1>2 DEF EndsOnly
<1>4. ToldKept
  BY <1>1 DEF ToldKept
<1>5. FencesKept
  BY <1>1 DEF FencesKept
<1> QED
  BY <1>3, <1>4, <1>5

LEMMA OwedTells ==
    ASSUME TypeOK, UNCHANGED busy, UNCHANGED hist \/ \E x : hist' = [hist EXCEPT !.owed = x]
    PROVE  TellingKept
<1>1. \A x : [hist EXCEPT !.owed = x].pings = hist.pings /\ [hist EXCEPT !.owed = x].unmarked = hist.unmarked
  BY DEF TypeOK, HistTyped
<1> QED
  BY <1>1 DEF TellingKept
LEMMA OrdinaryNames ==
    /\ {"release", "restart", "persist", "fireUntil", "exit", "ask", "claim", "signal", "wait", "finish", "foundDead",
        "signalled", "stamp", "askKill", "claimKill", "kill", "waitKill", "finishKill", "recheck", "fire", "deliver",
        "notify", "remove", "clearing"} \subseteq (Labels \ Parameterised) \ Special
    /\ Parameterised \subseteq Labels \ Special
    /\ Resting \subseteq (Labels \ Parameterised) \ Special
BY DEF Labels, Resting, Parameterised, Special, Starting, Telling

LEMMA StopSpecial ==
    ASSUME TypeOK, NEW t \in Threads, thread[t].at \notin Special, thread[t].at \notin Resting,
           AfterStop(t) \/ Refuse(t) \/ AfterNotify(t) \/ AfterFire(t) \/ Return(t)
    PROVE  SpecialKept
<1>1. thread[t].cmd \in Commands
  BY DEF TypeOK, ThreadStates
<1>2. Proceeds(t, {"stamp", "restart", "remove", "notify"})
  BY AfterStopProceeds, RefuseProceeds, AfterNotifyProceeds, AfterFireProceeds, ReturnReturns DEF Proceeds
<1> QED
  BY <1>1, <1>2, GoesSpecial, OrdinaryNames DEF Proceeds

LEMMA GotoSpecial ==
    ASSUME TypeOK, NEW t \in Threads, thread[t].at \notin Special, thread[t].at \notin Resting,
           \E l \in (Labels \ Parameterised) \ Special :
               \/ Goto(t, l)
               \/ \E w \in Reasons : thread' = [thread EXCEPT ![t].at = l, ![t].why = w]
               \/ \E n \in Nat : thread' = [thread EXCEPT ![t].at = l, ![t].hand = n]
    PROVE  SpecialKept
<1>1. thread[t].cmd \in Commands
  BY DEF TypeOK, ThreadStates
<1>2. PICK l \in (Labels \ Parameterised) \ Special :
               \/ Goto(t, l)
               \/ \E w \in Reasons : thread' = [thread EXCEPT ![t].at = l, ![t].why = w]
               \/ \E n \in Nat : thread' = [thread EXCEPT ![t].at = l, ![t].hand = n]
  OBVIOUS
<1>3. Goes(t, l, thread[t].cmd)
  <2>1. CASE Goto(t, l)
    BY <2>1, GotoGoes
  <2>2. CASE \E w \in Reasons : thread' = [thread EXCEPT ![t].at = l, ![t].why = w]
    BY <2>2, WhyGoes
  <2>3. CASE \E n \in Nat : thread' = [thread EXCEPT ![t].at = l, ![t].hand = n]
    BY <2>3, HandGoes
  <2> QED
    BY <1>2, <2>1, <2>2, <2>3
<1> QED
  BY <1>1, <1>3, GoesSpecial

LEMMA BeginSpecial ==
    ASSUME TypeOK, NEW t \in Threads, thread[t].at \notin Special, NEW c \in Commands,
           \E l \in (Labels \ Parameterised) \ Special, w \in Reasons :
               \/ thread' = [thread EXCEPT ![t] = [Idle EXCEPT !.at = l, !.cmd = c, !.why = w]]
               \/ thread' = [thread EXCEPT ![t] = [Idle EXCEPT !.cmd = c, !.why = w, !.at = l]]
    PROVE  SpecialKept
<1>1. PICK l \in (Labels \ Parameterised) \ Special, w \in Reasons :
               \/ thread' = [thread EXCEPT ![t] = [Idle EXCEPT !.at = l, !.cmd = c, !.why = w]]
               \/ thread' = [thread EXCEPT ![t] = [Idle EXCEPT !.cmd = c, !.why = w, !.at = l]]
  OBVIOUS
<1>2. l # "watch" /\ l \notin {"enlist", "register"}
  BY DEF Parameterised
<1>3. Goes(t, l, c)
  BY <1>1, <1>2, BeginGoes
<1> QED
  BY <1>3, GoesSpecial

LEMMA FieldKeeps ==
    ASSUME TypeOK, NEW c \in Commands, UNCHANGED <<proc, orphans>>,
           \/ \E x \in {"none", "SIGINT", "SIGTERM", "SIGKILL"} : rec' = [rec EXCEPT ![c].sig = x]
           \/ \E x \in Outcomes : rec' = [rec EXCEPT ![c].reason = x]
           \/ \E x \in BOOLEAN : rec' = [rec EXCEPT ![c].hit = x] \/ rec' = [rec EXCEPT ![c].kept = x]
    PROVE  EndsOnly /\ ToldKept /\ FencesKept
<1> DEFINE Same(r) == r \in CommandRecords /\ r.st = rec[c].st /\ r.told = rec[c].told
<1>1. rec[c] \in CommandRecords
  BY DEF TypeOK
<1>2. /\ \A x \in {"none", "SIGINT", "SIGTERM", "SIGKILL"} : Same([rec[c] EXCEPT !.sig = x])
      /\ \A x \in Outcomes : Same([rec[c] EXCEPT !.reason = x])
      /\ \A x \in BOOLEAN : Same([rec[c] EXCEPT !.hit = x]) /\ Same([rec[c] EXCEPT !.kept = x])
  <2>1. /\ \A x \in {"none", "SIGINT", "SIGTERM", "SIGKILL"} : [rec[c] EXCEPT !.sig = x] \in CommandRecords
        /\ \A x \in Outcomes : [rec[c] EXCEPT !.reason = x] \in CommandRecords
        /\ \A x \in BOOLEAN : [rec[c] EXCEPT !.hit = x] \in CommandRecords /\ [rec[c] EXCEPT !.kept = x] \in CommandRecords
    BY <1>1, RecordFields
  <2>2. \A x : /\ [rec[c] EXCEPT !.sig = x].st = rec[c].st /\ [rec[c] EXCEPT !.sig = x].told = rec[c].told
              /\ [rec[c] EXCEPT !.reason = x].st = rec[c].st /\ [rec[c] EXCEPT !.reason = x].told = rec[c].told
              /\ [rec[c] EXCEPT !.hit = x].st = rec[c].st /\ [rec[c] EXCEPT !.hit = x].told = rec[c].told
              /\ [rec[c] EXCEPT !.kept = x].st = rec[c].st /\ [rec[c] EXCEPT !.kept = x].told = rec[c].told
    BY <1>1 DEF CommandRecords
  <2> QED
    BY <2>1, <2>2
<1>3. \A x : /\ [rec EXCEPT ![c].sig = x] = [rec EXCEPT ![c] = [rec[c] EXCEPT !.sig = x]]
             /\ [rec EXCEPT ![c].reason = x] = [rec EXCEPT ![c] = [rec[c] EXCEPT !.reason = x]]
             /\ [rec EXCEPT ![c].hit = x] = [rec EXCEPT ![c] = [rec[c] EXCEPT !.hit = x]]
             /\ [rec EXCEPT ![c].kept = x] = [rec EXCEPT ![c] = [rec[c] EXCEPT !.kept = x]]
  BY Zenon
<1>4. \E r : Same(r) /\ rec' = [rec EXCEPT ![c] = r]
  BY <1>2, <1>3, Zenon
<1> QED
  BY <1>4, EditKeeps
LEMMA CloseKeeps ==
    ASSUME TypeOK, NEW c \in Commands, NEW s \in {"exited", "terminated"}, NEW o \in Outcomes, Close(c, s, o), UNCHANGED <<proc, orphans>>
    PROVE  EndsOnly /\ ToldKept /\ FencesKept
<1>1. rec[c] \in CommandRecords /\ s \in Stopped
  BY DEF TypeOK, Stopped
<1>2. \A x \in Outcomes : [rec[c] EXCEPT !.st = s, !.reason = x] \in CommandRecords
  BY <1>1, RecordEdits
<1>3. \A x : [rec[c] EXCEPT !.st = s, !.reason = x].st = s /\ [rec[c] EXCEPT !.st = s, !.reason = x].told = rec[c].told
  BY <1>1 DEF CommandRecords
<1>4. CASE rec[c].st # "running"
  <2>1. rec' = [rec EXCEPT ![c] = rec[c]]
    BY <1>4, Zenon DEF Close
  <2> QED
    BY <1>1, <2>1, EditKeeps
<1>5. CASE rec[c].st = "running" /\ rec[c].reason = "timeout"
  <2>1. rec' = [rec EXCEPT ![c] = [rec[c] EXCEPT !.st = s, !.reason = "timeout"]]
    BY <1>5, Zenon DEF Close
  <2> QED
    BY <1>2, <1>3, <1>5, <2>1, EditKeeps, OutcomeNames
<1>6. CASE rec[c].st = "running" /\ rec[c].reason # "timeout"
  <2>1. rec' = [rec EXCEPT ![c] = [rec[c] EXCEPT !.st = s, !.reason = o]]
    BY <1>6, Zenon DEF Close
  <2> QED
    BY <1>2, <1>3, <1>6, <2>1, EditKeeps
<1> QED
  BY <1>4, <1>5, <1>6

OrdinaryCall(t) ==
    \/ ReleaseStart(t) \/ Judge(t) \/ MissingSignalled(t) \/ Claim(t) \/ Signal(t) \/ Escalate(t)
    \/ Waited(t) \/ Finalize(t) \/ Stamp(t) \/ KillJudge(t) \/ ClaimKill(t) \/ SignalKill(t)
    \/ WaitedKill(t) \/ FinalizeKill(t) \/ fireCommandAwaits(t) \/ Deliver(t) \/ fireUntilAwaits(t) \/ EnlistOver(t)
    \/ Register(t) \/ Recheck(t) \/ clearAwaitsForCommand(t) \/ RecordWatch(t)

LEMMA CallOrdinary ==
    ASSUME TypeOK, NEW t \in Threads, OrdinaryCall(t)
    PROVE  Ordinary
<1>0. thread[t].at \notin Resting /\ thread[t].cmd \in Commands
  BY CallsNamed DEF OrdinaryCall, CallStep
<1>1. ASSUME ReleaseStart(t) PROVE Ordinary
  <2>1. SpecialKept
    <3>1. thread[t].at \notin Special
      BY <1>1 DEF ReleaseStart, At, Special, Starting, Telling
    <3>2. Return(t)
      BY <1>1 DEF ReleaseStart
    <3> QED
      BY <1>0, <3>1, <3>2, StopSpecial, GotoSpecial, OrdinaryNames, ReasonNames
  <2>2. EndsOnly /\ ToldKept /\ FencesKept
    BY <1>1, QuietKeeps DEF ReleaseStart, stored, memory
  <2>3. TellingKept
    BY <1>1 DEF ReleaseStart, TellingKept, stored, memory
  <2> QED
    BY <2>1, <2>2, <2>3 DEF Ordinary
<1>2. ASSUME Judge(t) PROVE Ordinary
  <2>1. SpecialKept
    <3>1. thread[t].at \notin Special
      BY <1>2 DEF Judge, At, Special, Starting, Telling
    <3>2. Goto(t, "claim") \/ Goto(t, "signalled") \/ Refuse(t)
      BY <1>2 DEF Judge
    <3> QED
      BY <1>0, <3>1, <3>2, StopSpecial, GotoSpecial, OrdinaryNames, ReasonNames
  <2>2. EndsOnly /\ ToldKept /\ FencesKept
    BY <1>2, QuietKeeps DEF Judge, Alive, TypeOK, stored, memory
  <2>3. TellingKept
    BY <1>2 DEF Judge, TellingKept, stored, memory
  <2> QED
    BY <2>1, <2>2, <2>3 DEF Ordinary
<1>3. ASSUME MissingSignalled(t) PROVE Ordinary
  <2>1. SpecialKept
    <3>1. thread[t].at \notin Special
      BY <1>3 DEF MissingSignalled, At, Special, Starting, Telling
    <3>2. AfterStop(t)
      BY <1>3 DEF MissingSignalled
    <3> QED
      BY <1>0, <3>1, <3>2, StopSpecial, GotoSpecial, OrdinaryNames, ReasonNames
  <2>2. EndsOnly /\ ToldKept /\ FencesKept
    BY <1>3 DEF MissingSignalled, EndsOnly, ToldKept, FencesKept
  <2>3. TellingKept
    BY <1>3 DEF MissingSignalled, TellingKept, stored, memory
  <2> QED
    BY <2>1, <2>2, <2>3 DEF Ordinary
<1>4. ASSUME Claim(t) PROVE Ordinary
  <2>1. SpecialKept
    BY <1>4, <1>0, GotoSpecial, OrdinaryNames DEF Claim, At, Special, Starting, Telling
  <2>2. EndsOnly /\ ToldKept /\ FencesKept
    <3> DEFINE c == thread[t].cmd
    <3>0. rec[c] \in CommandRecords
      BY <1>0 DEF TypeOK
    <3>1. \E r \in CommandRecords : rec' = [rec EXCEPT ![c] = r] /\ r.st = rec[c].st /\ r.told = rec[c].told
      <4>1. CASE rec[c].st # "running"
        <5>1. rec' = [rec EXCEPT ![c] = rec[c]]
          BY <1>4, <4>1, Zenon DEF Claim
        <5> QED
          BY <3>0, <5>1
      <4>2. CASE rec[c].st = "running" /\ rec[c].reason # "timeout" /\ rec[c].hit /\ StopsOnMatch(rec[c].watch)
        <5>1. rec' = [rec EXCEPT ![c] = [rec[c] EXCEPT !.sig = "SIGTERM", !.reason = "until"]]
          BY <1>4, <4>2, Zenon DEF Claim
        <5>2. [rec[c] EXCEPT !.sig = "SIGTERM", !.reason = "until"] \in CommandRecords
          BY <3>0, RecordEdits, OutcomeNames
        <5>3. /\ [rec[c] EXCEPT !.sig = "SIGTERM", !.reason = "until"].st = rec[c].st
              /\ [rec[c] EXCEPT !.sig = "SIGTERM", !.reason = "until"].told = rec[c].told
          BY <3>0 DEF CommandRecords
        <5> QED
          BY <5>1, <5>2, <5>3
      <4>3. CASE rec[c].st = "running" /\ ~(rec[c].reason # "timeout" /\ rec[c].hit /\ StopsOnMatch(rec[c].watch))
        <5>1. rec' = [rec EXCEPT ![c] = [rec[c] EXCEPT !.sig = "SIGTERM", !.reason = rec[c].reason]]
          BY <1>4, <4>3, Zenon DEF Claim
        <5>2. [rec[c] EXCEPT !.sig = "SIGTERM", !.reason = rec[c].reason] \in CommandRecords
          BY <1>0, <3>0, RecordEdits, RecordValues
        <5>3. /\ [rec[c] EXCEPT !.sig = "SIGTERM", !.reason = rec[c].reason].st = rec[c].st
              /\ [rec[c] EXCEPT !.sig = "SIGTERM", !.reason = rec[c].reason].told = rec[c].told
          BY <3>0 DEF CommandRecords
        <5> QED
          BY <5>1, <5>2, <5>3
      <4> QED
        BY <4>1, <4>2, <4>3
    <3>2. UNCHANGED <<proc, orphans>>
      BY <1>4 DEF Claim
    <3> QED
      BY <1>0, <3>1, <3>2, EditKeeps
  <2>3. TellingKept
    BY <1>4 DEF Claim, TellingKept, stored, memory
  <2> QED
    BY <2>1, <2>2, <2>3 DEF Ordinary
<1>5. ASSUME Signal(t) PROVE Ordinary
  <2>1. SpecialKept
    BY <1>5, <1>0, GotoSpecial, OrdinaryNames DEF Signal, At, Special, Starting, Telling
  <2>2. EndsOnly /\ ToldKept /\ FencesKept
    BY <1>5, QuietKeeps DEF Signal, Alive, TypeOK, stored, memory
  <2>3. TellingKept
    BY <1>5 DEF Signal, TellingKept, stored, memory
  <2> QED
    BY <2>1, <2>2, <2>3 DEF Ordinary
<1>6. ASSUME Escalate(t) PROVE Ordinary
  <2>1. SpecialKept
    BY <1>6 DEF Escalate, SpecialKept
  <2>2. EndsOnly /\ ToldKept /\ FencesKept
    BY <1>6, <1>0, QuietKeeps DEF Escalate, TypeOK, stored, memory
  <2>3. TellingKept
    BY <1>6 DEF Escalate, TellingKept, stored, memory
  <2> QED
    BY <2>1, <2>2, <2>3 DEF Ordinary
<1>7. ASSUME Waited(t) PROVE Ordinary
  <2>1. SpecialKept
    BY <1>7, <1>0, GotoSpecial, OrdinaryNames DEF Waited, At, Special, Starting, Telling
  <2>2. EndsOnly /\ ToldKept /\ FencesKept
    BY <1>7, QuietKeeps DEF Waited, stored, memory
  <2>3. TellingKept
    BY <1>7 DEF Waited, TellingKept, stored, memory
  <2> QED
    BY <2>1, <2>2, <2>3 DEF Ordinary
<1>8. ASSUME Finalize(t) PROVE Ordinary
  <2>1. SpecialKept
    <3>1. thread[t].at \notin Special
      BY <1>8 DEF Finalize, At, Special, Starting, Telling
    <3> QED
      BY <1>8, <3>1, <1>0, GotoSpecial, OrdinaryNames DEF Finalize
  <2>2. EndsOnly /\ ToldKept /\ FencesKept
    <3>1. \E s \in {"exited", "terminated"}, o \in Outcomes : Close(thread[t].cmd, s, o)
      BY <1>8, OutcomeNames, Zenon DEF Finalize
    <3>2. UNCHANGED <<proc, orphans>>
      BY <1>8 DEF Finalize
    <3> QED
      BY <1>0, <3>1, <3>2, CloseKeeps
  <2>3. TellingKept
    BY <1>8 DEF Finalize, TellingKept, stored, memory
  <2> QED
    BY <2>1, <2>2, <2>3 DEF Ordinary
<1>9. ASSUME Stamp(t) PROVE Ordinary
  <2>1. SpecialKept
    BY <1>9, <1>0, GotoSpecial, OrdinaryNames, ReasonNames DEF Stamp, At, Special, Starting, Telling
  <2>2. EndsOnly /\ ToldKept /\ FencesKept
    <3>1. \E o \in Outcomes : rec' = [rec EXCEPT ![thread[t].cmd].reason = o]
      BY <1>9, <1>0, OutcomeNames, RecordValues DEF Stamp
    <3>2. UNCHANGED <<proc, orphans>>
      BY <1>9 DEF Stamp
    <3> QED
      BY <1>0, <3>1, <3>2, FieldKeeps
  <2>3. TellingKept
    BY <1>9 DEF Stamp, TellingKept, stored, memory
  <2> QED
    BY <2>1, <2>2, <2>3 DEF Ordinary
<1>10. ASSUME KillJudge(t) PROVE Ordinary
  <2>1. SpecialKept
    <3>1. thread[t].at \notin Special
      BY <1>10 DEF KillJudge, At, Special, Starting, Telling
    <3>2. Goto(t, "claimKill") \/ Goto(t, "signalled") \/ Return(t)
      BY <1>10 DEF KillJudge
    <3> QED
      BY <1>0, <3>1, <3>2, StopSpecial, GotoSpecial, OrdinaryNames, ReasonNames
  <2>2. EndsOnly /\ ToldKept /\ FencesKept
    BY <1>10, QuietKeeps DEF KillJudge, Alive, TypeOK, stored, memory
  <2>3. TellingKept
    BY <1>10 DEF KillJudge, TellingKept, stored, memory
  <2> QED
    BY <2>1, <2>2, <2>3 DEF Ordinary
<1>11. ASSUME ClaimKill(t) PROVE Ordinary
  <2>1. SpecialKept
    BY <1>11, <1>0, GotoSpecial, OrdinaryNames DEF ClaimKill, At, Special, Starting, Telling
  <2>2. EndsOnly /\ ToldKept /\ FencesKept
    <3>1. \E x \in {"none", "SIGINT", "SIGTERM", "SIGKILL"} : rec' = [rec EXCEPT ![thread[t].cmd].sig = x]
      BY <1>11, <1>0, OutcomeNames, RecordValues DEF ClaimKill
    <3>2. UNCHANGED <<proc, orphans>>
      BY <1>11 DEF ClaimKill
    <3> QED
      BY <1>0, <3>1, <3>2, FieldKeeps
  <2>3. TellingKept
    BY <1>11 DEF ClaimKill, TellingKept, stored, memory
  <2> QED
    BY <2>1, <2>2, <2>3 DEF Ordinary
<1>12. ASSUME SignalKill(t) PROVE Ordinary
  <2>1. SpecialKept
    <3>1. thread[t].at \notin Special
      BY <1>12 DEF SignalKill, At, Special, Starting, Telling
    <3>2. Goto(t, "waitKill") \/ Goto(t, "finishKill")
      BY <1>12 DEF SignalKill
    <3> QED
      BY <1>0, <3>1, <3>2, StopSpecial, GotoSpecial, OrdinaryNames, ReasonNames
  <2>2. EndsOnly /\ ToldKept /\ FencesKept
    BY <1>12, QuietKeeps DEF SignalKill, Alive, TypeOK, stored, memory
  <2>3. TellingKept
    BY <1>12 DEF SignalKill, TellingKept, stored, memory
  <2> QED
    BY <2>1, <2>2, <2>3 DEF Ordinary
<1>13. ASSUME WaitedKill(t) PROVE Ordinary
  <2>1. SpecialKept
    BY <1>13, <1>0, GotoSpecial, OrdinaryNames DEF WaitedKill, At, Special, Starting, Telling
  <2>2. EndsOnly /\ ToldKept /\ FencesKept
    BY <1>13, QuietKeeps DEF WaitedKill, stored, memory
  <2>3. TellingKept
    BY <1>13 DEF WaitedKill, TellingKept, stored, memory
  <2> QED
    BY <2>1, <2>2, <2>3 DEF Ordinary
<1>14. ASSUME FinalizeKill(t) PROVE Ordinary
  <2>1. SpecialKept
    BY <1>14, <1>0, GotoSpecial, OrdinaryNames DEF FinalizeKill, At, Special, Starting, Telling
  <2>2. EndsOnly /\ ToldKept /\ FencesKept
    <3>1. \E s \in {"exited", "terminated"}, o \in Outcomes : Close(thread[t].cmd, s, o)
      BY <1>14, OutcomeNames, Zenon DEF FinalizeKill
    <3>2. UNCHANGED <<proc, orphans>>
      BY <1>14 DEF FinalizeKill
    <3> QED
      BY <1>0, <3>1, <3>2, CloseKeeps
  <2>3. TellingKept
    BY <1>14 DEF FinalizeKill, TellingKept, stored, memory
  <2> QED
    BY <2>1, <2>2, <2>3 DEF Ordinary
<1>15. ASSUME fireCommandAwaits(t) PROVE Ordinary
  <2>1. SpecialKept
    <3>1. thread[t].at \notin Special
      BY <1>15 DEF fireCommandAwaits, At, Special, Starting, Telling
    <3>2. Outstanding(thread[t].cmd) \in Nat
      BY <1>0, WaitsType
    <3>3. AfterFire(t) \/ thread' = [thread EXCEPT ![t].at = "deliver", ![t].hand = Outstanding(thread[t].cmd)]
      BY <1>15 DEF fireCommandAwaits
    <3> QED
      BY <1>0, <3>1, <3>2, <3>3, StopSpecial, GotoSpecial, OrdinaryNames
  <2>2. EndsOnly /\ ToldKept /\ FencesKept
    BY <1>15, QuietKeeps DEF fireCommandAwaits, stored, memory
  <2>3. TellingKept
    BY <1>15, OwedTells DEF fireCommandAwaits, memory
  <2> QED
    BY <2>1, <2>2, <2>3 DEF Ordinary
<1>16. ASSUME Deliver(t) PROVE Ordinary
  <2>1. SpecialKept
    <3>1. thread[t].at \notin Special
      BY <1>16 DEF Deliver, At, Special, Starting, Telling
    <3>2. Return(t) \/ thread' = [thread EXCEPT ![t].at = "notify", ![t].hand = 0]
      BY <1>16 DEF Deliver
    <3> QED
      BY <1>0, <3>1, <3>2, StopSpecial, GotoSpecial, OrdinaryNames, ReasonNames
  <2>2. EndsOnly /\ ToldKept /\ FencesKept
    BY <1>16, QuietKeeps DEF Deliver, stored, memory
  <2>3. TellingKept
    BY <1>16, OwedTells DEF Deliver, memory
  <2> QED
    BY <2>1, <2>2, <2>3 DEF Ordinary
<1>17. ASSUME fireUntilAwaits(t) PROVE Ordinary
  <2>1. SpecialKept
    <3>1. thread[t].at \notin Special
      BY <1>17 DEF fireUntilAwaits, At, Special, Starting, Telling
    <3>2. waits[thread[t].cmd].until \in Nat
      BY <1>0, WaitsType
    <3>3. \/ Return(t) \/ thread' = [thread EXCEPT ![t].at = "fire", ![t].why = "await"]
          \/ thread' = [thread EXCEPT ![t].at = "deliver", ![t].hand = waits[thread[t].cmd].until]
      BY <1>17 DEF fireUntilAwaits
    <3> QED
      BY <1>0, <3>1, <3>2, <3>3, StopSpecial, GotoSpecial, OrdinaryNames, ReasonNames
  <2>2. EndsOnly /\ ToldKept /\ FencesKept
    BY <1>17, QuietKeeps DEF fireUntilAwaits, stored, memory
  <2>3. TellingKept
    BY <1>17 DEF fireUntilAwaits, TellingKept, stored, memory
  <2> QED
    BY <2>1, <2>2, <2>3 DEF Ordinary
<1>18. ASSUME EnlistOver(t) PROVE Ordinary
  <2>1. SpecialKept
    BY <1>18, <1>0, GotoSpecial, OrdinaryNames, ReasonNames DEF EnlistOver, At, Special, Starting, Telling
  <2>2. EndsOnly /\ ToldKept /\ FencesKept
    BY <1>18, QuietKeeps DEF EnlistOver, stored, memory
  <2>3. TellingKept
    BY <1>18, OwedTells DEF EnlistOver, Enlist, memory
  <2> QED
    BY <2>1, <2>2, <2>3 DEF Ordinary
<1>19. ASSUME Register(t) PROVE Ordinary
  <2>1. SpecialKept
    <3>1. thread[t].at \notin Special
      BY <1>19 DEF Register, At, Special, Starting, Telling
    <3>2. Return(t) \/ (\E l \in {"fire", "recheck"}, w \in {"await", "recheck"} : thread' = [thread EXCEPT ![t].at = l, ![t].why = w])
      BY <1>19, Zenon DEF Register
    <3> QED
      BY <1>0, <3>1, <3>2, StopSpecial, GotoSpecial, OrdinaryNames, ReasonNames
  <2>2. EndsOnly /\ ToldKept /\ FencesKept
    BY <1>19, QuietKeeps DEF Register, stored, memory
  <2>3. TellingKept
    BY <1>19, OwedTells DEF Register, Enlist, memory
  <2> QED
    BY <2>1, <2>2, <2>3 DEF Ordinary
<1>20. ASSUME Recheck(t) PROVE Ordinary
  <2>1. SpecialKept
    <3>1. thread[t].at \notin Special
      BY <1>20 DEF Recheck, At, Special, Starting, Telling
    <3>2. Goto(t, "fireUntil") \/ Return(t)
      BY <1>20 DEF Recheck
    <3> QED
      BY <1>0, <3>1, <3>2, StopSpecial, GotoSpecial, OrdinaryNames, ReasonNames
  <2>2. EndsOnly /\ ToldKept /\ FencesKept
    BY <1>20, QuietKeeps DEF Recheck, stored, memory
  <2>3. TellingKept
    BY <1>20 DEF Recheck, TellingKept, stored, memory
  <2> QED
    BY <2>1, <2>2, <2>3 DEF Ordinary
<1>21. ASSUME clearAwaitsForCommand(t) PROVE Ordinary
  <2>1. SpecialKept
    <3>1. thread[t].at \notin Special
      BY <1>21 DEF clearAwaitsForCommand, At, Special, Starting, Telling
    <3>2. Return(t)
      BY <1>21 DEF clearAwaitsForCommand
    <3> QED
      BY <1>0, <3>1, <3>2, StopSpecial, GotoSpecial, OrdinaryNames, ReasonNames
  <2>2. EndsOnly /\ ToldKept /\ FencesKept
    BY <1>21, QuietKeeps DEF clearAwaitsForCommand, stored, memory
  <2>3. TellingKept
    BY <1>21, OwedTells DEF clearAwaitsForCommand, memory
  <2> QED
    BY <2>1, <2>2, <2>3 DEF Ordinary
<1>22. ASSUME RecordWatch(t) PROVE Ordinary
  <2>1. SpecialKept
    <3>1. thread[t].at \notin Special
      BY <1>22 DEF RecordWatch, At, Special, Starting, Telling
    <3>2. Return(t)
      BY <1>22 DEF RecordWatch
    <3> QED
      BY <1>0, <3>1, <3>2, StopSpecial, GotoSpecial, OrdinaryNames, ReasonNames
  <2>2. EndsOnly /\ ToldKept /\ FencesKept
    <3> DEFINE c == thread[t].cmd
    <3>1. thread[t].why \in Watch /\ rec[c] \in CommandRecords
      BY <1>22, <1>0 DEF RecordWatch, At, TypeOK, ThreadStates
    <3>2. rec' = [rec EXCEPT ![c] = [rec[c] EXCEPT !.watch = thread[t].why, !.hit = FALSE]] \/ rec' = [rec EXCEPT ![c] = rec[c]]
      BY <1>22, Zenon DEF RecordWatch
    <3>3. [rec[c] EXCEPT !.watch = thread[t].why, !.hit = FALSE] \in CommandRecords
      BY <3>1, RecordEdits
    <3>4. /\ [rec[c] EXCEPT !.watch = thread[t].why, !.hit = FALSE].st = rec[c].st
          /\ [rec[c] EXCEPT !.watch = thread[t].why, !.hit = FALSE].told = rec[c].told
      BY <3>1 DEF CommandRecords
    <3>5. UNCHANGED <<proc, orphans>>
      BY <1>22 DEF RecordWatch
    <3>6. \E r \in CommandRecords : rec' = [rec EXCEPT ![c] = r] /\ r.st = rec[c].st /\ r.told = rec[c].told
      BY <3>1, <3>2, <3>3, <3>4
    <3> QED
      BY <1>0, <3>5, <3>6, EditKeeps
  <2>3. TellingKept
    BY <1>22 DEF RecordWatch, TellingKept, stored, memory
  <2> QED
    BY <2>1, <2>2, <2>3 DEF Ordinary
<1> QED
  BY <1>1, <1>2, <1>3, <1>4, <1>5, <1>6, <1>7, <1>8, <1>9, <1>10, <1>11, <1>12, <1>13, <1>14, <1>15, <1>16, <1>17, <1>18, <1>19, <1>20, <1>21, <1>22 DEF OrdinaryCall

LEMMA CommandOrdinary ==
    ASSUME TypeOK, NEW c \in Commands, Output(c) \/ Exit(c) \/ QueueStep(c) \/ TimerStep(c) \/ interrupt(c) \/ cancelAwaitsForGoal(c)
    PROVE  Ordinary
<1>1. ASSUME FeedOutput(c) PROVE Ordinary
  <2>1. SpecialKept
    <3>1. thread[<<"queue", c>>].at \notin Special /\ <<"queue", c>> \in Threads
      BY <1>1, ThreadNames DEF FeedOutput, Ready, At, Special, Starting, Telling
    <3>2. \E w \in {"unwatched", "matched", "until", "output"} :
             thread' = [thread EXCEPT ![<<"queue", c>>] = [Idle EXCEPT !.at = "persist", !.cmd = c, !.why = w]]
      BY <1>1, FedNames, Zenon DEF FeedOutput, Work
    <3> QED
      BY <3>1, <3>2, BeginSpecial, OrdinaryNames, ReasonNames
  <2>2. EndsOnly /\ ToldKept /\ FencesKept
    BY <1>1, QuietKeeps DEF FeedOutput, stored, memory
  <2>3. TellingKept
    BY <1>1 DEF FeedOutput, TellingKept, stored, memory
  <2> QED
    BY <2>1, <2>2, <2>3 DEF Ordinary
<1>2. ASSUME PersistOutput(c) PROVE Ordinary
  <2>1. SpecialKept
    <3>1. thread[<<"queue", c>>].at \notin Special /\ thread[<<"queue", c>>].at \notin Resting /\ <<"queue", c>> \in Threads
      BY <1>2, ThreadNames DEF PersistOutput, Resting, At, Special, Starting, Telling
    <3>2. thread' = [thread EXCEPT ![<<"queue", c>>].at = "fireUntil", ![<<"queue", c>>].why = "output"]
      BY <1>2 DEF PersistOutput
    <3> QED
      BY <3>1, <3>2, GotoSpecial, OrdinaryNames, ReasonNames
  <2>2. EndsOnly /\ ToldKept /\ FencesKept
    <3>1. \E x \in BOOLEAN : rec' = [rec EXCEPT ![c].hit = x]
      BY <1>2, OutcomeNames, RecordValues DEF PersistOutput
    <3>2. UNCHANGED <<proc, orphans>>
      BY <1>2 DEF PersistOutput
    <3> QED
      BY <3>1, <3>2, FieldKeeps
  <2>3. TellingKept
    BY <1>2 DEF PersistOutput, TellingKept, stored, memory
  <2> QED
    BY <2>1, <2>2, <2>3 DEF Ordinary
<1>3. ASSUME flushWatch(c) PROVE Ordinary
  <2>1. SpecialKept
    BY <1>3 DEF flushWatch, SpecialKept
  <2>2. EndsOnly /\ ToldKept /\ FencesKept
    BY <1>3, QuietKeeps DEF flushWatch, stored, memory
  <2>3. TellingKept
    BY <1>3 DEF flushWatch, TellingKept, stored, memory
  <2> QED
    BY <2>1, <2>2, <2>3 DEF Ordinary
<1>4. ASSUME UntilClaim(c) PROVE Ordinary
  <2>1. SpecialKept
    <3>1. thread[<<"queue", c>>].at \notin Special /\ <<"queue", c>> \in Threads
      BY <1>4, ThreadNames DEF UntilClaim, Ready, At, Special, Starting, Telling
    <3>2. \/ UNCHANGED thread
          \/ thread' = [thread EXCEPT ![<<"queue", c>>] = [Idle EXCEPT !.at = "ask", !.cmd = c, !.why = "until"]]
      BY <1>4 DEF UntilClaim, Work
    <3>3. CASE UNCHANGED thread
      BY <3>3 DEF SpecialKept
    <3> QED
      BY <3>1, <3>2, <3>3, BeginSpecial, OrdinaryNames, ReasonNames
  <2>2. EndsOnly /\ ToldKept /\ FencesKept
    <3>1. CASE UNCHANGED rec
      BY <1>4, <3>1, QuietKeeps DEF UntilClaim
    <3>2. CASE Known(c) /\ rec' = [rec EXCEPT ![c].hit = watcher[c].st = "matched", ![c].told = @ \/ StopsOnMatch(watcher[c].watch)]
      <4>1. rec[c] \in CommandRecords /\ rec[c].told \in BOOLEAN
        BY RecordsType, RecordValues
      <4>2. rec' = [rec EXCEPT ![c] = [rec[c] EXCEPT !.hit = watcher[c].st = "matched", !.told = rec[c].told \/ StopsOnMatch(watcher[c].watch)]]
        BY <3>2 DEF TypeOK
      <4>3. (watcher[c].st = "matched") \in BOOLEAN /\ (rec[c].told \/ StopsOnMatch(watcher[c].watch)) \in BOOLEAN
        BY <4>1
      <4>4. [rec[c] EXCEPT !.hit = watcher[c].st = "matched", !.told = rec[c].told \/ StopsOnMatch(watcher[c].watch)] \in CommandRecords
        BY <4>1, <4>3, RecordEdits, Zenon
      <4>5. \A x, y : [rec[c] EXCEPT !.hit = x, !.told = y].st = rec[c].st /\ [rec[c] EXCEPT !.hit = x, !.told = y].told = y
        BY <4>1 DEF CommandRecords
      <4>6. \A r \in CommandRecords : rec' = [rec EXCEPT ![c] = r] /\ r.st = rec[c].st /\ (rec[c].told => r.told) => EndsOnly /\ ToldKept /\ FencesKept
        <5>1. UNCHANGED <<proc, orphans>>
          BY <1>4 DEF UntilClaim
        <5> QED
          BY <3>2, <5>1, EditKeeps
      <4> QED
        <5> DEFINE r == [rec[c] EXCEPT !.hit = watcher[c].st = "matched", !.told = rec[c].told \/ StopsOnMatch(watcher[c].watch)]
        <5>1. r \in CommandRecords /\ rec' = [rec EXCEPT ![c] = r]
          BY <4>2, <4>4
        <5>2. r.st = rec[c].st
          BY <4>5
        <5>3. r.told = (rec[c].told \/ StopsOnMatch(watcher[c].watch))
          BY <4>5, Zenon
        <5> HIDE DEF r
        <5> QED
          BY <4>6, <5>1, <5>2, <5>3
    <3> QED
      BY <1>4, <3>1, <3>2 DEF UntilClaim
  <2>3. TellingKept
    BY <1>4 DEF UntilClaim, TellingKept, stored, memory
  <2> QED
    BY <2>1, <2>2, <2>3 DEF Ordinary
<1>5. ASSUME ExitHeard(c) PROVE Ordinary
  <2>1. SpecialKept
    <3>1. thread[<<"queue", c>>].at \notin Special /\ <<"queue", c>> \in Threads
      BY <1>5, ThreadNames DEF ExitHeard, Ready, At, Special, Starting, Telling
    <3>2. \E w \in {"exited", "signalled"} : thread' = [thread EXCEPT ![<<"queue", c>>] = [Idle EXCEPT !.at = "exit", !.cmd = c, !.why = w]]
      BY <1>5 DEF ExitHeard, Work
    <3> QED
      BY <3>1, <3>2, BeginSpecial, OrdinaryNames, ReasonNames
  <2>2. EndsOnly /\ ToldKept /\ FencesKept
    BY <1>5, QuietKeeps DEF ExitHeard, stored, memory
  <2>3. TellingKept
    BY <1>5 DEF ExitHeard, TellingKept, stored, memory
  <2> QED
    BY <2>1, <2>2, <2>3 DEF Ordinary
<1>6. ASSUME ExitRecord(c) PROVE Ordinary
  <2>1. SpecialKept
    <3>1. thread[<<"queue", c>>].at \notin Special /\ <<"queue", c>> \in Threads
      BY <1>6, ThreadNames DEF ExitRecord, At, Special, Starting, Telling
    <3>2. thread' = [thread EXCEPT ![<<"queue", c>>] = [Idle EXCEPT !.at = "fire", !.cmd = c, !.why = "exit"]]
      BY <1>6 DEF ExitRecord, Work
    <3> QED
      BY <3>1, <3>2, BeginSpecial, OrdinaryNames, ReasonNames
  <2>2. EndsOnly /\ ToldKept /\ FencesKept
    <3>1. UNCHANGED <<proc, orphans>>
      BY <1>6 DEF ExitRecord
    <3>2. rec[c] \in CommandRecords
      BY RecordsType
    <3>3. CASE rec[c].st = "running" /\ rec[c].reason # "timeout"
      <4>1. PICK how : rec' = [rec EXCEPT ![c] = Ended(c, how)]
        BY <1>6, <3>3, Zenon DEF ExitRecord
      <4>2. Ended(c, how) \in CommandRecords
        BY EndedType
      <4>3. Ended(c, how).st \in {"exited", "terminated"} /\ Ended(c, how).told = rec[c].told
        BY <3>2 DEF Ended, CommandRecords
      <4> QED
        BY <3>1, <3>3, <4>1, <4>2, <4>3, EditKeeps
    <3>4. CASE ~(rec[c].st = "running" /\ rec[c].reason # "timeout")
      <4>1. rec' = [rec EXCEPT ![c] = rec[c]]
        BY <1>6, <3>4, Zenon DEF ExitRecord
      <4> QED
        BY <3>1, <3>2, <4>1, EditKeeps
    <3> QED
      BY <3>3, <3>4
  <2>3. TellingKept
    BY <1>6 DEF ExitRecord, TellingKept, stored, memory
  <2> QED
    BY <2>1, <2>2, <2>3 DEF Ordinary
<1>7. ASSUME FlushTimer(c) PROVE Ordinary
  <2>1. SpecialKept
    BY <1>7 DEF FlushTimer, SpecialKept
  <2>2. EndsOnly /\ ToldKept /\ FencesKept
    BY <1>7, QuietKeeps DEF FlushTimer, stored, memory
  <2>3. TellingKept
    BY <1>7 DEF FlushTimer, TellingKept, stored, memory
  <2> QED
    BY <2>1, <2>2, <2>3 DEF Ordinary
<1>8. ASSUME Deadline(c) PROVE Ordinary
  <2>1. SpecialKept
    <3>1. thread[<<"timer", c>>].at \notin Special /\ <<"timer", c>> \in Threads
      BY <1>8, ThreadNames DEF Deadline, At, Special, Starting, Telling
    <3>2. \/ UNCHANGED thread
          \/ thread' = [thread EXCEPT ![<<"timer", c>>] = [Idle EXCEPT !.at = "ask", !.cmd = c, !.why = "timeout"]]
      BY <1>8 DEF Deadline
    <3>3. CASE UNCHANGED thread
      BY <3>3 DEF SpecialKept
    <3> QED
      BY <3>1, <3>2, <3>3, BeginSpecial, OrdinaryNames, ReasonNames
  <2>2. EndsOnly /\ ToldKept /\ FencesKept
    BY <1>8, QuietKeeps DEF Deadline, stored, memory
  <2>3. TellingKept
    BY <1>8 DEF Deadline, TellingKept, stored, memory
  <2> QED
    BY <2>1, <2>2, <2>3 DEF Ordinary
<1>9. ASSUME retryOwnerNotification(c) PROVE Ordinary
  <2>1. SpecialKept
    <3>1. thread[<<"timer", c>>].at \notin Special /\ <<"timer", c>> \in Threads
      BY <1>9, ThreadNames DEF retryOwnerNotification, At, Special, Starting, Telling
    <3>2. thread' = [thread EXCEPT ![<<"timer", c>>] = [Idle EXCEPT !.at = "notify", !.cmd = c, !.why = "again"]]
      BY <1>9 DEF retryOwnerNotification
    <3> QED
      BY <3>1, <3>2, BeginSpecial, OrdinaryNames, ReasonNames
  <2>2. EndsOnly /\ ToldKept /\ FencesKept
    BY <1>9, QuietKeeps DEF retryOwnerNotification, stored, memory
  <2>3. TellingKept
    BY <1>9 DEF retryOwnerNotification, TellingKept, stored, memory
  <2> QED
    BY <2>1, <2>2, <2>3 DEF Ordinary
<1>10. ASSUME Output(c) PROVE Ordinary
  <2>1. SpecialKept
    BY <1>10 DEF Output, SpecialKept
  <2>2. EndsOnly /\ ToldKept /\ FencesKept
    BY <1>10, QuietKeeps DEF Output, stored, memory
  <2>3. TellingKept
    BY <1>10 DEF Output, TellingKept, stored, memory
  <2> QED
    BY <2>1, <2>2, <2>3 DEF Ordinary
<1>11. ASSUME Exit(c) PROVE Ordinary
  <2>1. SpecialKept
    BY <1>11 DEF Exit, SpecialKept
  <2>2. EndsOnly /\ ToldKept /\ FencesKept
    BY <1>11, QuietKeeps DEF Exit, TypeOK, stored, memory
  <2>3. TellingKept
    BY <1>11 DEF Exit, TellingKept, stored, memory
  <2> QED
    BY <2>1, <2>2, <2>3 DEF Ordinary
<1>12. ASSUME interrupt(c) PROVE Ordinary
  <2>1. SpecialKept
    BY <1>12 DEF interrupt, SpecialKept
  <2>2. EndsOnly /\ ToldKept /\ FencesKept
    <3>1. \E x \in {"none", "SIGINT", "SIGTERM", "SIGKILL"} : rec' = [rec EXCEPT ![c].sig = x]
      BY <1>12, OutcomeNames, RecordValues DEF interrupt
    <3>2. UNCHANGED <<proc, orphans>>
      BY <1>12 DEF interrupt
    <3> QED
      BY <3>1, <3>2, FieldKeeps
  <2>3. TellingKept
    BY <1>12 DEF interrupt, TellingKept, stored, memory
  <2> QED
    BY <2>1, <2>2, <2>3 DEF Ordinary
<1>13. ASSUME cancelAwaitsForGoal(c) PROVE Ordinary
  <2>1. SpecialKept
    BY <1>13 DEF cancelAwaitsForGoal, SpecialKept
  <2>2. EndsOnly /\ ToldKept /\ FencesKept
    BY <1>13, QuietKeeps DEF cancelAwaitsForGoal, stored, memory
  <2>3. TellingKept
    BY <1>13, OwedTells DEF cancelAwaitsForGoal, memory
  <2> QED
    BY <2>1, <2>2, <2>3 DEF Ordinary
<1> QED
  BY <1>1, <1>2, <1>3, <1>4, <1>5, <1>6, <1>7, <1>8, <1>9, <1>10, <1>11, <1>12, <1>13 DEF QueueStep, TimerStep

LEMMA ToolOrdinary ==
    ASSUME TypeOK, Tool, \A t \in Callers, c \in Commands, s \in Specs : ~AskStart(t, c, s)
    PROVE  Ordinary
<1>1. ASSUME NEW t \in Callers, NEW c \in Commands, NEW how \in {"terminate", "kill", "restart", "remove"}, AskStop(t, c, how) PROVE Ordinary
  <2>1. SpecialKept
    <3>1. thread[t].at \notin Special /\ t \in Threads
      BY <1>1, ThreadNames DEF AskStop, At, Special, Starting, Telling
    <3>2. \E l \in {"askKill", "restart", "ask"} : thread' = [thread EXCEPT ![t] = [Idle EXCEPT !.cmd = c, !.why = how, !.at = l]]
      BY <1>1, Zenon DEF AskStop
    <3>3. how \in Reasons /\ {"askKill", "restart", "ask"} \subseteq (Labels \ Parameterised) \ Special
      BY OrdinaryNames, ReasonNames
    <3>4. \E l \in (Labels \ Parameterised) \ Special, w \in Reasons :
              thread' = [thread EXCEPT ![t] = [Idle EXCEPT !.cmd = c, !.why = w, !.at = l]]
      BY <3>2, <3>3, Zenon
    <3> QED
      BY <3>1, <3>4, BeginSpecial, OrdinaryNames, ReasonNames
  <2>2. EndsOnly /\ ToldKept /\ FencesKept
    BY <1>1, QuietKeeps DEF AskStop, stored, memory
  <2>3. TellingKept
    BY <1>1 DEF AskStop, TellingKept, stored, memory
  <2> QED
    BY <2>1, <2>2, <2>3 DEF Ordinary
<1>2. ASSUME NEW t \in Callers, NEW c \in Commands, AskRemove(t, c) PROVE Ordinary
  <2>1. SpecialKept
    <3>1. thread[t].at \notin Special /\ t \in Threads
      BY <1>2, ThreadNames DEF AskRemove, At, Special, Starting, Telling
    <3>2. thread' = [thread EXCEPT ![t] = [Idle EXCEPT !.at = "remove", !.cmd = c, !.why = "remove"]]
      BY <1>2 DEF AskRemove
    <3> QED
      BY <3>1, <3>2, BeginSpecial, OrdinaryNames, ReasonNames
  <2>2. EndsOnly /\ ToldKept /\ FencesKept
    BY <1>2, QuietKeeps DEF AskRemove, stored, memory
  <2>3. TellingKept
    BY <1>2 DEF AskRemove, TellingKept, stored, memory
  <2> QED
    BY <2>1, <2>2, <2>3 DEF Ordinary
<1>3. ASSUME NEW t \in Callers, NEW c \in Commands, NEW kind \in {"exit", "until"}, AskAwait(t, c, kind) PROVE Ordinary
  <2>1. SpecialKept
    <3>1. thread[t].at \notin Special /\ t \in Threads
      BY <1>3, ThreadNames DEF AskAwait, At, Special, Starting, Telling
    <3>2. \E l \in {"register", "enlist"} : thread' = [thread EXCEPT ![t] = [Idle EXCEPT !.cmd = c, !.why = kind, !.at = l]]
      BY <1>3 DEF AskAwait
    <3>3. \E l \in Parameterised : Goes(t, l, c)
      BY <3>1, <3>2, BeginGoes, LabelNames, ReasonNames, SpecsAssumption DEF Parameterised
    <3> QED
      BY <3>1, <3>3, GoesSpecial, OrdinaryNames
  <2>2. EndsOnly /\ ToldKept /\ FencesKept
    BY <1>3, QuietKeeps DEF AskAwait, stored, memory
  <2>3. TellingKept
    BY <1>3 DEF AskAwait, TellingKept, stored, memory
  <2> QED
    BY <2>1, <2>2, <2>3 DEF Ordinary
<1>4. ASSUME NEW t \in Callers, NEW c \in Commands, NEW w \in Watches, AskWatch(t, c, w) PROVE Ordinary
  <2>1. SpecialKept
    <3>1. thread[t].at \notin Special /\ t \in Threads
      BY <1>4, ThreadNames DEF AskWatch, At, Special, Starting, Telling
    <3>2. thread' = [thread EXCEPT ![t] = [Idle EXCEPT !.at = "watch", !.cmd = c, !.why = w]]
      BY <1>4 DEF AskWatch
    <3>3. \E l \in Parameterised : Goes(t, l, c)
      BY <3>1, <3>2, BeginGoes, LabelNames, ReasonNames, SpecsAssumption DEF Parameterised
    <3> QED
      BY <3>1, <3>3, GoesSpecial, OrdinaryNames
  <2>2. EndsOnly /\ ToldKept /\ FencesKept
    BY <1>4, QuietKeeps DEF AskWatch, stored, memory
  <2>3. TellingKept
    BY <1>4 DEF AskWatch, TellingKept, stored, memory
  <2> QED
    BY <2>1, <2>2, <2>3 DEF Ordinary
<1> QED
  BY <1>1, <1>2, <1>3, <1>4 DEF Tool

LEMMA PluginOrdinary ==
    ASSUME TypeOK, PluginStep \/ Dispose
    PROVE  Ordinary
<1>1. ASSUME ReconcileRead PROVE Ordinary
  <2>1. SpecialKept
    <3>1. thread[Plugin].at \notin Special /\ Plugin \in Threads /\ "loop" \in Resting
      BY <1>1, ThreadNames DEF ReconcileRead, Resting, At, Special, Starting, Telling
    <3>2. Goes(Plugin, "loop", thread[Plugin].cmd)
      BY <1>1, <3>1, GotoGoes, LabelNames DEF ReconcileRead
    <3>3. "loop" \notin Special
      BY DEF Special, Starting, Telling
    <3> QED
      BY <3>1, <3>2, <3>3 DEF SpecialKept, Goes
  <2>2. EndsOnly /\ ToldKept /\ FencesKept
    BY <1>1, QuietKeeps DEF ReconcileRead, stored, memory
  <2>3. TellingKept
    BY <1>1 DEF ReconcileRead, TellingKept, stored, memory
  <2> QED
    BY <2>1, <2>2, <2>3 DEF Ordinary
<1>2. ASSUME reconcileCommandAwaits PROVE Ordinary
  <2>1. SpecialKept
    <3>1. thread[Plugin].at \notin Special /\ Plugin \in Threads
      BY <1>2, ThreadNames DEF reconcileCommandAwaits, At, Special, Starting, Telling
    <3>2. (\E c \in Commands : thread' = [thread EXCEPT ![Plugin] = [Idle EXCEPT !.at = "fire", !.cmd = c, !.why = "await"]]) \/ thread' = [thread EXCEPT ![Plugin] = Idle]
      BY <1>2 DEF reconcileCommandAwaits, Turn
    <3>3. CASE thread' = [thread EXCEPT ![Plugin] = Idle]
      BY <3>1, <3>3 DEF SpecialKept, Idle, Special, Starting, Telling, TypeOK
    <3> QED
      BY <3>1, <3>2, <3>3, BeginSpecial, OrdinaryNames, ReasonNames
  <2>2. EndsOnly /\ ToldKept /\ FencesKept
    BY <1>2, QuietKeeps DEF reconcileCommandAwaits, stored, memory
  <2>3. TellingKept
    BY <1>2 DEF reconcileCommandAwaits, TellingKept, stored, memory
  <2> QED
    BY <2>1, <2>2, <2>3 DEF Ordinary
<1>3. ASSUME NEW c \in Commands, ReconcileOver(c) PROVE Ordinary
  <2>1. SpecialKept
    <3>1. thread[Plugin].at \notin Special /\ Plugin \in Threads
      BY <1>3, ThreadNames DEF ReconcileOver, At, Special, Starting, Telling
    <3>2. thread' = [thread EXCEPT ![Plugin] = [Idle EXCEPT !.at = "notify", !.cmd = c, !.why = "boot"]]
      BY <1>3 DEF ReconcileOver, Turn
    <3> QED
      BY <3>1, <3>2, BeginSpecial, OrdinaryNames, ReasonNames
  <2>2. EndsOnly /\ ToldKept /\ FencesKept
    BY <1>3, QuietKeeps DEF ReconcileOver, stored, memory
  <2>3. TellingKept
    BY <1>3 DEF ReconcileOver, TellingKept, stored, memory
  <2> QED
    BY <2>1, <2>2, <2>3 DEF Ordinary
<1>4. ASSUME NEW c \in Commands, ReconcileRunning(c) PROVE Ordinary
  <2>1. SpecialKept
    <3>1. thread[Plugin].at \notin Special /\ Plugin \in Threads
      BY <1>4, ThreadNames DEF ReconcileRunning, At, Special, Starting, Telling
    <3>2. UNCHANGED thread \/ thread' = [thread EXCEPT ![Plugin] = [Idle EXCEPT !.at = "fire", !.cmd = c, !.why = "boot"]]
      BY <1>4 DEF ReconcileRunning, Turn
    <3>3. CASE UNCHANGED thread
      BY <3>3 DEF SpecialKept
    <3> QED
      BY <3>1, <3>2, <3>3, BeginSpecial, OrdinaryNames, ReasonNames
  <2>2. EndsOnly /\ ToldKept /\ FencesKept
    <3> DEFINE r1 == [rec[c] EXCEPT !.st = "exited", !.reason = "exit"]
               r2 == [rec[c] EXCEPT !.st = "missing", !.reason = "missing"]
    <3>1. rec[c] \in CommandRecords /\ r1 \in CommandRecords /\ r2 \in CommandRecords
      <4>1. rec[c] \in CommandRecords /\ "exited" \in Stopped /\ "missing" \in Stopped
        BY RecordsType DEF Stopped
      <4> QED
        BY <4>1, RecordEdits, OutcomeNames
    <3>2. r1.st = "exited" /\ r1.told = rec[c].told /\ r2.st = "missing" /\ r2.told = rec[c].told
      BY <3>1 DEF CommandRecords
    <3>3. UNCHANGED proc
      BY <1>4 DEF ReconcileRunning
    <3>4. CASE UNCHANGED <<rec, orphans>>
      BY <3>3, <3>4, QuietKeeps
    <3>5. CASE UNCHANGED orphans /\ rec' = [rec EXCEPT ![c] = IF @.st = "running" THEN r1 ELSE @]
      <4>1. PICK r \in CommandRecords : rec' = [rec EXCEPT ![c] = r] /\ ((rec[c].st = "running" /\ r = r1) \/ r = rec[c])
        BY <3>1, <3>5
      <4> QED
        BY <3>1, <3>2, <3>3, <3>5, <4>1, EditKeeps
    <3>6. CASE /\ rec' = [rec EXCEPT ![c].detached = (rec[c].st = "running") \/ @]
               /\ orphans' = IF rec[c].st = "running" THEN orphans \ {c} ELSE orphans
      <4>1. \A d \in Commands : rec'[d].st = rec[d].st /\ rec'[d].told = rec[d].told
        BY <3>6 DEF TypeOK, CommandRecords
      <4>2. rec[c].st = "running" \/ orphans' = orphans
        BY <3>6
      <4>3. orphans \ {c} \subseteq orphans'
        BY <3>6
      <4> QED
        BY <3>3, <4>1, <4>2, <4>3 DEF EndsOnly, ToldKept, FencesKept
    <3>7. CASE /\ rec' = [rec EXCEPT ![c] = IF @.st = "running" THEN r2 ELSE @]
               /\ orphans' = IF rec[c].st = "running" THEN orphans \cup {c} ELSE orphans
      <4>1. \/ rec[c].st = "running" /\ rec' = [rec EXCEPT ![c] = r2] /\ orphans' = orphans \cup {c}
            \/ rec' = [rec EXCEPT ![c] = rec[c]] /\ orphans' = orphans
        BY <3>7
      <4>2. "missing" \in Stopped
        BY DEF Stopped
      <4>3. CASE rec[c].st = "running" /\ rec' = [rec EXCEPT ![c] = r2] /\ orphans' = orphans \cup {c}
        <5>1. rec'[c] = r2 /\ \A d \in Commands : d # c => rec'[d] = rec[d]
          BY <4>3 DEF TypeOK
        <5> QED
          BY <3>2, <3>3, <4>2, <4>3, <5>1 DEF EndsOnly, ToldKept, FencesKept
      <4>4. CASE rec' = [rec EXCEPT ![c] = rec[c]] /\ orphans' = orphans
        BY <3>1, <3>3, <4>4, EditKeeps
      <4> QED
        BY <4>1, <4>3, <4>4
    <3> QED
      BY <1>4, <3>4, <3>5, <3>6, <3>7, Zenon DEF ReconcileRunning
  <2>3. TellingKept
    BY <1>4 DEF ReconcileRunning, TellingKept, stored, memory
  <2> QED
    BY <2>1, <2>2, <2>3 DEF Ordinary
<1>5. ASSUME NEW c \in Commands, DisposeCommand(c) PROVE Ordinary
  <2>1. SpecialKept
    <3>1. thread[Plugin].at \notin Special /\ Plugin \in Threads
      BY <1>5, ThreadNames DEF DisposeCommand, At, Special, Starting, Telling
    <3>2. UNCHANGED thread \/ thread' = [thread EXCEPT ![Plugin] = [Idle EXCEPT !.at = "ask", !.cmd = c, !.why = "control"]]
      BY <1>5 DEF DisposeCommand, Turn
    <3>3. CASE UNCHANGED thread
      BY <3>3 DEF SpecialKept
    <3> QED
      BY <3>1, <3>2, <3>3, BeginSpecial, OrdinaryNames, ReasonNames
  <2>2. EndsOnly /\ ToldKept /\ FencesKept
    <3>1. UNCHANGED rec \/ \E x \in BOOLEAN : rec' = [rec EXCEPT ![c].kept = x]
      BY <1>5, RecordValues DEF DisposeCommand
    <3>2. UNCHANGED <<proc, orphans>>
      BY <1>5 DEF DisposeCommand
    <3> QED
      BY <3>1, <3>2, FieldKeeps, QuietKeeps
  <2>3. TellingKept
    BY <1>5 DEF DisposeCommand, TellingKept, stored, memory
  <2> QED
    BY <2>1, <2>2, <2>3 DEF Ordinary
<1>6. ASSUME Dispose PROVE Ordinary
  <2>1. SpecialKept
    <3>1. thread[Plugin].at \notin Special /\ Plugin \in Threads /\ "dispose" \in Resting
      BY <1>6, ThreadNames DEF Dispose, Resting, At, Special, Starting, Telling
    <3>2. Goes(Plugin, "dispose", thread[Plugin].cmd)
      BY <1>6, <3>1, GotoGoes, LabelNames DEF Dispose
    <3>3. "dispose" \notin Special
      BY DEF Special, Starting, Telling
    <3> QED
      BY <3>1, <3>2, <3>3 DEF SpecialKept, Goes
  <2>2. EndsOnly /\ ToldKept /\ FencesKept
    BY <1>6, QuietKeeps DEF Dispose, stored, memory
  <2>3. TellingKept
    BY <1>6 DEF Dispose, TellingKept, stored, memory
  <2> QED
    BY <2>1, <2>2, <2>3 DEF Ordinary
<1> QED
  BY <1>1, <1>2, <1>3, <1>4, <1>5, <1>6 DEF PluginStep

-----------------------------------------------------------------------------
(* The other steps: a call takes a fresh command, records or drops it,      *)
(* removes its record, or tells its owner.                                  *)
Others(t) == \A u \in Threads \ {t} : thread'[u] = thread[u]
Leaves(t) == Others(t) /\ thread'[t].at \notin Special
Turns(t, from, to) == Others(t) /\ thread[t].at = from /\ thread'[t].at = to /\ thread'[t].cmd = thread[t].cmd

BeginsStart(t) ==
    \E c \in Commands :
        /\ Fresh(c) /\ thread[t].at \notin Special
        /\ Others(t) /\ thread'[t].at = "spawn" /\ thread'[t].cmd = c
        /\ \A d \in Commands : rec'[d].st = rec[d].st /\ (d # c => rec'[d] = rec[d])
        /\ ~rec'[c].told
        /\ UNCHANGED <<proc, orphans, busy, hist>>
Spawns(t) ==
    /\ Turns(t, "spawn", "record")
    /\ \A d \in Commands \ {thread[t].cmd} : proc'[d] = proc[d]
    /\ UNCHANGED <<rec, orphans, busy, hist>>
Records(t) ==
    /\ thread[t].at = "record" /\ Leaves(t)
    /\ rec'[thread[t].cmd].st = "running" /\ rec'[thread[t].cmd].told = rec[thread[t].cmd].told
    /\ \A d \in Commands \ {thread[t].cmd} : rec'[d] = rec[d]
    /\ UNCHANGED <<proc, orphans, busy, hist>>
Drops(t) ==
    /\ thread[t].at \in {"spawn", "rollback", "removing"} /\ Leaves(t)
    /\ rec'[thread[t].cmd].st = "gone" /\ ~rec'[thread[t].cmd].told
    /\ \A d \in Commands \ {thread[t].cmd} : rec'[d] = rec[d] /\ proc'[d] = proc[d] /\ (d \in orphans => d \in orphans')
    /\ UNCHANGED <<busy, hist>>
Prepares(t) ==
    /\ Turns(t, "record", "rollback") \/ (Turns(t, "remove", "removing") /\ rec[thread[t].cmd].st \in Stopped)
    /\ UNCHANGED <<rec, proc, orphans, busy, hist>>
EntersTelling(t) ==
    /\ Turns(t, "notify", "decide")
    /\ thread[t].cmd \notin busy /\ busy' = busy \cup {thread[t].cmd}
    /\ UNCHANGED <<rec, proc, orphans, hist>>
DecidesToSend(t) ==
    /\ Turns(t, "decide", "send")
    /\ rec[thread[t].cmd].st \in Stopped /\ ~rec[thread[t].cmd].told
    /\ UNCHANGED <<rec, proc, orphans, busy, hist>>
GivesUp(t) ==
    /\ thread[t].at \in {"decide", "send"} /\ Leaves(t)
    /\ busy' = busy \ {thread[t].cmd}
    /\ UNCHANGED <<rec, proc, orphans, hist>>
Sends(t) ==
    /\ Turns(t, "send", "mark")
    /\ hist'.pings = [hist.pings EXCEPT ![thread[t].cmd] = @ + 1] /\ hist'.unmarked = hist.unmarked
    /\ UNCHANGED <<rec, proc, orphans, busy>>
Marks(t) ==
    /\ thread[t].at = "mark" /\ Leaves(t)
    /\ busy' = busy \ {thread[t].cmd}
    /\ LET c == thread[t].cmd IN
       /\ rec'[c].st = rec[c].st /\ (rec'[c].told <=> rec[c].told \/ Known(c))
       /\ \A d \in Commands \ {c} : rec'[d] = rec[d]
    /\ UNCHANGED <<proc, orphans, hist>>

SpecialStep(t) ==
    \/ BeginsStart(t) \/ Spawns(t) \/ Records(t) \/ Drops(t) \/ Prepares(t)
    \/ EntersTelling(t) \/ DecidesToSend(t) \/ GivesUp(t) \/ Sends(t) \/ Marks(t)

LEMMA StopLeaves ==
    ASSUME TypeOK, NEW t \in Threads, thread[t].at \notin Resting, AfterStop(t) \/ AfterNotify(t) \/ Return(t) \/ Goto(t, "release") \/ Goto(t, "clearing")
    PROVE  Leaves(t)
<1>1. Proceeds(t, {"stamp", "restart", "remove", "release", "clearing"})
  BY AfterStopProceeds, AfterNotifyProceeds, ReturnReturns, GotoGoes, LabelNames DEF Proceeds
<1>2. {"stamp", "restart", "remove", "release", "clearing"} \cap Special = {} /\ Resting \cap Special = {}
  BY OrdinaryNames
<1> QED
  BY <1>1, <1>2 DEF Proceeds, Returns, Goes, Leaves, Others

LEMMA GotoTurns ==
    ASSUME TypeOK, NEW t \in Threads, thread[t].at \notin Resting, NEW l \in Labels \ Parameterised, Goto(t, l)
    PROVE  Turns(t, thread[t].at, l)
BY GotoGoes DEF Goes, Turns, Others

LEMMA GoneRecord == [Blank EXCEPT !.st = "gone"].st = "gone" /\ ~[Blank EXCEPT !.st = "gone"].told
BY DEF Blank

LEMMA BeginSpecially ==
    ASSUME TypeOK, NEW t \in Threads, NEW c \in Commands, Fresh(c), thread[t].at \notin Special,
           NEW w \in Watch, NEW l \in BOOLEAN, NEW a \in BOOLEAN,
           rec' = [rec EXCEPT ![c] = [Blank EXCEPT !.watch = w, !.limit = l, !.always = a]],
           thread' = [thread EXCEPT ![t] = [Idle EXCEPT !.at = "spawn", !.cmd = c, !.why = "start"]],
           UNCHANGED <<proc, orphans, busy, hist>>
    PROVE  BeginsStart(t)
<1> DEFINE r == [Blank EXCEPT !.watch = w, !.limit = l, !.always = a]
<1>1. r.st = "none" /\ ~r.told
  BY FreshRecord
<1>2. rec' = [rec EXCEPT ![c] = r]
  OBVIOUS
<1> HIDE DEF r
<1>3. rec'[c] = r /\ \A d \in Commands : d # c => rec'[d] = rec[d]
  BY <1>2 DEF TypeOK
<1>4. Goes(t, "spawn", c)
  BY BeginGoes, LabelNames, ReasonNames
<1>5. rec[c].st = "none"
  BY DEF Fresh
<1> QED
  BY <1>1, <1>3, <1>4, <1>5 DEF BeginsStart, Goes, Others

LEMMA CallSpecial ==
    ASSUME TypeOK, NEW t \in Threads, CallStep(t)
    PROVE  Ordinary \/ SpecialStep(t)
<1> DEFINE c == thread[t].cmd
<1>0. thread[t].at \notin Resting /\ c \in Commands
  BY CallsNamed
<1>1. CASE OrdinaryCall(t)
  BY <1>1, CallOrdinary
<1>2. CASE Restart(t)
  <2>1. thread[t].at \notin Special
    BY <1>2 DEF Restart, At, Special, Starting, Telling
  <2>2. CASE Return(t) /\ UNCHANGED rec
    <3>1. SpecialKept
      BY <1>0, <2>1, <2>2, StopSpecial
    <3>2. EndsOnly /\ ToldKept /\ FencesKept
      BY <1>2, <2>2, QuietKeeps DEF Restart
    <3>3. TellingKept
      BY <1>2 DEF Restart, TellingKept, memory
    <3> QED
      BY <3>1, <3>2, <3>3 DEF Ordinary
  <2>3. CASE \E d \in Commands :
                /\ Fresh(d)
                /\ rec' = [rec EXCEPT ![d] = [Blank EXCEPT !.watch = rec[c].watch, !.limit = rec[c].limit, !.always = rec[c].always]]
                /\ thread' = [thread EXCEPT ![t] = [Idle EXCEPT !.at = "spawn", !.cmd = d, !.why = "start"]]
    <3>1. UNCHANGED <<proc, orphans, busy, hist>>
      BY <1>2 DEF Restart, memory
    <3>2. rec[c].watch \in Watch /\ rec[c].limit \in BOOLEAN /\ rec[c].always \in BOOLEAN
      BY <1>0, RecordValues
    <3>3. PICK d \in Commands :
                /\ Fresh(d)
                /\ rec' = [rec EXCEPT ![d] = [Blank EXCEPT !.watch = rec[c].watch, !.limit = rec[c].limit, !.always = rec[c].always]]
                /\ thread' = [thread EXCEPT ![t] = [Idle EXCEPT !.at = "spawn", !.cmd = d, !.why = "start"]]
      BY <2>3, Zenon
    <3> DEFINE w == rec[c].watch
               l == rec[c].limit
               a == rec[c].always
    <3>4. w \in Watch /\ l \in BOOLEAN /\ a \in BOOLEAN
      BY <3>2
    <3>5. rec' = [rec EXCEPT ![d] = [Blank EXCEPT !.watch = w, !.limit = l, !.always = a]]
      BY <3>3
    <3>7. Fresh(d) /\ thread' = [thread EXCEPT ![t] = [Idle EXCEPT !.at = "spawn", !.cmd = d, !.why = "start"]]
      BY <3>3
    <3>8. \A x \in Watch, y \in BOOLEAN, z \in BOOLEAN :
            rec' = [rec EXCEPT ![d] = [Blank EXCEPT !.watch = x, !.limit = y, !.always = z]] => BeginsStart(t)
      BY <2>1, <3>1, <3>7, BeginSpecially
    <3> HIDE DEF w, l, a
    <3>6. BeginsStart(t)
      BY <3>4, <3>5, <3>8, Zenon
    <3> QED
      BY <3>6 DEF SpecialStep
  <2> QED
    BY <1>2, <2>2, <2>3, Zenon DEF Restart
<1>3. CASE Spawn(t)
  <2>1. Turns(t, "spawn", "record")
    BY <1>0, <1>3, GotoTurns, LabelNames DEF Spawn, At
  <2>2. Spawns(t)
    BY <1>0, <1>3, <2>1 DEF Spawn, Spawns, TypeOK, stored, memory
  <2> QED
    BY <2>2 DEF SpecialStep
<1>4. CASE RecordStart(t)
  <2>1. Leaves(t) /\ thread[t].at = "record"
    BY <1>0, <1>4, StopLeaves DEF RecordStart, At
  <2>2. /\ rec'[c].st = "running" /\ rec'[c].told = rec[c].told
        /\ \A d \in Commands \ {c} : rec'[d] = rec[d]
    BY <1>0, <1>4 DEF RecordStart, TypeOK, CommandRecords
  <2>3. Records(t)
    BY <1>4, <2>1, <2>2 DEF RecordStart, Records, memory
  <2> QED
    BY <2>3 DEF SpecialStep
<1>5. CASE StartFails(t)
  <2>1. UNCHANGED <<orphans, proc, busy, hist>>
    BY <1>5 DEF StartFails, memory
  <2>2. CASE At(t, "spawn") /\ rec' = [rec EXCEPT ![c] = [Blank EXCEPT !.st = "gone"]] /\ Return(t)
    <3>1. Leaves(t)
      BY <1>0, <2>2, StopLeaves
    <3>2. rec'[c] = [Blank EXCEPT !.st = "gone"] /\ \A d \in Commands \ {c} : rec'[d] = rec[d]
      BY <1>0, <2>2 DEF TypeOK
    <3>3. Drops(t)
      BY <2>1, <2>2, <3>1, <3>2, GoneRecord DEF Drops, At
    <3> QED
      BY <3>3 DEF SpecialStep
  <2>3. CASE At(t, "record") /\ Goto(t, "rollback") /\ UNCHANGED rec
    <3>1. Turns(t, "record", "rollback")
      BY <1>0, <2>3, GotoTurns, LabelNames DEF At
    <3> QED
      BY <2>1, <2>3, <3>1 DEF Prepares, SpecialStep
  <2> QED
    BY <1>5, <2>2, <2>3 DEF StartFails
<1>6. CASE rollbackStart(t)
  <2>1. Leaves(t) /\ thread[t].at = "rollback"
    BY <1>0, <1>6, StopLeaves DEF rollbackStart, At
  <2>2. rec'[c] = [Blank EXCEPT !.st = "gone"] /\ \A d \in Commands \ {c} : rec'[d] = rec[d] /\ proc'[d] = proc[d]
    BY <1>0, <1>6 DEF rollbackStart, TypeOK
  <2>3. Drops(t)
    BY <1>6, <2>1, <2>2, GoneRecord DEF rollbackStart, Drops
  <2> QED
    BY <2>3 DEF SpecialStep
<1>7. CASE RemoveJudge(t)
  <2>1. UNCHANGED <<rec, orphans, proc, busy, hist>> /\ thread[t].at = "remove"
    BY <1>7 DEF RemoveJudge, stored, At
  <2>2. CASE Removable(c) /\ Goto(t, "removing")
    <3>1. Turns(t, "remove", "removing")
      BY <1>0, <2>1, <2>2, GotoTurns, LabelNames
    <3>2. rec[c].st \in Stopped
      BY <2>2 DEF Removable
    <3> QED
      BY <2>1, <3>1, <3>2 DEF Prepares, SpecialStep
  <2>3. CASE Return(t)
    <3>1. SpecialKept
      BY <1>0, <2>1, <2>3, StopSpecial DEF Special, Starting, Telling
    <3> QED
      BY <2>1, <3>1, QuietKeeps DEF Ordinary, TellingKept
  <2> QED
    BY <1>7, <2>2, <2>3 DEF RemoveJudge
<1>8. CASE RemoveRecord(t)
  <2>1. Leaves(t) /\ thread[t].at = "removing"
    BY <1>0, <1>8, StopLeaves DEF RemoveRecord, At
  <2>2. rec'[c] = [Blank EXCEPT !.st = "gone"] /\ \A d \in Commands \ {c} : rec'[d] = rec[d] /\ (d \in orphans => d \in orphans')
    BY <1>0, <1>8 DEF RemoveRecord, TypeOK
  <2>3. Drops(t)
    BY <1>8, <2>1, <2>2, GoneRecord DEF RemoveRecord, Drops, memory
  <2> QED
    BY <2>3 DEF SpecialStep
<1>9. CASE NotifyEnter(t)
  <2>1. UNCHANGED <<rec, orphans, proc, hist>> /\ thread[t].at = "notify"
    BY <1>9 DEF NotifyEnter, stored, At
  <2>2. CASE AfterNotify(t) /\ UNCHANGED busy
    <3>1. SpecialKept
      BY <1>0, <2>1, <2>2, StopSpecial DEF Special, Starting, Telling
    <3> QED
      BY <2>1, <2>2, <3>1, QuietKeeps DEF Ordinary, TellingKept
  <2>3. CASE c \notin busy /\ Goto(t, "decide") /\ busy' = busy \cup {c}
    <3>1. Turns(t, "notify", "decide")
      BY <1>0, <2>1, <2>3, GotoTurns, LabelNames
    <3> QED
      BY <2>1, <2>3, <3>1 DEF EntersTelling, SpecialStep
  <2> QED
    BY <1>9, <2>2, <2>3 DEF NotifyEnter
<1>10. CASE Decide(t)
  <2>1. UNCHANGED <<rec, orphans, proc, hist>> /\ thread[t].at = "decide"
    BY <1>10 DEF Decide, stored, At
  <2>2. CASE rec[c].st \in Stopped /\ ~rec[c].told /\ Goto(t, "send") /\ UNCHANGED busy
    <3>1. Turns(t, "decide", "send")
      BY <1>0, <2>1, <2>2, GotoTurns, LabelNames
    <3> QED
      BY <2>1, <2>2, <3>1 DEF DecidesToSend, SpecialStep
  <2>3. CASE AfterNotify(t) /\ busy' = busy \ {c}
    <3>1. Leaves(t)
      BY <1>0, <2>3, StopLeaves
    <3> QED
      BY <2>1, <2>3, <3>1 DEF GivesUp, SpecialStep
  <2> QED
    BY <1>10, <2>2, <2>3 DEF Decide
<1>11. CASE Send(t)
  <2>1. UNCHANGED <<rec, orphans, proc>> /\ thread[t].at = "send"
    BY <1>11 DEF Send, stored, At
  <2>2. CASE hist' = [hist EXCEPT !.pings[c] = @ + 1] /\ Goto(t, "mark") /\ UNCHANGED busy
    <3>1. Turns(t, "send", "mark")
      BY <1>0, <2>1, <2>2, GotoTurns, LabelNames
    <3>2. hist'.pings = [hist.pings EXCEPT ![c] = @ + 1] /\ hist'.unmarked = hist.unmarked
      BY <2>2 DEF TypeOK, HistTyped
    <3> QED
      BY <2>1, <2>2, <3>1, <3>2 DEF Sends, SpecialStep
  <2>3. CASE AfterNotify(t) /\ busy' = busy \ {c} /\ UNCHANGED hist
    <3>1. Leaves(t)
      BY <1>0, <2>3, StopLeaves
    <3> QED
      BY <2>1, <2>3, <3>1 DEF GivesUp, SpecialStep
  <2> QED
    BY <1>11, <2>2, <2>3 DEF Send
<1>12. CASE MarkTold(t)
  <2>1. UNCHANGED <<orphans, proc, hist>> /\ thread[t].at = "mark" /\ busy' = busy \ {c} /\ AfterNotify(t)
    BY <1>12 DEF MarkTold, At
  <2>2. Leaves(t)
    BY <1>0, <2>1, StopLeaves
  <2>3. rec' = [rec EXCEPT ![c].told = Known(c) \/ @]
    BY <1>12 DEF MarkTold
  <2> DEFINE r == [rec[c] EXCEPT !.told = Known(c) \/ rec[c].told]
  <2>5. rec' = [rec EXCEPT ![c] = r]
    BY <2>3, Zenon
  <2>6. \A x \in CommandRecords : \A b : [x EXCEPT !.told = b].st = x.st /\ [x EXCEPT !.told = b].told = b
    BY DEF CommandRecords
  <2>7. rec[c] \in CommandRecords
    BY <1>0 DEF TypeOK
  <2>8. r.st = rec[c].st /\ r.told = (Known(c) \/ rec[c].told)
    BY <2>6, <2>7, Zenon
  <2> HIDE DEF r
  <2>9. rec'[c] = r /\ \A d \in Commands \ {c} : rec'[d] = rec[d]
    BY <1>0, <2>5 DEF TypeOK
  <2>4. rec'[c].st = rec[c].st /\ (rec'[c].told <=> rec[c].told \/ Known(c)) /\ \A d \in Commands \ {c} : rec'[d] = rec[d]
    BY <2>8, <2>9, Zenon
  <2> QED
    BY <2>1, <2>2, <2>4 DEF Marks, SpecialStep
<1> QED
  BY <1>1, <1>2, <1>3, <1>4, <1>5, <1>6, <1>7, <1>8, <1>9, <1>10, <1>11, <1>12 DEF CallStep, OrdinaryCall

\* Every step is ordinary, one of those, or a restart of the plugin.
LEMMA StepKinds ==
    ASSUME TypeOK, [Next]_vars
    PROVE  Ordinary \/ (\E t \in Threads : SpecialStep(t)) \/ Reload
<1>1. CASE Tool
  <2>1. CASE \A t \in Callers, c \in Commands, s \in Specs : ~AskStart(t, c, s)
    BY <1>1, <2>1, ToolOrdinary
  <2>2. ASSUME NEW t \in Callers, NEW c \in Commands, NEW s \in Specs, AskStart(t, c, s) PROVE \E u \in Threads : SpecialStep(u)
    <3>1. t \in Threads /\ thread[t].at \notin Special /\ Fresh(c) /\ UNCHANGED <<proc, orphans, busy, hist>>
      BY <2>2, ThreadNames DEF AskStart, At, Special, Starting, Telling, memory
    <3>2. s.watch \in Watch /\ s.limit \in BOOLEAN /\ s.always \in BOOLEAN
      BY SpecsAssumption DEF Spawnable
    <3>3. /\ rec' = [rec EXCEPT ![c] = [Blank EXCEPT !.watch = s.watch, !.limit = s.limit, !.always = s.always]]
          /\ thread' = [thread EXCEPT ![t] = [Idle EXCEPT !.at = "spawn", !.cmd = c, !.why = "start"]]
      BY <2>2 DEF AskStart
    <3>4. BeginsStart(t)
      BY <3>1, <3>2, <3>3, BeginSpecially
    <3> QED
      BY <3>1, <3>4 DEF SpecialStep
  <2> QED
    BY <2>1, <2>2
<1>2. CASE \E t \in Threads : CallStep(t)
  BY <1>2, CallSpecial
<1>3. CASE \E c \in Commands : Output(c) \/ Exit(c) \/ QueueStep(c) \/ TimerStep(c) \/ interrupt(c) \/ cancelAwaitsForGoal(c)
  BY <1>3, CommandOrdinary
<1>4. CASE PluginStep \/ Dispose
  BY <1>4, PluginOrdinary
<1>5. CASE UNCHANGED vars
  <2>1. UNCHANGED <<rec, orphans, proc, thread, busy, hist>>
    BY <1>5 DEF vars, stored, memory
  <2> QED
    BY <2>1, QuietKeeps DEF Ordinary, SpecialKept, TellingKept
<1> QED
  BY <1>1, <1>2, <1>3, <1>4, <1>5 DEF Next
-----------------------------------------------------------------------------
(* Who starts a command, and who removes it or tells of its end.            *)
StartsUnrecorded == \A t \in Threads : thread[t].at \in Starting => rec[thread[t].cmd].st = "none"
StartsApart ==
    \A t, u \in Threads : t # u /\ thread[t].at \in Starting /\ thread[u].at \in Starting => thread[t].cmd # thread[u].cmd
LaterRecorded == \A t \in Threads : thread[t].at \in {"removing", "send", "mark"} => rec[thread[t].cmd].st # "none"
ToldLater == \A c \in Commands : rec[c].told => rec[c].st # "none"

NameInv == TypeOK /\ StartsUnrecorded /\ StartsApart /\ LaterRecorded /\ ToldLater /\ OrphansFenced

(* Whoever tells an owner holds the notice, and a ping is marked unless the *)
(* plugin dies first.                                                       *)
TellersBusy == \A t \in Threads : thread[t].at \in Telling => thread[t].cmd \in busy
OneTeller ==
    \A t, u \in Threads : t # u /\ thread[t].at \in Telling /\ thread[u].at \in Telling => thread[t].cmd # thread[u].cmd
PingsMarked ==
    \A c \in Commands \ hist.unmarked :
        hist.pings[c] >= 1 => \/ rec[c].told \/ rec[c].st = "gone"
                              \/ \E t \in Threads : thread[t].at = "mark" /\ thread[t].cmd = c
SendsFirst ==
    \A t \in Threads : thread[t].at = "send" => thread[t].cmd \in hist.unmarked \/ hist.pings[thread[t].cmd] = 0

TellInv == NameInv /\ TellersBusy /\ OneTeller /\ PingsMarked /\ SendsFirst /\ PingedOnce

LEMMA SpecialNames ==
    /\ {"spawn", "record", "rollback", "decide", "send", "mark", "removing"} \subseteq Special
    /\ Starting \subseteq Special /\ Telling \subseteq Special /\ Starting \cap Telling = {}
    /\ "removing" \notin Starting \cup Telling /\ "notify" \notin Special /\ "remove" \notin Special
    /\ {"spawn", "record", "rollback"} = Starting /\ {"decide", "send", "mark"} = Telling
BY DEF Special, Starting, Telling

LEMMA CommandOf ==
    ASSUME TypeOK, NEW t \in Threads, thread[t].at \in Special
    PROVE  thread[t].cmd \in Commands
<1>1. Resting \cap Special = {}
  BY OrdinaryNames
<1>2. thread[t] \in ThreadStates
  BY DEF TypeOK
<1> QED
  BY <1>1, <1>2 DEF ThreadStates

\* A plugin that starts anew has no call under way, and the state it finds.
LEMMA ReloadForgets ==
    ASSUME TypeOK, Reload
    PROVE  /\ \A t \in Threads : thread'[t].at \notin Special
           /\ UNCHANGED <<rec, orphans>>
           /\ \A c \in Commands : proc[c] = "dead" => proc'[c] = "dead"
           /\ hist'.pings = hist.pings
           /\ hist'.unmarked = hist.unmarked \cup {thread[t].cmd : t \in {u \in Threads : At(u, "mark")}}
<1>1. UNCHANGED <<rec, orphans>>
  BY DEF Reload, stored
<1>2. \A c \in Commands : proc[c] = "dead" => proc'[c] = "dead"
  BY DEF Reload, TypeOK
<1>3. \A t \in Threads : thread'[t].at \in {"read", "rest"}
  BY DEF Reload, Idle
<1>4. {"read", "rest"} \cap Special = {}
  BY DEF Special, Starting, Telling
<1> DEFINE lost == {thread[t].cmd : t \in {u \in Threads : At(u, "mark")}}
<1>5. PICK x : hist' = [hist EXCEPT !.owed = x, !.unmarked = @ \cup lost]
  BY Zenon DEF Reload
<1> HIDE DEF lost
<1>6. hist'.pings = hist.pings /\ hist'.unmarked = hist.unmarked \cup lost
  BY <1>5 DEF TypeOK, HistTyped
<1> QED
  BY <1>1, <1>2, <1>3, <1>4, <1>6 DEF lost

LEMMA NameInit == Init => NameInv
<1> SUFFICES ASSUME Init PROVE NameInv
  OBVIOUS
<1>1. TypeOK
  BY InitType
<1>2. \A t \in Threads : thread[t].at = "rest"
  BY DEF Init, Idle
<1>3. \A c \in Commands : rec[c].st = "none" /\ ~rec[c].told
  BY DEF Init, Blank
<1> QED
  BY <1>1, <1>2, <1>3 DEF NameInv, StartsUnrecorded, StartsApart, LaterRecorded, ToldLater, OrphansFenced, Starting

LEMMA NameOrdinary ==
    ASSUME NameInv, TypeOK', Ordinary
    PROVE  NameInv'
<1>1. StartsUnrecorded'
  <2> SUFFICES ASSUME NEW t \in Threads, thread'[t].at \in Starting PROVE rec'[thread'[t].cmd].st = "none"
    BY DEF StartsUnrecorded
  <2>1. thread[t].at \in Starting /\ thread'[t].cmd = thread[t].cmd /\ thread[t].cmd \in Commands
    BY SpecialNames, CommandOf DEF Ordinary, SpecialKept, NameInv
  <2> QED
    BY <2>1 DEF NameInv, StartsUnrecorded, Ordinary, EndsOnly
<1>2. StartsApart'
  BY SpecialNames DEF Ordinary, SpecialKept, NameInv, StartsApart
<1>3. LaterRecorded'
  <2> SUFFICES ASSUME NEW t \in Threads, thread'[t].at \in {"removing", "send", "mark"} PROVE rec'[thread'[t].cmd].st # "none"
    BY DEF LaterRecorded
  <2>1. thread[t].at \in {"removing", "send", "mark"} /\ thread'[t].cmd = thread[t].cmd /\ thread[t].cmd \in Commands
    BY SpecialNames, CommandOf DEF Ordinary, SpecialKept, NameInv
  <2>2. "none" \notin Stopped
    BY DEF Stopped
  <2> QED
    BY <2>1, <2>2 DEF NameInv, LaterRecorded, Ordinary, EndsOnly
<1>4. ToldLater'
  <2>1. "none" \notin Stopped \cup {"running"}
    BY DEF Stopped
  <2> QED
    BY <2>1 DEF NameInv, ToldLater, Ordinary, EndsOnly, ToldKept, Known
<1>5. OrphansFenced'
  BY DEF NameInv, OrphansFenced, Ordinary, FencesKept
<1> QED
  BY <1>1, <1>2, <1>3, <1>4, <1>5 DEF NameInv

LEMMA NameReload ==
    ASSUME NameInv, TypeOK', Reload
    PROVE  NameInv'
<1>1. (\A t \in Threads : thread'[t].at \notin Special) /\ UNCHANGED <<rec, orphans>> /\ \A c \in Commands : proc[c] = "dead" => proc'[c] = "dead"
  BY ReloadForgets DEF NameInv
<1>2. StartsUnrecorded' /\ StartsApart' /\ LaterRecorded'
  BY <1>1, SpecialNames DEF StartsUnrecorded, StartsApart, LaterRecorded
<1>3. ToldLater' /\ OrphansFenced'
  BY <1>1 DEF NameInv, ToldLater, OrphansFenced
<1> QED
  BY <1>2, <1>3 DEF NameInv

LEMMA NameSpecial ==
    ASSUME NameInv, TypeOK', NEW t \in Threads, SpecialStep(t)
    PROVE  NameInv'
<1> DEFINE c == thread[t].cmd
<1>0. TypeOK /\ Starting = {"spawn", "record", "rollback"} /\ Telling = {"decide", "send", "mark"} /\ Stopped = {"exited", "terminated", "missing"}
  BY SpecialNames DEF NameInv, Stopped
<1>c. \A u \in Threads : thread[u].at \in Special => thread[u].cmd \in Commands
  BY <1>0, CommandOf
<1>1. CASE BeginsStart(t)
  <2>1. PICK d \in Commands :
          /\ Fresh(d) /\ thread[t].at \notin Special
          /\ Others(t) /\ thread'[t].at = "spawn" /\ thread'[t].cmd = d
          /\ \A e \in Commands : rec'[e].st = rec[e].st /\ (e # d => rec'[e] = rec[e])
          /\ ~rec'[d].told
          /\ UNCHANGED <<proc, orphans, busy, hist>>
    BY <1>1 DEF BeginsStart
  <2>2. rec[d].st = "none" /\ \A u \in Threads : thread[u].cmd # d
    BY <2>1 DEF Fresh
  <2>3. \A u \in Threads \ {t} : thread'[u] = thread[u]
    BY <2>1 DEF Others
  <2>4. StartsUnrecorded'
    BY <1>0, <1>c, <2>1, <2>2, <2>3, SpecialNames DEF NameInv, StartsUnrecorded
  <2>5. StartsApart'
    BY <1>0, <2>1, <2>2, <2>3 DEF NameInv, StartsApart
  <2>6. LaterRecorded'
    BY <1>0, <1>c, <2>1, <2>2, <2>3, SpecialNames DEF NameInv, LaterRecorded
  <2>7. ToldLater' /\ OrphansFenced'
    BY <2>1, <2>2 DEF NameInv, ToldLater, OrphansFenced
  <2> QED
    BY <2>4, <2>5, <2>6, <2>7 DEF NameInv
<1>2. CASE Spawns(t)
  <2>1. thread[t].at \in Starting /\ c \in Commands /\ rec[c].st = "none"
    BY <1>0, <1>2, <1>c, SpecialNames DEF Spawns, Turns, NameInv, StartsUnrecorded
  <2>2. OrphansFenced'
    BY <1>2, <2>1 DEF Spawns, NameInv, OrphansFenced
  <2>3. StartsUnrecorded' /\ StartsApart' /\ LaterRecorded' /\ ToldLater'
    BY <1>0, <1>2 DEF Spawns, Turns, Others, NameInv, StartsUnrecorded, StartsApart, LaterRecorded, ToldLater
  <2> QED
    BY <2>2, <2>3 DEF NameInv
<1>3. CASE Records(t)
  <2>1. c \in Commands /\ rec[c].st = "none"
    BY <1>0, <1>3, <1>c, SpecialNames DEF Records, NameInv, StartsUnrecorded
  <2>2. \A u \in Threads \ {t} : thread'[u] = thread[u]
    BY <1>3 DEF Records, Leaves, Others
  <2>3. thread'[t].at \notin Special /\ thread[t].at = "record"
    BY <1>3 DEF Records, Leaves
  <2>4. StartsUnrecorded'
    BY <1>0, <1>3, <1>c, <2>2, <2>3, SpecialNames DEF Records, NameInv, StartsUnrecorded, StartsApart
  <2>5. StartsApart'
    BY <1>0, <2>2, <2>3, SpecialNames DEF NameInv, StartsApart
  <2>6. LaterRecorded'
    BY <1>0, <1>3, <1>c, <2>1, <2>2, <2>3, SpecialNames DEF Records, NameInv, LaterRecorded
  <2>7. ToldLater' /\ OrphansFenced'
    BY <1>3, <2>1 DEF Records, NameInv, ToldLater, OrphansFenced
  <2> QED
    BY <2>4, <2>5, <2>6, <2>7 DEF NameInv
<1>4. CASE Drops(t)
  <2>1. c \in Commands
    BY <1>4, <1>c, SpecialNames DEF Drops
  <2>2. \A u \in Threads \ {t} : thread'[u] = thread[u]
    BY <1>4 DEF Drops, Leaves, Others
  <2>3. thread'[t].at \notin Special /\ thread[t].at \in {"spawn", "rollback", "removing"}
    BY <1>4 DEF Drops, Leaves
  <2>4. StartsUnrecorded'
    <3> SUFFICES ASSUME NEW u \in Threads, thread'[u].at \in Starting PROVE rec'[thread'[u].cmd].st = "none"
      BY DEF StartsUnrecorded
    <3>1. u # t /\ thread'[u] = thread[u]
      BY <2>2, <2>3, SpecialNames
    <3>2. thread[u].cmd # c
      BY <1>0, <2>3, <3>1 DEF NameInv, StartsUnrecorded, StartsApart, LaterRecorded
    <3>3. thread[u].cmd \in Commands
      BY <1>c, <3>1, SpecialNames
    <3> QED
      BY <1>4, <3>1, <3>2, <3>3 DEF Drops, NameInv, StartsUnrecorded
  <2>5. StartsApart'
    BY <1>0, <2>2, <2>3, SpecialNames DEF NameInv, StartsApart
  <2>6. LaterRecorded'
    BY <1>0, <1>4, <1>c, <2>1, <2>2, <2>3, SpecialNames DEF Drops, NameInv, LaterRecorded
  <2>7. ToldLater' /\ OrphansFenced'
    BY <1>4, <2>1 DEF Drops, NameInv, ToldLater, OrphansFenced
  <2> QED
    BY <2>4, <2>5, <2>6, <2>7 DEF NameInv
<1>5. CASE Prepares(t)
  <2>1. ToldLater' /\ OrphansFenced'
    BY <1>5 DEF Prepares, NameInv, ToldLater, OrphansFenced
  <2>2. CASE Turns(t, "record", "rollback")
    BY <1>0, <1>5, <2>1, <2>2 DEF Prepares, Turns, Others, NameInv, StartsUnrecorded, StartsApart, LaterRecorded
  <2>3. CASE Turns(t, "remove", "removing") /\ rec[c].st \in Stopped
    BY <1>0, <1>5, <2>1, <2>3 DEF Prepares, Turns, Others, NameInv, StartsUnrecorded, StartsApart, LaterRecorded
  <2> QED
    BY <1>5, <2>2, <2>3 DEF Prepares
<1>6. CASE EntersTelling(t)
  BY <1>0, <1>6 DEF EntersTelling, Turns, Others, NameInv, StartsUnrecorded, StartsApart, LaterRecorded, ToldLater, OrphansFenced
<1>7. CASE DecidesToSend(t)
  BY <1>0, <1>7 DEF DecidesToSend, Turns, Others, NameInv, StartsUnrecorded, StartsApart, LaterRecorded, ToldLater, OrphansFenced
<1>8. CASE GivesUp(t)
  BY <1>0, <1>8, SpecialNames DEF GivesUp, Leaves, Others, NameInv, StartsUnrecorded, StartsApart, LaterRecorded, ToldLater, OrphansFenced
<1>9. CASE Sends(t)
  BY <1>0, <1>9 DEF Sends, Turns, Others, NameInv, StartsUnrecorded, StartsApart, LaterRecorded, ToldLater, OrphansFenced
<1>10. CASE Marks(t)
  <2>1. c \in Commands /\ rec[c].st # "none"
    BY <1>10, <1>c, SpecialNames DEF Marks, NameInv, LaterRecorded
  <2>2. \A d \in Commands : rec'[d].st = rec[d].st /\ (rec'[d].told => rec[d].told \/ d = c)
    BY <1>10 DEF Marks
  <2>3. UNCHANGED <<proc, orphans>>
    BY <1>10 DEF Marks
  <2>4. Others(t) /\ thread'[t].at \notin Special
    BY <1>10 DEF Marks, Leaves
  <2>5. StartsUnrecorded' /\ LaterRecorded'
    BY <1>0, <1>c, <2>2, <2>4, SpecialNames DEF Others, NameInv, StartsUnrecorded, LaterRecorded
  <2>6. StartsApart'
    BY <1>0, <2>4, SpecialNames DEF Others, NameInv, StartsApart
  <2>7. ToldLater' /\ OrphansFenced'
    BY <2>1, <2>2, <2>3 DEF NameInv, ToldLater, OrphansFenced
  <2> QED
    BY <2>5, <2>6, <2>7 DEF NameInv
<1> QED
  BY <1>1, <1>2, <1>3, <1>4, <1>5, <1>6, <1>7, <1>8, <1>9, <1>10 DEF SpecialStep

LEMMA NameStep == NameInv /\ [Next]_vars => NameInv'
<1> SUFFICES ASSUME NameInv, [Next]_vars PROVE NameInv'
  OBVIOUS
<1>1. TypeOK /\ TypeOK'
  BY TypeStep DEF NameInv
<1> QED
  BY <1>1, StepKinds, NameOrdinary, NameSpecial, NameReload

(* A process that outlives its plugin under a record "missing" stays among  *)
(* the orphans until its death is observed, whatever calls run meanwhile:   *)
(* a command under way to its first record is nobody else's, so that no     *)
(* process appears under a record that recovery has already given up.       *)
THEOREM OrphansAreFenced == Spec => []OrphansFenced
<1>1. NameInv => OrphansFenced
  BY DEF NameInv
<1> QED
  BY <1>1, NameInit, NameStep, PTL DEF Spec

LEMMA EndsAreFinal ==
    ASSUME NameInv, TypeOK', [Next]_vars, NEW c \in Commands, rec[c].st \in Stopped
    PROVE  rec'[c].st \in {rec[c].st, "gone"}
<1>0. TypeOK /\ Stopped = {"exited", "terminated", "missing"} /\ Starting = {"spawn", "record", "rollback"}
  BY SpecialNames DEF NameInv, Stopped
<1>1. CASE Ordinary
  BY <1>0, <1>1 DEF Ordinary, EndsOnly
<1>2. CASE Reload
  BY <1>0, <1>2, ReloadForgets
<1>3. ASSUME NEW t \in Threads, SpecialStep(t) PROVE rec'[c].st \in {rec[c].st, "gone"}
  <2>1. CASE Records(t)
    BY <1>0, <2>1 DEF Records, NameInv, StartsUnrecorded
  <2>2. CASE Drops(t)
    BY <2>2 DEF Drops
  <2>3. CASE BeginsStart(t)
    BY <2>3 DEF BeginsStart
  <2>4. CASE Marks(t)
    BY <2>4 DEF Marks
  <2>5. CASE UNCHANGED rec
    BY <2>5
  <2> QED
    BY <1>3, <2>1, <2>2, <2>3, <2>4, <2>5 DEF SpecialStep, Spawns, Prepares, EntersTelling, DecidesToSend, GivesUp, Sends
<1> QED
  BY <1>0, <1>1, <1>2, <1>3, StepKinds

(* No call rewrites the recorded end of a command: each of them looks at    *)
(* the record in the transaction that writes it, and a start records only   *)
(* a command that has no record yet.                                        *)
THEOREM TerminalStaysFinal == Spec => TerminalIsFinal
<1>1. NameInv /\ NameInv' /\ [Next]_vars => [\A c \in Commands : rec[c].st \in Stopped => rec'[c].st \in {rec[c].st, "gone"}]_vars
  <2> SUFFICES ASSUME NameInv, NameInv', [Next]_vars, NEW c \in Commands, rec[c].st \in Stopped PROVE rec'[c].st \in {rec[c].st, "gone"}
    OBVIOUS
  <2> QED
    BY EndsAreFinal DEF NameInv
<1> QED
  BY <1>1, NameInit, NameStep, PTL DEF Spec, TerminalIsFinal
-----------------------------------------------------------------------------
LEMMA TellInit == Init => TellInv
<1> SUFFICES ASSUME Init PROVE TellInv
  OBVIOUS
<1>1. NameInv
  BY NameInit
<1>2. \A t \in Threads : thread[t].at = "rest"
  BY DEF Init, Idle
<1>3. \A c \in Commands : hist.pings[c] = 0
  BY DEF Init
<1> QED
  BY <1>1, <1>2, <1>3 DEF TellInv, TellersBusy, OneTeller, PingsMarked, SendsFirst, PingedOnce, Telling

\* How often an owner was pinged, and of which commands a crash took the mark.
LEMMA PingTypes == TypeOK => hist.pings \in [Commands -> Nat] /\ hist.unmarked \in SUBSET Commands
BY DEF TypeOK, HistTyped

LEMMA TellOrdinary ==
    ASSUME TellInv, NameInv', Ordinary
    PROVE  TellInv'
<1>0. NameInv /\ TypeOK /\ hist'.pings = hist.pings /\ hist'.unmarked = hist.unmarked /\ busy' = busy
  BY DEF TellInv, NameInv, Ordinary, TellingKept
<1>1. \A u \in Threads : thread[u].at \in Special \/ thread'[u].at \in Special => thread'[u].at = thread[u].at /\ thread'[u].cmd = thread[u].cmd
  BY DEF Ordinary, SpecialKept
<1>2. TellersBusy' /\ OneTeller'
  BY <1>0, <1>1, SpecialNames DEF TellInv, TellersBusy, OneTeller
<1>3. SendsFirst'
  BY <1>0, <1>1, SpecialNames DEF TellInv, SendsFirst
<1>4. PingsMarked'
  <2> SUFFICES ASSUME NEW c \in Commands \ hist'.unmarked, hist'.pings[c] >= 1
               PROVE  rec'[c].told \/ rec'[c].st = "gone" \/ \E t \in Threads : thread'[t].at = "mark" /\ thread'[t].cmd = c
    BY DEF PingsMarked
  <2>1. rec[c].told \/ rec[c].st = "gone" \/ \E t \in Threads : thread[t].at = "mark" /\ thread[t].cmd = c
    BY <1>0 DEF TellInv, PingsMarked
  <2>2. rec[c].told => rec'[c].told
    BY DEF Ordinary, ToldKept
  <2>3. rec[c].st = "gone" => rec'[c].st = "gone"
    BY DEF Ordinary, EndsOnly
  <2>4. \A t \in Threads : thread[t].at = "mark" => thread'[t].at = "mark" /\ thread'[t].cmd = thread[t].cmd
    BY <1>1, SpecialNames
  <2> QED
    BY <2>1, <2>2, <2>3, <2>4
<1>5. PingedOnce'
  BY <1>0 DEF TellInv, PingedOnce
<1> QED
  BY <1>2, <1>3, <1>4, <1>5 DEF TellInv

LEMMA TellReload ==
    ASSUME TellInv, NameInv', Reload
    PROVE  TellInv'
<1> DEFINE lost == {thread[t].cmd : t \in {u \in Threads : At(u, "mark")}}
<1>1. /\ \A t \in Threads : thread'[t].at \notin Special
      /\ UNCHANGED rec /\ hist'.pings = hist.pings /\ hist'.unmarked = hist.unmarked \cup lost
  BY ReloadForgets DEF TellInv, NameInv
<1>2. TellersBusy' /\ OneTeller' /\ SendsFirst'
  BY <1>1, SpecialNames DEF TellersBusy, OneTeller, SendsFirst
<1>3. \A t \in Threads : thread[t].at = "mark" => thread[t].cmd \in lost
  BY DEF At
<1> HIDE DEF lost
<1>4. PingsMarked'
  BY <1>1, <1>3 DEF TellInv, PingsMarked
<1>5. PingedOnce'
  BY <1>1 DEF TellInv, PingedOnce
<1> QED
  BY <1>2, <1>4, <1>5 DEF TellInv

LEMMA TellSpecial ==
    ASSUME TellInv, NameInv', NEW t \in Threads, SpecialStep(t)
    PROVE  TellInv'
<1> DEFINE c == thread[t].cmd
           Marker(d) == \E u \in Threads : thread[u].at = "mark" /\ thread[u].cmd = d
           Pinged(d) == d \in Commands /\ d \notin hist.unmarked /\ hist.pings[d] >= 1
<1>0. NameInv /\ TypeOK /\ Starting = {"spawn", "record", "rollback"} /\ Telling = {"decide", "send", "mark"}
  BY SpecialNames DEF TellInv, NameInv
<1>c. \A u \in Threads : thread[u].at \in Special => thread[u].cmd \in Commands
  BY <1>0, CommandOf
<1>m. \A d : Pinged(d) => rec[d].told \/ rec[d].st = "gone" \/ Marker(d)
  BY DEF TellInv, PingsMarked
\* Nothing of the telling moves while a call that tells nobody takes a step.
<1>k. ASSUME Others(t), thread[t].at \notin Telling, thread'[t].at \notin Telling, UNCHANGED <<busy, hist>>,
             \A d \in Commands : rec[d].told \/ rec[d].st = "gone" => rec'[d].told \/ rec'[d].st = "gone"
      PROVE  TellInv'
  <2>1. \A u \in Threads : thread'[u].at \in Telling \/ thread[u].at \in Telling => thread'[u] = thread[u]
    BY <1>k DEF Others
  <2>2. TellersBusy' /\ OneTeller' /\ SendsFirst'
    BY <1>0, <1>k, <2>1 DEF TellInv, TellersBusy, OneTeller, SendsFirst
  <2>3. PingsMarked'
    BY <1>0, <1>k, <2>1 DEF TellInv, PingsMarked
  <2>4. PingedOnce'
    BY <1>k DEF TellInv, PingedOnce
  <2> QED
    BY <2>2, <2>3, <2>4 DEF TellInv
<1>1. CASE BeginsStart(t)
  <2>1. PICK d \in Commands :
          /\ Fresh(d) /\ thread[t].at \notin Special
          /\ Others(t) /\ thread'[t].at = "spawn" /\ thread'[t].cmd = d
          /\ \A e \in Commands : rec'[e].st = rec[e].st /\ (e # d => rec'[e] = rec[e])
          /\ ~rec'[d].told
          /\ UNCHANGED <<proc, orphans, busy, hist>>
    BY <1>1 DEF BeginsStart
  <2>2. rec[d].st = "none"
    BY <2>1 DEF Fresh
  <2>3. ~rec[d].told
    BY <2>2 DEF TellInv, NameInv, ToldLater
  <2>4. \A e \in Commands : rec[e].told \/ rec[e].st = "gone" => rec'[e].told \/ rec'[e].st = "gone"
    BY <2>1, <2>3
  <2> QED
    BY <1>0, <1>k, <2>1, <2>4, SpecialNames
<1>2. CASE Spawns(t)
  BY <1>0, <1>2, <1>k DEF Spawns, Turns
<1>3. CASE Records(t)
  <2>1. c \in Commands /\ rec[c].st = "none"
    BY <1>0, <1>3, <1>c, SpecialNames DEF Records, NameInv, StartsUnrecorded
  <2>2. \A d \in Commands : rec[d].told \/ rec[d].st = "gone" => rec'[d].told \/ rec'[d].st = "gone"
    BY <1>3, <2>1 DEF Records
  <2> QED
    BY <1>0, <1>3, <1>k, <2>2, SpecialNames DEF Records, Leaves
<1>4. CASE Drops(t)
  <2>1. c \in Commands
    BY <1>4, <1>c, SpecialNames DEF Drops
  <2>2. \A d \in Commands : rec[d].told \/ rec[d].st = "gone" => rec'[d].told \/ rec'[d].st = "gone"
    BY <1>4, <2>1 DEF Drops
  <2> QED
    BY <1>0, <1>4, <1>k, <2>2, SpecialNames DEF Drops, Leaves
<1>5. CASE Prepares(t)
  BY <1>0, <1>5, <1>k DEF Prepares, Turns
<1>6. CASE EntersTelling(t)
  <2>1. /\ \A u \in Threads \ {t} : thread'[u] = thread[u]
        /\ thread[t].at = "notify" /\ thread'[t].at = "decide" /\ thread'[t].cmd = c
        /\ c \notin busy /\ busy' = busy \cup {c} /\ UNCHANGED <<rec, hist>>
    BY <1>6 DEF EntersTelling, Turns, Others
  <2>2. TellersBusy'
    BY <1>0, <2>1 DEF TellInv, TellersBusy
  <2>3. OneTeller'
    BY <1>0, <2>1 DEF TellInv, TellersBusy, OneTeller
  <2>4. SendsFirst'
    BY <2>1 DEF TellInv, SendsFirst
  <2>5. \A u \in Threads : thread[u].at = "mark" => thread'[u] = thread[u]
    BY <2>1
  <2>6. PingsMarked' /\ PingedOnce'
    BY <2>1, <2>5 DEF TellInv, PingsMarked, PingedOnce
  <2> QED
    BY <2>2, <2>3, <2>4, <2>6 DEF TellInv
<1>7. CASE DecidesToSend(t)
  <2>1. /\ \A u \in Threads \ {t} : thread'[u] = thread[u]
        /\ thread[t].at = "decide" /\ thread'[t].at = "send" /\ thread'[t].cmd = c
        /\ rec[c].st \in Stopped /\ ~rec[c].told /\ UNCHANGED <<rec, busy, hist>>
    BY <1>7 DEF DecidesToSend, Turns, Others
  <2>2. TellersBusy' /\ OneTeller'
    BY <1>0, <2>1 DEF TellInv, TellersBusy, OneTeller
  <2>3. c \in Commands /\ ~Marker(c)
    BY <1>0, <1>c, <2>1, SpecialNames DEF TellInv, OneTeller
  <2>4. c \in hist.unmarked \/ hist.pings[c] = 0
    <3>1. rec[c].st # "gone"
      BY <2>1 DEF Stopped
    <3>2. ~Pinged(c)
      BY <1>m, <2>1, <2>3, <3>1
    <3> QED
      BY <1>0, <2>3, <3>2, PingTypes
  <2>5. SendsFirst'
    BY <2>1, <2>4 DEF TellInv, SendsFirst
  <2>6. \A u \in Threads : thread[u].at = "mark" => thread'[u] = thread[u]
    BY <2>1
  <2>7. PingsMarked' /\ PingedOnce'
    BY <2>1, <2>6 DEF TellInv, PingsMarked, PingedOnce
  <2> QED
    BY <2>2, <2>5, <2>7 DEF TellInv
<1>8. CASE GivesUp(t)
  <2>1. /\ \A u \in Threads \ {t} : thread'[u] = thread[u]
        /\ thread[t].at \in {"decide", "send"} /\ thread'[t].at \notin Telling
        /\ busy' = busy \ {c} /\ UNCHANGED <<rec, hist>>
    BY <1>0, <1>8, SpecialNames DEF GivesUp, Leaves, Others
  <2>2. TellersBusy' /\ OneTeller' /\ SendsFirst'
    BY <1>0, <2>1 DEF TellInv, TellersBusy, OneTeller, SendsFirst
  <2>3. \A u \in Threads : thread[u].at = "mark" => thread'[u] = thread[u]
    BY <2>1
  <2>4. PingsMarked' /\ PingedOnce'
    BY <2>1, <2>3 DEF TellInv, PingsMarked, PingedOnce
  <2> QED
    BY <2>2, <2>4 DEF TellInv
<1>9. CASE Sends(t)
  <2>1. /\ \A u \in Threads \ {t} : thread'[u] = thread[u]
        /\ thread[t].at = "send" /\ thread'[t].at = "mark" /\ thread'[t].cmd = c
        /\ hist'.pings = [hist.pings EXCEPT ![c] = @ + 1] /\ hist'.unmarked = hist.unmarked /\ UNCHANGED <<rec, busy>>
    BY <1>9 DEF Sends, Turns, Others
  <2>2. hist.pings \in [Commands -> Nat] /\ hist.unmarked \in SUBSET Commands /\ c \in Commands
    BY <1>0, <1>c, <2>1, PingTypes, SpecialNames
  <2>3. hist'.pings[c] = hist.pings[c] + 1 /\ \A d \in Commands : d # c => hist'.pings[d] = hist.pings[d]
    BY <2>1, <2>2
  <2>4. TellersBusy' /\ OneTeller'
    BY <1>0, <2>1 DEF TellInv, TellersBusy, OneTeller
  <2>5. SendsFirst'
    <3> SUFFICES ASSUME NEW u \in Threads, thread'[u].at = "send"
                 PROVE  thread'[u].cmd \in hist'.unmarked \/ hist'.pings[thread'[u].cmd] = 0
      BY DEF SendsFirst
    <3>1. u # t /\ thread'[u] = thread[u]
      BY <2>1
    <3>2. thread[u].cmd # c /\ thread[u].cmd \in Commands
      BY <1>0, <1>c, <2>1, <3>1, SpecialNames DEF TellInv, OneTeller
    <3> QED
      BY <2>1, <2>3, <3>1, <3>2 DEF TellInv, SendsFirst
  <2>6. PingsMarked'
    <3> SUFFICES ASSUME NEW d \in Commands, d \notin hist'.unmarked, hist'.pings[d] >= 1
                 PROVE  rec'[d].told \/ rec'[d].st = "gone" \/ \E u \in Threads : thread'[u].at = "mark" /\ thread'[u].cmd = d
      BY DEF PingsMarked
    <3>1. CASE d = c
      BY <2>1, <3>1
    <3>2. CASE d # c
      <4>1. Pinged(d)
        BY <2>1, <2>3, <3>2
      <4>2. \A u \in Threads : thread[u].at = "mark" => thread'[u] = thread[u]
        BY <2>1
      <4> QED
        BY <1>m, <2>1, <4>1, <4>2
    <3> QED
      BY <3>1, <3>2
  <2>7. PingedOnce'
    <3>1. c \in hist.unmarked \/ hist.pings[c] = 0
      BY <2>1 DEF TellInv, SendsFirst
    <3> QED
      BY <2>1, <2>2, <2>3, <3>1 DEF TellInv, PingedOnce
  <2> QED
    BY <2>4, <2>5, <2>6, <2>7 DEF TellInv
<1>10. CASE Marks(t)
  <2>1. /\ \A u \in Threads \ {t} : thread'[u] = thread[u]
        /\ thread[t].at = "mark" /\ thread'[t].at \notin Telling
        /\ busy' = busy \ {c} /\ UNCHANGED hist
    BY <1>0, <1>10, SpecialNames DEF Marks, Leaves, Others
  <2>2. c \in Commands /\ rec[c].st # "none"
    BY <1>c, <2>1, SpecialNames DEF TellInv, NameInv, LaterRecorded
  <2>3. /\ rec'[c].st = rec[c].st /\ (rec'[c].told <=> rec[c].told \/ Known(c))
        /\ \A d \in Commands \ {c} : rec'[d] = rec[d]
    BY <1>10 DEF Marks
  <2>4. TellersBusy' /\ OneTeller' /\ SendsFirst'
    BY <1>0, <2>1 DEF TellInv, TellersBusy, OneTeller, SendsFirst
  <2>5. rec'[c].told \/ rec'[c].st = "gone"
    <3>1. rec[c].st \in {"none", "running", "gone"} \cup Stopped
      BY <1>0, <2>2, RecordValues
    <3> QED
      BY <2>2, <2>3, <3>1 DEF Known
  <2>6. PingsMarked'
    <3> SUFFICES ASSUME NEW d \in Commands, Pinged(d)
                 PROVE  rec'[d].told \/ rec'[d].st = "gone" \/ \E u \in Threads : thread'[u].at = "mark" /\ thread'[u].cmd = d
      BY <2>1 DEF PingsMarked
    <3>1. CASE d = c
      BY <2>5, <3>1
    <3>2. CASE d # c
      <4>1. \A u \in Threads : thread[u].at = "mark" /\ thread[u].cmd = d => thread'[u] = thread[u]
        BY <2>1, <3>2
      <4> QED
        BY <1>m, <2>3, <3>2, <4>1
    <3> QED
      BY <3>1, <3>2
  <2>7. PingedOnce'
    BY <2>1 DEF TellInv, PingedOnce
  <2> QED
    BY <2>4, <2>6, <2>7 DEF TellInv
<1> QED
  BY <1>1, <1>2, <1>3, <1>4, <1>5, <1>6, <1>7, <1>8, <1>9, <1>10 DEF SpecialStep

LEMMA TellStep == TellInv /\ [Next]_vars => TellInv'
<1> SUFFICES ASSUME TellInv, [Next]_vars PROVE TellInv'
  OBVIOUS
<1>1. NameInv /\ NameInv' /\ TypeOK
  BY NameStep DEF TellInv, NameInv
<1> QED
  BY <1>1, StepKinds, TellOrdinary, TellSpecial, TellReload

(* Exit, terminate, deadline, retry and recovery may all set out to tell    *)
(* the owner: one of them holds the notice at a time, and decides to send   *)
(* only while no earlier ping lacks its mark, unless a crash took the mark. *)
THEOREM OwnersPingedOnce == Spec => []PingedOnce
<1>1. TellInv => PingedOnce
  BY DEF TellInv
<1> QED
  BY <1>1, TellInit, TellStep, PTL DEF Spec
-----------------------------------------------------------------------------
(***************************************************************************)
(* Sums over a finite set.  Total folds its function in some order; what    *)
(* the order is does not matter to what is said of it here.  Induction is   *)
(* over a set of numbers, a form that takes no operator as a parameter.     *)
(***************************************************************************)

LessThan == {p \in Nat \X Nat : p[1] < p[2]}

LEMMA LessThanIsWellFounded == IsWellFoundedOn(LessThan, Nat)
BY NatLessThanWellFounded DEF OpToRel, LessThan

LEMMA SetInduction ==
  ASSUME NEW S, 0 \in S, \A n \in Nat : n \in S => n + 1 \in S
  PROVE  Nat \subseteq S
<1> SUFFICES ASSUME ~(Nat \subseteq S) PROVE FALSE
  OBVIOUS
<1> DEFINE T == Nat \ S
<1>1. T \subseteq Nat /\ T # {}
  OBVIOUS
<1> HIDE DEF T
<1>2. PICK x \in T : \A y \in T : ~(<<y, x>> \in LessThan)
  BY LessThanIsWellFounded, <1>1, WFMin
<1>3. x \in Nat /\ x \notin S /\ x # 0
  BY DEF T
<1>4. x - 1 \in Nat
  BY <1>3
<1>5. <<x - 1, x>> \in LessThan
  BY <1>3, <1>4 DEF LessThan
<1>6. x - 1 \in S
  BY <1>2, <1>4, <1>5 DEF T
<1> QED
  BY <1>3, <1>4, <1>6

Pick(s) == CHOOSE x \in s : TRUE
Adds(it, f) == it = [s \in SUBSET DOMAIN f |-> IF s = {} THEN 0 ELSE f[Pick(s)] + it[s \ {Pick(s)}]]

\* The fold is a function that satisfies its recursion, if there is one.
LEMMA TotalIs ==
    ASSUME NEW f, NEW it, Adds(it, f)
    PROVE  \E jt : Adds(jt, f) /\ Total(f) = jt[DOMAIN f]
<1> DEFINE Loop(g) == [s \in SUBSET DOMAIN f |-> IF s = {} THEN 0 ELSE f[Pick(s)] + g[s \ {Pick(s)}]]
           sum == CHOOSE g : g = Loop(g)
<1>1. Total(f) = sum[DOMAIN f]
  BY DEF Total, FoldFunction, FoldFunctionOnSet, MapThenFoldSet, Pick
<1>2. it = Loop(it)
  BY DEF Adds
<1>3. sum = Loop(sum)
  BY <1>2, Zenon
<1> QED
  BY <1>1, <1>3 DEF Adds

\* The element the fold takes next, and what is left without it.
LEMMA PickOne ==
    ASSUME NEW D, IsFiniteSet(D), NEW s \in SUBSET D, s # {}
    PROVE  /\ Pick(s) \in s /\ s \ {Pick(s)} \in SUBSET D
           /\ Cardinality(s) \in Nat \ {0}
           /\ Cardinality(s \ {Pick(s)}) = Cardinality(s) - 1
<1>1. Pick(s) \in s
  BY DEF Pick
<1>2. IsFiniteSet(s)
  BY FS_Subset
<1>3. Cardinality(s) \in Nat /\ Cardinality(s \ {Pick(s)}) = Cardinality(s) - 1
  BY <1>1, <1>2, FS_CardinalityType, FS_RemoveElement
<1>4. Cardinality(s) # 0
  BY <1>2, FS_EmptySet
<1> QED
  BY <1>1, <1>3, <1>4

\* What holds of every subset of a finite set is proved by adding elements to it.
LEMMA SubsetInduction ==
    ASSUME NEW D, IsFiniteSet(D), NEW P,
           {} \in P,
           \A s \in SUBSET D : s # {} /\ s \ {Pick(s)} \in P => s \in P
    PROVE  SUBSET D \subseteq P
<1> DEFINE S == {n \in Nat : \A s \in SUBSET D : Cardinality(s) = n => s \in P}
<1>1. \A s \in SUBSET D : IsFiniteSet(s) /\ Cardinality(s) \in Nat
  BY FS_Subset, FS_CardinalityType
<1>2. 0 \in S
  BY <1>1, FS_EmptySet
<1>3. ASSUME NEW n \in Nat, n \in S PROVE n + 1 \in S
  <2> SUFFICES ASSUME NEW s \in SUBSET D, Cardinality(s) = n + 1 PROVE s \in P
    OBVIOUS
  <2>5. Cardinality({}) = 0
    BY FS_EmptySet
  <2>1. s # {}
    BY <2>5
  <2>2. s \ {Pick(s)} \in SUBSET D /\ Cardinality(s \ {Pick(s)}) = Cardinality(s) - 1
    BY <2>1, PickOne
  <2>4. Cardinality(s \ {Pick(s)}) = n
    BY <2>2
  <2>3. s \ {Pick(s)} \in P
    BY <1>3, <2>2, <2>4
  <2> QED
    BY <2>1, <2>3
<1>4. Nat \subseteq S
  <2> HIDE DEF S
  <2> QED
    BY <1>2, <1>3, SetInduction
<1> QED
  BY <1>1, <1>4

\* There is one: it is built up by the size of the subsets.
LEMMA SumExists ==
    ASSUME NEW D, IsFiniteSet(D), NEW f \in [D -> Int]
    PROVE  \E it \in [SUBSET D -> Int] : Adds(it, f)
<1> DEFINE Upto(n) == {s \in SUBSET D : Cardinality(s) <= n}
           Value(g, s) == IF s = {} THEN 0 ELSE f[Pick(s)] + g[s \ {Pick(s)}]
           Holds(g, n) == g \in [Upto(n) -> Int] /\ \A s \in Upto(n) : g[s] = Value(g, s)
           S == {n \in Nat : \E g : Holds(g, n)}
<1>1. \A s \in SUBSET D : IsFiniteSet(s) /\ Cardinality(s) \in Nat
  BY FS_Subset, FS_CardinalityType
<1>2. 0 \in S
  <2> DEFINE g == [s \in Upto(0) |-> 0]
  <2>1. \A s \in Upto(0) : s = {}
    BY <1>1, FS_EmptySet
  <2>2. Holds(g, 0)
    BY <2>1
  <2> QED
    BY <2>2
<1>3. ASSUME NEW n \in Nat, n \in S PROVE n + 1 \in S
  <2>1. PICK g : Holds(g, n)
    BY <1>3
  <2> DEFINE h == [s \in Upto(n + 1) |-> Value(g, s)]
  <2>2. \A s \in Upto(n + 1) : s # {} => Pick(s) \in D /\ s \ {Pick(s)} \in Upto(n) /\ s \ {Pick(s)} \in Upto(n + 1)
    <3> SUFFICES ASSUME NEW s \in Upto(n + 1), s # {}
                 PROVE  Pick(s) \in D /\ s \ {Pick(s)} \in Upto(n) /\ s \ {Pick(s)} \in Upto(n + 1)
      OBVIOUS
    <3>1. /\ Pick(s) \in s /\ s \ {Pick(s)} \in SUBSET D /\ Cardinality(s) \in Nat
          /\ Cardinality(s \ {Pick(s)}) = Cardinality(s) - 1
      BY PickOne
    <3> QED
      BY <3>1
  <2>3. h \in [Upto(n + 1) -> Int]
    <3> SUFFICES ASSUME NEW s \in Upto(n + 1) PROVE Value(g, s) \in Int
      OBVIOUS
    <3>1. CASE s = {}
      BY <3>1
    <3>2. CASE s # {}
      <4>1. f[Pick(s)] \in Int /\ g[s \ {Pick(s)}] \in Int
        BY <2>1, <2>2, <3>2
      <4> QED
        BY <4>1, <3>2
    <3> QED
      BY <3>1, <3>2
  <2>4. \A s \in Upto(n) : s \in Upto(n + 1)
    BY <1>1
  <2>5. \A s \in Upto(n) : h[s] = g[s]
    BY <2>1, <2>4
  <2>6. \A s \in Upto(n + 1) : h[s] = Value(h, s)
    <3> SUFFICES ASSUME NEW s \in Upto(n + 1) PROVE h[s] = Value(h, s)
      OBVIOUS
    <3>1. h[s] = Value(g, s)
      OBVIOUS
    <3>2. CASE s = {}
      BY <3>1, <3>2
    <3>3. CASE s # {}
      <4>1. h[s \ {Pick(s)}] = g[s \ {Pick(s)}]
        BY <2>2, <2>5, <3>3
      <4> QED
        BY <3>1, <3>3, <4>1
    <3> QED
      BY <3>2, <3>3
  <2>7. Holds(h, n + 1)
    BY <2>3, <2>6
  <2> HIDE DEF h, Holds
  <2> QED
    BY <2>7
<1>4. Nat \subseteq S
  <2> HIDE DEF S
  <2> QED
    BY <1>2, <1>3, SetInduction
<1>5. Cardinality(D) \in Nat
  BY FS_CardinalityType
<1>6. Upto(Cardinality(D)) = SUBSET D
  BY <1>1, <1>5, FS_Subset
<1>7. PICK it : Holds(it, Cardinality(D))
  BY <1>4, <1>5
<1>8. it = [s \in SUBSET D |-> IF s = {} THEN 0 ELSE f[Pick(s)] + it[s \ {Pick(s)}]]
  BY <1>6, <1>7
<1> QED
  BY <1>6, <1>7, <1>8 DEF Adds

Sums(it, D, f) ==
    /\ it \in [SUBSET D -> Int] /\ it[{}] = 0
    /\ \A s \in SUBSET D : s # {} => it[s] = f[Pick(s)] + it[s \ {Pick(s)}]

LEMMA SumOf ==
    ASSUME NEW D, IsFiniteSet(D), NEW f \in [D -> Int]
    PROVE  \E it : Sums(it, D, f) /\ Total(f) = it[D]
<1>1. \E it : Adds(it, f)
  BY SumExists
<1>2. PICK it : Adds(it, f) /\ Total(f) = it[DOMAIN f]
  BY <1>1, TotalIs
<1>3. /\ it = [s \in SUBSET D |-> it[s]] /\ Total(f) = it[D] /\ it[{}] = 0
      /\ \A s \in SUBSET D : s # {} => it[s] = f[Pick(s)] + it[s \ {Pick(s)}]
  BY <1>2 DEF Adds
<1> DEFINE P == {s \in SUBSET D : it[s] \in Int}
<1>4. {} \in P
  BY <1>3
<1>5. ASSUME NEW s \in SUBSET D, s # {}, s \ {Pick(s)} \in P PROVE s \in P
  <2>1. Pick(s) \in D
    BY <1>5, PickOne
  <2>2. f[Pick(s)] \in Int /\ it[s \ {Pick(s)}] \in Int
    BY <1>5, <2>1
  <2>3. it[s] = f[Pick(s)] + it[s \ {Pick(s)}]
    BY <1>3, <1>5
  <2> QED
    BY <2>2, <2>3
<1>6. SUBSET D \subseteq P
  <2> HIDE DEF P
  <2> QED
    BY <1>4, <1>5, SubsetInduction
<1>7. it \in [SUBSET D -> Int]
  BY <1>3, <1>6
<1> QED
  BY <1>3, <1>7 DEF Sums

\* A total changes by what one entry changes by.
LEMMA TotalMoves ==
    ASSUME NEW D, IsFiniteSet(D), NEW f \in [D -> Int], NEW g \in [D -> Int], NEW x \in D,
           \A y \in D \ {x} : g[y] = f[y]
    PROVE  Total(f) \in Int /\ Total(g) = Total(f) - f[x] + g[x]
<1>1. PICK it : Sums(it, D, f) /\ Total(f) = it[D]
  BY SumOf
<1>2. PICK jt : Sums(jt, D, g) /\ Total(g) = jt[D]
  BY SumOf
<1> DEFINE P == {s \in SUBSET D : jt[s] = IF x \in s THEN it[s] - f[x] + g[x] ELSE it[s]}
<1>3. {} \in P
  BY <1>1, <1>2 DEF Sums
<1>4. ASSUME NEW s \in SUBSET D, s # {}, s \ {Pick(s)} \in P PROVE s \in P
  <2> DEFINE p == Pick(s)
             r == s \ {Pick(s)}
  <2>1. p \in s /\ p \in D /\ r \in SUBSET D /\ r = s \ {p}
    BY <1>4, PickOne
  <2>2. it[s] = f[p] + it[r] /\ jt[s] = g[p] + jt[r]
    BY <1>1, <1>2, <1>4 DEF Sums
  <2>3. jt[r] = IF x \in r THEN it[r] - f[x] + g[x] ELSE it[r]
    BY <1>4
  <2> HIDE DEF p, r
  <2>4. it[r] \in Int /\ jt[r] \in Int /\ f[p] \in Int /\ g[p] \in Int /\ f[x] \in Int /\ g[x] \in Int
    BY <1>1, <1>2, <2>1 DEF Sums
  <2>5. CASE p = x
    BY <2>1, <2>2, <2>3, <2>4, <2>5
  <2>6. CASE p # x
    <3>1. g[p] = f[p]
      BY <2>1, <2>6
    <3>2. x \in r <=> x \in s
      BY <2>1, <2>6
    <3> QED
      BY <2>2, <2>3, <2>4, <3>1, <3>2
  <2> QED
    BY <2>5, <2>6
<1>5. SUBSET D \subseteq P
  <2> HIDE DEF P
  <2> QED
    BY <1>3, <1>4, SubsetInduction
<1>6. D \in P /\ it[D] \in Int
  BY <1>1, <1>5 DEF Sums
<1> QED
  BY <1>1, <1>2, <1>6

\* A total of zeros.
LEMMA TotalOfNothing ==
    ASSUME NEW D, IsFiniteSet(D), NEW f \in [D -> Int], \A y \in D : f[y] = 0
    PROVE  Total(f) = 0
<1>1. PICK it : Sums(it, D, f) /\ Total(f) = it[D]
  BY SumOf
<1> DEFINE P == {s \in SUBSET D : it[s] = 0}
<1>2. {} \in P
  BY <1>1 DEF Sums
<1>3. ASSUME NEW s \in SUBSET D, s # {}, s \ {Pick(s)} \in P PROVE s \in P
  <2>1. Pick(s) \in D
    BY <1>3, PickOne
  <2> QED
    BY <1>1, <1>3, <2>1 DEF Sums
<1>4. SUBSET D \subseteq P
  <2> HIDE DEF P
  <2> QED
    BY <1>2, <1>3, SubsetInduction
<1> QED
  BY <1>1, <1>4

-----------------------------------------------------------------------------
(* What a step does to the wakes: the threads that hold some, and what is   *)
(* registered.                                                              *)
Awaited == [c \in Commands |-> Outstanding(c)]

LEMMA FinitelyMany == IsFiniteSet(Threads) /\ IsFiniteSet(Commands)
<1>1. IsFiniteSet(Commands)
  BY BoundsAssumption, FS_Interval DEF Commands
<1>2. [c \in Commands |-> <<"queue", c>>] \in Surjection(Commands, Queue)
  BY DEF Queue, Surjection
<1>3. [c \in Commands |-> <<"timer", c>>] \in Surjection(Commands, Timer)
  BY DEF Timer, Surjection
<1>4. IsFiniteSet(Queue) /\ IsFiniteSet(Timer)
  BY <1>1, <1>2, <1>3, FS_Surjection
<1>5. IsFiniteSet({Plugin})
  BY FS_Singleton
<1>6. IsFiniteSet(Callers \cup Queue)
  BY <1>4, CallersAssumption, FS_Union
<1>7. IsFiniteSet((Callers \cup Queue) \cup Timer)
  BY <1>4, <1>6, FS_Union
<1>8. IsFiniteSet(((Callers \cup Queue) \cup Timer) \cup {Plugin})
  BY <1>5, <1>7, FS_Union
<1> QED
  BY <1>1, <1>8 DEF Threads

LEMMA WakesTyped ==
    ASSUME TypeOK
    PROVE  Hands \in [Threads -> Int] /\ Awaited \in [Commands -> Int]
<1>1. \A t \in Threads : thread[t].hand \in Int
  BY DEF TypeOK, ThreadStates, ThreadRecords
<1>2. \A c \in Commands : Outstanding(c) \in Int
  BY DEF TypeOK, AwaitRecords, Outstanding
<1> QED
  BY <1>1, <1>2 DEF Hands, Awaited

LEMMA WakesTypedNext ==
    ASSUME TypeOK'
    PROVE  Hands' \in [Threads -> Int] /\ Awaited' \in [Commands -> Int]
<1>1. \A t \in Threads : thread'[t].hand \in Int
  BY DEF TypeOK, ThreadStates, ThreadRecords
<1>2. \A c \in Commands : Outstanding(c)' \in Int
  BY DEF TypeOK, AwaitRecords, Outstanding
<1> QED
  BY <1>1, <1>2 DEF Hands, Awaited

HandsKept ==
    \A u \in Threads : thread[u].at = "deliver" \/ thread'[u].at = "deliver" =>
                          thread'[u].at = thread[u].at /\ thread'[u].hand = thread[u].hand
OneMoves(t) == \A u \in Threads \ {t} : thread'[u] = thread[u]
OthersWait(c) == \A d \in Commands \ {c} : waits'[d] = waits[d]

Settled == HandsKept /\ UNCHANGED waits /\ hist'.owed = hist.owed
Changes(c) == HandsKept /\ OthersWait(c) /\ hist'.owed = hist.owed - Outstanding(c) + Outstanding(c)'
Takes(t, c) ==
    /\ OneMoves(t) /\ thread[t].at # "deliver" /\ thread'[t].at = "deliver"
    /\ OthersWait(c) /\ thread'[t].hand = Outstanding(c) - Outstanding(c)'
    /\ hist'.owed = hist.owed
Delivers(t) ==
    /\ OneMoves(t) /\ thread[t].at = "deliver" /\ thread'[t].at # "deliver"
    /\ UNCHANGED waits /\ hist'.owed = hist.owed - thread[t].hand

WakeInv == TypeOK /\ WakesAddUp

LEMMA HandsSame ==
    ASSUME HandsKept
    PROVE  Hands' = Hands
<1>1. \A u \in Threads : (IF thread'[u].at = "deliver" THEN thread'[u].hand ELSE 0)
                       = (IF thread[u].at = "deliver" THEN thread[u].hand ELSE 0)
  BY DEF HandsKept
<1> QED
  BY <1>1 DEF Hands, At

LEMMA AwaitedSame ==
    ASSUME UNCHANGED waits
    PROVE  Awaited' = Awaited
BY DEF Awaited, Outstanding

LEMMA HandsMove ==
    ASSUME TypeOK, TypeOK', NEW t \in Threads, OneMoves(t)
    PROVE  /\ Total(Hands) \in Int
           /\ Total(Hands)' = Total(Hands) - Hands[t] + Hands'[t]
<1>1. PICK H : H = Hands
  OBVIOUS
<1>2. PICK G : G = Hands'
  OBVIOUS
<1>3. H \in [Threads -> Int] /\ G \in [Threads -> Int]
  BY <1>1, <1>2, WakesTyped, WakesTypedNext
<1>4. \A u \in Threads \ {t} : G[u] = H[u]
  BY <1>1, <1>2 DEF OneMoves, Hands, At
<1>5. Total(H) \in Int /\ Total(G) = Total(H) - H[t] + G[t]
  BY <1>3, <1>4, FinitelyMany, TotalMoves
<1> QED
  BY <1>1, <1>2, <1>5

LEMMA AwaitedMoves ==
    ASSUME TypeOK, TypeOK', NEW c \in Commands, OthersWait(c)
    PROVE  /\ Total(Awaited) \in Int /\ Outstanding(c) \in Int /\ Outstanding(c)' \in Int
           /\ Total(Awaited)' = Total(Awaited) - Outstanding(c) + Outstanding(c)'
<1>1. PICK H : H = Awaited
  OBVIOUS
<1>2. PICK G : G = Awaited'
  OBVIOUS
<1>3. H \in [Commands -> Int] /\ G \in [Commands -> Int]
  BY <1>1, <1>2, WakesTyped, WakesTypedNext
<1>4. \A d \in Commands \ {c} : G[d] = H[d]
  BY <1>1, <1>2 DEF OthersWait, Awaited, Outstanding
<1>5. Total(H) \in Int /\ Total(G) = Total(H) - H[c] + G[c]
  BY <1>3, <1>4, FinitelyMany, TotalMoves
<1>6. H[c] = Outstanding(c) /\ G[c] = Outstanding(c)' /\ H[c] \in Int /\ G[c] \in Int
  BY <1>1, <1>2, <1>3 DEF Awaited
<1> QED
  BY <1>1, <1>2, <1>5, <1>6

LEMMA TotalsTyped ==
    ASSUME TypeOK
    PROVE  Total(Hands) \in Int /\ Total(Awaited) \in Int
<1>1. PICK H : H = Hands
  OBVIOUS
<1>2. PICK G : G = Awaited
  OBVIOUS
<1>3. H \in [Threads -> Int] /\ G \in [Commands -> Int]
  BY <1>1, <1>2, WakesTyped
<1>4. PICK it : Sums(it, Threads, H) /\ Total(H) = it[Threads]
  BY <1>3, FinitelyMany, SumOf
<1>5. PICK jt : Sums(jt, Commands, G) /\ Total(G) = jt[Commands]
  BY <1>3, FinitelyMany, SumOf
<1> QED
  BY <1>1, <1>2, <1>4, <1>5 DEF Sums

LEMMA AddsUp == WakesAddUp <=> hist.owed = Total(Hands) + Total(Awaited)
BY DEF WakesAddUp, Awaited

LEMMA WakeInit == Init => WakeInv
<1> SUFFICES ASSUME Init PROVE WakeInv
  OBVIOUS
<1>1. TypeOK
  BY InitType
<1>2. PICK H : H = Hands
  OBVIOUS
<1>3. PICK G : G = Awaited
  OBVIOUS
<1>4. H \in [Threads -> Int] /\ G \in [Commands -> Int]
  BY <1>1, <1>2, <1>3, WakesTyped
<1>5. \A t \in Threads : H[t] = 0
  BY <1>2 DEF Hands, Init, At, Idle
<1>6. \A c \in Commands : G[c] = 0
  BY <1>3 DEF Awaited, Init, Outstanding
<1>7. Total(H) = 0 /\ Total(G) = 0
  BY <1>4, <1>5, <1>6, FinitelyMany, TotalOfNothing
<1>8. hist.owed = 0
  BY DEF Init
<1> QED
  BY <1>1, <1>2, <1>3, <1>7, <1>8, AddsUp DEF WakeInv
LEMMA WakeSettled ==
    ASSUME WakeInv, TypeOK', Settled
    PROVE  WakeInv'
<1>1. Hands' = Hands /\ Awaited' = Awaited
  BY HandsSame, AwaitedSame DEF Settled
<1>2. Total(Hands)' = Total(Hands) /\ Total(Awaited)' = Total(Awaited)
  BY <1>1
<1> QED
  BY <1>2 DEF WakeInv, Settled, WakesAddUp, Awaited

LEMMA WakeChanges ==
    ASSUME WakeInv, TypeOK', NEW c \in Commands, Changes(c)
    PROVE  WakeInv'
<1>1. Hands' = Hands
  BY HandsSame DEF Changes
<1>2. Total(Hands)' = Total(Hands)
  BY <1>1
<1>3. Total(Hands) \in Int
  BY TotalsTyped DEF WakeInv
<1>4. /\ Total(Awaited) \in Int /\ Outstanding(c) \in Int /\ Outstanding(c)' \in Int
      /\ Total(Awaited)' = Total(Awaited) - Outstanding(c) + Outstanding(c)'
  BY AwaitedMoves DEF WakeInv, Changes
<1>5. hist'.owed = hist.owed - Outstanding(c) + Outstanding(c)'
  BY DEF Changes
<1>6. hist.owed = Total(Hands) + Total(Awaited)
  BY AddsUp DEF WakeInv
<1>7. hist'.owed = Total(Hands)' + Total(Awaited)'
  BY <1>2, <1>3, <1>4, <1>5, <1>6
<1> QED
  BY <1>7 DEF WakeInv, WakesAddUp, Awaited

LEMMA WakeTakes ==
    ASSUME WakeInv, TypeOK', NEW t \in Threads, NEW c \in Commands, Takes(t, c)
    PROVE  WakeInv'
<1>1. Total(Hands) \in Int /\ Total(Hands)' = Total(Hands) - Hands[t] + Hands'[t]
  BY HandsMove DEF WakeInv, Takes
<1>2. Hands[t] = 0 /\ Hands'[t] = Outstanding(c) - Outstanding(c)'
  BY DEF Takes, Hands, At
<1>4. /\ Total(Awaited) \in Int /\ Outstanding(c) \in Int /\ Outstanding(c)' \in Int
      /\ Total(Awaited)' = Total(Awaited) - Outstanding(c) + Outstanding(c)'
  BY AwaitedMoves DEF WakeInv, Takes
<1>5. hist'.owed = hist.owed
  BY DEF Takes
<1>6. hist.owed = Total(Hands) + Total(Awaited)
  BY AddsUp DEF WakeInv
<1>7. hist'.owed = Total(Hands)' + Total(Awaited)'
  BY <1>1, <1>2, <1>4, <1>5, <1>6
<1> QED
  BY <1>7 DEF WakeInv, WakesAddUp, Awaited

LEMMA WakeDelivers ==
    ASSUME WakeInv, TypeOK', NEW t \in Threads, Delivers(t)
    PROVE  WakeInv'
<1>1. Total(Hands) \in Int /\ Total(Hands)' = Total(Hands) - Hands[t] + Hands'[t]
  BY HandsMove DEF WakeInv, Delivers
<1>2. Hands[t] = thread[t].hand /\ Hands'[t] = 0
  BY DEF Delivers, Hands, At
<1>3. Hands[t] \in Int /\ Total(Awaited) \in Int
  BY WakesTyped, TotalsTyped DEF WakeInv
<1>4. Awaited' = Awaited
  BY AwaitedSame DEF Delivers
<1>5. Total(Awaited)' = Total(Awaited)
  BY <1>4
<1>6. hist'.owed = hist.owed - thread[t].hand
  BY DEF Delivers
<1>7. hist.owed = Total(Hands) + Total(Awaited)
  BY AddsUp DEF WakeInv
<1>8. hist'.owed = Total(Hands)' + Total(Awaited)'
  BY <1>1, <1>2, <1>3, <1>5, <1>6, <1>7
<1> QED
  BY <1>8 DEF WakeInv, WakesAddUp, Awaited

LEMMA WakeReload ==
    ASSUME WakeInv, TypeOK', Reload
    PROVE  WakeInv'
<1>1. Total(Hands) \in Int /\ Total(Awaited) \in Int
  BY TotalsTyped DEF WakeInv
<1>2. PICK G : G = Hands'
  OBVIOUS
<1>3. G \in [Threads -> Int]
  BY <1>2, WakesTypedNext
<1>4. \A t \in Threads : G[t] = 0
  BY <1>2 DEF Hands, Reload, At, Idle
<1>5. Total(G) = 0
  BY <1>3, <1>4, FinitelyMany, TotalOfNothing
<1>6. Total(Hands)' = 0
  BY <1>2, <1>5
<1>7. Awaited' = Awaited
  BY AwaitedSame DEF Reload, stored
<1>8. Total(Awaited)' = Total(Awaited)
  BY <1>7
<1>9. hist'.owed = hist.owed - Total(Hands)
  BY DEF Reload, WakeInv, TypeOK, HistTyped
<1>10. hist.owed = Total(Hands) + Total(Awaited)
  BY AddsUp DEF WakeInv
<1>11. hist'.owed = Total(Hands)' + Total(Awaited)'
  BY <1>1, <1>6, <1>8, <1>9, <1>10
<1> QED
  BY <1>11 DEF WakeInv, WakesAddUp, Awaited

LEMMA Replaced ==
    ASSUME TypeOK, NEW t \in Threads, thread[t].at # "deliver", NEW r, r.at # "deliver", thread' = [thread EXCEPT ![t] = r]
    PROVE  HandsKept
<1>1. thread'[t] = r /\ \A u \in Threads \ {t} : thread'[u] = thread[u]
  BY DEF TypeOK
<1> QED
  BY <1>1 DEF HandsKept

LEMMA Moved ==
    ASSUME TypeOK, NEW t \in Threads, thread[t].at # "deliver", NEW l, l # "deliver", Goto(t, l)
    PROVE  HandsKept
<1>1. [thread[t] EXCEPT !.at = l].at = l
  BY DEF TypeOK, ThreadStates, ThreadRecords
<1>2. thread' = [thread EXCEPT ![t] = [thread[t] EXCEPT !.at = l]]
  BY Zenon DEF Goto
<1> QED
  BY <1>1, <1>2, Replaced

LEMMA MovedTo ==
    ASSUME TypeOK, NEW t \in Threads, thread[t].at # "deliver", NEW l, l # "deliver", NEW w,
           thread' = [thread EXCEPT ![t].at = l, ![t].why = w]
    PROVE  HandsKept
<1>1. thread'[t].at = l /\ \A u \in Threads \ {t} : thread'[u] = thread[u]
  BY DEF TypeOK, ThreadStates, ThreadRecords
<1> QED
  BY <1>1 DEF HandsKept

LEMMA Returned ==
    ASSUME TypeOK, NEW t \in Threads, thread[t].at # "deliver", Return(t)
    PROVE  HandsKept
<1>1. PICK l \in Resting : Goes(t, l, 0)
  BY ReturnReturns DEF Returns
<1>2. l # "deliver"
  BY DEF Resting
<1> QED
  BY <1>1, <1>2 DEF Goes, HandsKept

LEMMA WentOn ==
    ASSUME TypeOK, NEW t \in Threads, thread[t].at # "deliver",
           AfterStop(t) \/ Refuse(t) \/ AfterNotify(t) \/ AfterFire(t)
    PROVE  HandsKept
<1>1. \/ Return(t) \/ Goto(t, "stamp") \/ Goto(t, "restart") \/ Goto(t, "remove") \/ Goto(t, "notify")
  <2>1. AfterStop(t) => Return(t) \/ Goto(t, "stamp") \/ Goto(t, "restart") \/ Goto(t, "remove")
    BY Zenon DEF AfterStop
  <2>2. Refuse(t) => Return(t) \/ AfterStop(t)
    BY DEF Refuse
  <2>3. AfterNotify(t) => Return(t) \/ AfterStop(t)
    BY Zenon DEF AfterNotify
  <2>4. AfterFire(t) => Return(t) \/ Goto(t, "notify")
    BY DEF AfterFire
  <2> QED
    BY <2>1, <2>2, <2>3, <2>4
<1> QED
  BY <1>1, Returned, Moved

\* Every way the calls of a thread go on without wakes in hand.
Onwards(t) ==
    \/ UNCHANGED thread \/ Return(t)
    \/ AfterStop(t) \/ Refuse(t) \/ AfterNotify(t) \/ AfterFire(t)
    \/ \E l \in Labels \ {"deliver"} : Goto(t, l)
    \/ \E l \in Labels \ {"deliver"}, w \in Reasons : thread' = [thread EXCEPT ![t].at = l, ![t].why = w]
    \/ \E l \in Labels \ {"deliver"}, c \in Commands, w \in Reasons :
          \/ thread' = [thread EXCEPT ![t] = [Idle EXCEPT !.at = l, !.cmd = c, !.why = w]]
          \/ thread' = [thread EXCEPT ![t] = [Idle EXCEPT !.cmd = c, !.why = w, !.at = l]]

LEMMA OnwardsKeeps ==
    ASSUME TypeOK, NEW t \in Threads, thread[t].at # "deliver", Onwards(t)
    PROVE  HandsKept
<1>1. CASE UNCHANGED thread
  BY <1>1 DEF HandsKept
<1>2. CASE Return(t)
  BY <1>2, Returned
<1>3. CASE AfterStop(t) \/ Refuse(t) \/ AfterNotify(t) \/ AfterFire(t)
  BY <1>3, WentOn
<1>4. CASE \E l \in Labels \ {"deliver"} : Goto(t, l)
  BY <1>4, Moved
<1>5. CASE \E l \in Labels \ {"deliver"}, w \in Reasons : thread' = [thread EXCEPT ![t].at = l, ![t].why = w]
  BY <1>5, MovedTo
<1>6. CASE \E l \in Labels \ {"deliver"}, c \in Commands, w \in Reasons :
          \/ thread' = [thread EXCEPT ![t] = [Idle EXCEPT !.at = l, !.cmd = c, !.why = w]]
          \/ thread' = [thread EXCEPT ![t] = [Idle EXCEPT !.cmd = c, !.why = w, !.at = l]]
  <2>1. PICK l \in Labels \ {"deliver"}, c \in Commands, w \in Reasons :
          \/ thread' = [thread EXCEPT ![t] = [Idle EXCEPT !.at = l, !.cmd = c, !.why = w]]
          \/ thread' = [thread EXCEPT ![t] = [Idle EXCEPT !.cmd = c, !.why = w, !.at = l]]
    BY <1>6
  <2>2. /\ [Idle EXCEPT !.at = l, !.cmd = c, !.why = w].at = l
        /\ [Idle EXCEPT !.cmd = c, !.why = w, !.at = l].at = l
    BY DEF Idle
  <2>3. PICK r : r.at = l /\ thread' = [thread EXCEPT ![t] = r]
    BY <2>1, <2>2
  <2>4. r.at # "deliver"
    BY <2>3
  <2> QED
    BY <2>3, <2>4, Replaced
<1> QED
  BY <1>1, <1>2, <1>3, <1>4, <1>5, <1>6 DEF Onwards

LEMMA PlainLabels ==
    /\ {"rest", "read", "loop", "dispose", "spawn", "record", "release", "rollback", "restart", "persist", "fireUntil",
        "exit", "ask", "claim", "signal", "wait", "finish", "foundDead", "signalled", "stamp",
        "askKill", "claimKill", "kill", "waitKill", "finishKill", "enlist", "register", "recheck", "fire",
        "notify", "decide", "send", "mark", "remove", "removing", "clearing", "watch"} \subseteq Labels \ {"deliver"}
BY DEF Labels, Resting

QuietCall(t) ==
    \/ Restart(t) \/ Spawn(t) \/ RecordStart(t) \/ StartFails(t) \/ ReleaseStart(t) \/ rollbackStart(t)
    \/ Judge(t) \/ MissingSignalled(t) \/ Claim(t) \/ Signal(t) \/ Escalate(t) \/ Waited(t) \/ Finalize(t) \/ Stamp(t)
    \/ KillJudge(t) \/ ClaimKill(t) \/ SignalKill(t) \/ WaitedKill(t) \/ FinalizeKill(t) \/ Recheck(t)
    \/ NotifyEnter(t) \/ Decide(t) \/ Send(t) \/ MarkTold(t) \/ RemoveJudge(t) \/ RemoveRecord(t) \/ RecordWatch(t)

LEMMA QuietSettles ==
    ASSUME TypeOK, NEW t \in Threads, QuietCall(t)
    PROVE  Settled
<1>1. UNCHANGED waits /\ hist'.owed = hist.owed
  <2>1. CASE Send(t)
    <3>1. hist' = hist \/ hist' = [hist EXCEPT !.pings[thread[t].cmd] = @ + 1]
      BY <2>1 DEF Send
    <3> QED
      BY <2>1, <3>1 DEF Send, stored, TypeOK, HistTyped
  <2>2. CASE ~Send(t)
    BY <2>2 DEF QuietCall, Restart, Spawn, RecordStart, StartFails, ReleaseStart, rollbackStart, Judge, MissingSignalled,
       Claim, Signal, Escalate, Waited, Finalize, Stamp, KillJudge, ClaimKill, SignalKill, WaitedKill, FinalizeKill,
       Recheck, NotifyEnter, Decide, MarkTold, RemoveJudge, RemoveRecord, RecordWatch, stored
  <2> QED
    BY <2>1, <2>2
<1>2. thread[t].at # "deliver"
  BY DEF QuietCall, At, Restart, Spawn, RecordStart, StartFails, ReleaseStart, rollbackStart, Judge, MissingSignalled,
     Claim, Signal, Escalate, Waited, Finalize, Stamp, KillJudge, ClaimKill, SignalKill, WaitedKill, FinalizeKill,
     Recheck, NotifyEnter, Decide, Send, MarkTold, RemoveJudge, RemoveRecord, RecordWatch
<1>3. Onwards(t)
  <2>1. CASE Restart(t)
    <3>1. \/ Return(t)
          \/ \E c \in Commands : thread' = [thread EXCEPT ![t] = [Idle EXCEPT !.at = "spawn", !.cmd = c, !.why = "start"]]
      BY <2>1, Zenon DEF Restart
    <3> QED
      BY <3>1, PlainLabels, ReasonNames DEF Onwards
  <2>2. CASE Spawn(t) \/ RecordStart(t) \/ StartFails(t) \/ ReleaseStart(t) \/ rollbackStart(t)
    BY <2>2, PlainLabels DEF Spawn, RecordStart, StartFails, ReleaseStart, rollbackStart, Onwards
  <2>3. CASE Judge(t) \/ MissingSignalled(t) \/ Claim(t) \/ Signal(t) \/ Escalate(t) \/ Waited(t) \/ Finalize(t)
    BY <2>3, PlainLabels DEF Judge, MissingSignalled, Claim, Signal, Escalate, Waited, Finalize, Onwards
  <2>4. CASE Stamp(t)
    BY <2>4, PlainLabels, ReasonNames DEF Stamp, Onwards
  <2>5. CASE KillJudge(t) \/ ClaimKill(t) \/ SignalKill(t) \/ WaitedKill(t) \/ FinalizeKill(t) \/ Recheck(t)
    BY <2>5, PlainLabels DEF KillJudge, ClaimKill, SignalKill, WaitedKill, FinalizeKill, Recheck, Onwards
  <2>6. CASE NotifyEnter(t) \/ Decide(t) \/ Send(t) \/ MarkTold(t)
    BY <2>6, PlainLabels DEF NotifyEnter, Decide, Send, MarkTold, Onwards
  <2>7. CASE RemoveJudge(t) \/ RemoveRecord(t) \/ RecordWatch(t)
    BY <2>7, PlainLabels DEF RemoveJudge, RemoveRecord, RecordWatch, Onwards
  <2> QED
    BY <2>1, <2>2, <2>3, <2>4, <2>5, <2>6, <2>7 DEF QuietCall
<1> QED
  BY <1>1, <1>2, <1>3, OnwardsKeeps DEF Settled
LEMMA OwedTyped ==
    ASSUME WakeInv
    PROVE  hist.owed \in Int
BY TotalsTyped, AddsUp DEF WakeInv

LEMMA EnlistWaits ==
    ASSUME WakeInv, NEW c \in Commands, NEW kind \in {"exit", "until"}, Enlist(c, kind)
    PROVE  OthersWait(c) /\ hist'.owed = hist.owed - Outstanding(c) + Outstanding(c)'
<1>1. waits' = [waits EXCEPT ![c].until = @ + 1] \/ waits' = [waits EXCEPT ![c].exit = @ + 1]
  BY Zenon DEF Enlist
<1>2. /\ waits \in [Commands -> AwaitRecords] /\ waits[c] \in AwaitRecords
      /\ waits[c].exit \in Nat /\ waits[c].until \in Nat
  BY DEF WakeInv, TypeOK, AwaitRecords
<1>3. OthersWait(c)
  BY <1>1, <1>2 DEF OthersWait
<1>4. Outstanding(c)' = Outstanding(c) + 1
  <2>1. CASE waits' = [waits EXCEPT ![c].until = @ + 1]
    <3>1. waits'[c].until = waits[c].until + 1 /\ waits'[c].exit = waits[c].exit
      BY <1>2, <2>1 DEF AwaitRecords
    <3> QED
      BY <1>2, <3>1 DEF Outstanding
  <2>2. CASE waits' = [waits EXCEPT ![c].exit = @ + 1]
    <3>1. waits'[c].until = waits[c].until /\ waits'[c].exit = waits[c].exit + 1
      BY <1>2, <2>2 DEF AwaitRecords
    <3> QED
      BY <1>2, <3>1 DEF Outstanding
  <2> QED
    BY <1>1, <2>1, <2>2
<1>5. hist' = [hist EXCEPT !.owed = hist.owed + 1]
  BY Zenon DEF Enlist
<1>6. hist'.owed = hist.owed + 1
  BY <1>5 DEF WakeInv, TypeOK, HistTyped
<1>7. Outstanding(c) \in Int
  BY <1>2 DEF Outstanding
<1> QED
  BY <1>3, <1>4, <1>6, <1>7, OwedTyped

LEMMA Cancelled ==
    ASSUME WakeInv, NEW c \in Commands, HandsKept,
           waits' = [waits EXCEPT ![c] = None], hist' = [hist EXCEPT !.owed = @ - Outstanding(c)]
    PROVE  Changes(c)
<1>1. waits'[c] = None /\ OthersWait(c)
  BY DEF WakeInv, TypeOK, OthersWait
<1>2. Outstanding(c)' = 0 /\ Outstanding(c) \in Int
  BY <1>1 DEF Outstanding, None, WakeInv, TypeOK, AwaitRecords
<1>3. hist'.owed = hist.owed - Outstanding(c)
  BY DEF WakeInv, TypeOK, HistTyped
<1> QED
  BY <1>1, <1>2, <1>3, OwedTyped DEF Changes

\* The calls that register, consume, deliver or drop wakes.
WakeCall(t) ==
    fireCommandAwaits(t) \/ Deliver(t) \/ fireUntilAwaits(t) \/ EnlistOver(t) \/ Register(t) \/ clearAwaitsForCommand(t)

Accounted(t, c) == Settled \/ Changes(c) \/ Takes(t, c) \/ Delivers(t)

LEMMA CallAccounted ==
    ASSUME WakeInv, NEW t \in Threads, WakeCall(t)
    PROVE  \E c \in Commands : Accounted(t, c)
<1>1. TypeOK
  BY DEF WakeInv
<1>2. PICK c \in Commands : c = thread[t].cmd
  BY <1>1, CallsNamed DEF WakeCall, CallStep
<1> SUFFICES Accounted(t, c)
  OBVIOUS
<1>3. CASE fireCommandAwaits(t)
  <2>1. thread[t].at = "fire"
    BY <1>3 DEF fireCommandAwaits, At
  <2>2. CASE /\ waits' = [waits EXCEPT ![c] = None] /\ UNCHANGED hist
             /\ thread' = [thread EXCEPT ![t].at = "deliver", ![t].hand = Outstanding(c)]
    <3>1. waits'[c] = None /\ OthersWait(c)
      BY <1>1, <1>2, <2>2 DEF TypeOK, OthersWait
    <3>2. Outstanding(c)' = 0 /\ Outstanding(c) \in Int
      BY <1>1, <1>2, <3>1 DEF Outstanding, None, TypeOK, AwaitRecords
    <3>3. thread'[t].at = "deliver" /\ thread'[t].hand = Outstanding(c) /\ OneMoves(t)
      BY <1>1, <2>2 DEF TypeOK, ThreadStates, ThreadRecords, OneMoves
    <3> QED
      BY <2>1, <2>2, <3>1, <3>2, <3>3 DEF Takes, Accounted
  <2>3. CASE /\ waits' = [waits EXCEPT ![c] = None] /\ hist' = [hist EXCEPT !.owed = @ - Outstanding(c)]
             /\ AfterFire(t)
    <3>1. HandsKept
      BY <1>1, <2>1, <2>3, WentOn
    <3> QED
      BY <1>2, <2>3, <3>1, Cancelled DEF Accounted
  <2>4. CASE AfterFire(t) /\ UNCHANGED <<waits, hist>>
    BY <1>1, <2>1, <2>4, WentOn DEF Settled, Accounted
  <2> QED
    BY <1>2, <1>3, <2>2, <2>3, <2>4 DEF fireCommandAwaits
<1>4. CASE Deliver(t)
  <2>1. thread[t].at = "deliver" /\ hist'.owed = hist.owed - thread[t].hand /\ UNCHANGED waits
    BY <1>1, <1>4 DEF Deliver, At, stored, TypeOK, HistTyped
  <2>2. CASE Return(t)
    <3>1. PICK l \in Resting : Goes(t, l, 0)
      BY <1>1, <2>2, ReturnReturns DEF Returns
    <3> QED
      BY <2>1, <3>1 DEF Goes, Resting, Delivers, OneMoves, Accounted
  <2>3. CASE thread' = [thread EXCEPT ![t].at = "notify", ![t].hand = 0]
    <3>1. thread'[t].at = "notify" /\ OneMoves(t)
      BY <1>1, <2>3 DEF TypeOK, ThreadStates, ThreadRecords, OneMoves
    <3> QED
      BY <2>1, <3>1 DEF Delivers, Accounted
  <2> QED
    BY <1>4, <2>2, <2>3 DEF Deliver
<1>5. CASE fireUntilAwaits(t)
  <2>1. thread[t].at = "fireUntil" /\ UNCHANGED hist
    BY <1>5 DEF fireUntilAwaits, At
  <2>2. CASE /\ waits' = [waits EXCEPT ![c].until = 0]
             /\ thread' = [thread EXCEPT ![t].at = "deliver", ![t].hand = waits[c].until]
    <3>1. waits'[c].until = 0 /\ waits'[c].exit = waits[c].exit /\ OthersWait(c)
      BY <1>1, <1>2, <2>2 DEF TypeOK, AwaitRecords, OthersWait
    <3>2. waits[c].until = Outstanding(c) - Outstanding(c)'
      BY <1>1, <1>2, <3>1 DEF Outstanding, TypeOK, AwaitRecords
    <3>3. thread'[t].at = "deliver" /\ thread'[t].hand = waits[c].until /\ OneMoves(t)
      BY <1>1, <2>2 DEF TypeOK, ThreadStates, ThreadRecords, OneMoves
    <3> QED
      BY <2>1, <3>1, <3>2, <3>3 DEF Takes, Accounted
  <2>3. CASE UNCHANGED waits /\ (Return(t) \/ thread' = [thread EXCEPT ![t].at = "fire", ![t].why = "await"])
    <3>1. Onwards(t)
      BY <2>3, PlainLabels, ReasonNames DEF Onwards
    <3> QED
      BY <1>1, <2>1, <2>3, <3>1, OnwardsKeeps DEF Settled, Accounted
  <2> QED
    BY <1>2, <1>5, <2>2, <2>3 DEF fireUntilAwaits
<1>6. CASE EnlistOver(t)
  <2>1. thread[t].at = "enlist" /\ thread[t].why \in {"exit", "until"}
    BY <1>1, <1>6 DEF EnlistOver, At, TypeOK, ThreadStates
  <2>2. Onwards(t)
    BY <1>6, PlainLabels, ReasonNames DEF EnlistOver, Onwards
  <2>3. Enlist(c, thread[t].why)
    BY <1>2, <1>6 DEF EnlistOver
  <2> QED
    BY <1>1, <2>1, <2>2, <2>3, OnwardsKeeps, EnlistWaits DEF Changes, Accounted
<1>7. CASE Register(t)
  <2>1. thread[t].at = "register" /\ thread[t].why \in {"exit", "until"}
    BY <1>1, <1>7 DEF Register, At, TypeOK, ThreadStates
  <2>2. \/ Return(t)
        \/ thread' = [thread EXCEPT ![t].at = "fire", ![t].why = "await"]
        \/ thread' = [thread EXCEPT ![t].at = "recheck", ![t].why = "recheck"]
    BY <1>7, Zenon DEF Register
  <2>3. Onwards(t)
    BY <2>2, PlainLabels, ReasonNames DEF Onwards
  <2>4. HandsKept
    BY <1>1, <2>1, <2>3, OnwardsKeeps
  <2>5. Enlist(c, thread[t].why) \/ UNCHANGED <<waits, hist>>
    BY <1>2, <1>7 DEF Register
  <2> QED
    BY <1>2, <2>1, <2>4, <2>5, EnlistWaits DEF Changes, Settled, Accounted
<1>8. CASE clearAwaitsForCommand(t)
  <2>1. thread[t].at = "clearing" /\ Return(t)
    BY <1>8 DEF clearAwaitsForCommand, At
  <2>2. HandsKept
    BY <1>1, <2>1, Returned
  <2> QED
    BY <1>2, <1>8, <2>2, Cancelled DEF clearAwaitsForCommand, Accounted
<1> QED
  BY <1>3, <1>4, <1>5, <1>6, <1>7, <1>8 DEF WakeCall

LEMMA ToolSettles ==
    ASSUME TypeOK, Tool
    PROVE  Settled
<1>1. UNCHANGED <<waits, hist>>
  BY DEF Tool, AskStart, AskStop, AskAwait, AskWatch, AskRemove, stored
<1>2. PICK t \in Callers, c \in Commands :
        \/ \E s \in Specs : AskStart(t, c, s)
        \/ \E how \in {"terminate", "kill", "restart", "remove"} : AskStop(t, c, how)
        \/ \E kind \in {"exit", "until"} : AskAwait(t, c, kind)
        \/ \E w \in Watches : AskWatch(t, c, w)
        \/ AskRemove(t, c)
  BY DEF Tool
<1>3. t \in Threads
  BY ThreadNames
<1>4. thread[t].at = "rest"
  BY <1>2 DEF AskStart, AskStop, AskAwait, AskWatch, AskRemove, At
<1>5. \E r : r.at # "deliver" /\ thread' = [thread EXCEPT ![t] = r]
  <2>1. CASE \E s \in Specs : AskStart(t, c, s)
    BY <2>1 DEF AskStart, Idle
  <2>2. CASE \E how \in {"terminate", "kill", "restart", "remove"} : AskStop(t, c, how)
    <3>1. PICK how : AskStop(t, c, how)
      BY <2>2
    <3>2. PICK l \in {"askKill", "restart", "ask"} :
            thread' = [thread EXCEPT ![t] = [Idle EXCEPT !.cmd = c, !.why = how, !.at = l]]
      BY <3>1, Zenon DEF AskStop
    <3> QED
      BY <3>2 DEF Idle
  <2>3. CASE \E kind \in {"exit", "until"} : AskAwait(t, c, kind)
    <3>1. PICK kind : AskAwait(t, c, kind)
      BY <2>3
    <3>2. PICK l \in {"register", "enlist"} :
            thread' = [thread EXCEPT ![t] = [Idle EXCEPT !.cmd = c, !.why = kind, !.at = l]]
      BY <3>1, Zenon DEF AskAwait
    <3> QED
      BY <3>2 DEF Idle
  <2>4. CASE \E w \in Watches : AskWatch(t, c, w)
    BY <2>4 DEF AskWatch, Idle
  <2>5. CASE AskRemove(t, c)
    BY <2>5 DEF AskRemove, Idle
  <2> QED
    BY <1>2, <2>1, <2>2, <2>3, <2>4, <2>5
<1>6. HandsKept
  BY <1>3, <1>4, <1>5, Replaced
<1> QED
  BY <1>1, <1>6 DEF Settled

LEMMA WorkKeeps ==
    ASSUME TypeOK, NEW c \in Commands, thread[<<"queue", c>>].at # "deliver", NEW l, l # "deliver", NEW w, Work(c, l, w)
    PROVE  HandsKept
<1>1. [Idle EXCEPT !.at = l, !.cmd = c, !.why = w].at = l
  BY DEF Idle
<1> QED
  BY <1>1, ThreadNames, Replaced DEF Work

LEMMA TurnKeeps ==
    ASSUME TypeOK, thread[Plugin].at # "deliver", NEW c, NEW l, l # "deliver", NEW w, Turn(c, l, w)
    PROVE  HandsKept
<1>1. [Idle EXCEPT !.at = l, !.cmd = c, !.why = w].at = l
  BY DEF Idle
<1> QED
  BY <1>1, ThreadNames, Replaced DEF Turn

CommandStep(c) == Output(c) \/ Exit(c) \/ QueueStep(c) \/ TimerStep(c) \/ interrupt(c)

LEMMA CommandSettles ==
    ASSUME TypeOK, NEW c \in Commands, CommandStep(c)
    PROVE  Settled
<1>0. UNCHANGED waits /\ UNCHANGED hist
  BY DEF CommandStep, QueueStep, TimerStep, Output, Exit, FeedOutput, PersistOutput, flushWatch, UntilClaim, ExitHeard,
     ExitRecord, FlushTimer, Deadline, retryOwnerNotification, interrupt, stored
<1>1. CASE UNCHANGED thread
  BY <1>0, <1>1 DEF Settled, HandsKept
<1>2. CASE Output(c) \/ Exit(c) \/ flushWatch(c) \/ FlushTimer(c) \/ interrupt(c)
  BY <1>1, <1>2 DEF Output, Exit, flushWatch, FlushTimer, interrupt
<1>3. CASE FeedOutput(c)
  <2>1. thread[<<"queue", c>>].at # "deliver"
    BY <1>3 DEF FeedOutput, Ready, At
  <2>2. PICK w : Work(c, "persist", w)
    BY <1>3 DEF FeedOutput
  <2> QED
    BY <1>0, <2>1, <2>2, WorkKeeps DEF Settled
<1>4. CASE PersistOutput(c)
  <2>1. /\ thread[<<"queue", c>>].at # "deliver"
        /\ thread' = [thread EXCEPT ![<<"queue", c>>].at = "fireUntil", ![<<"queue", c>>].why = "output"]
    BY <1>4 DEF PersistOutput, At
  <2> QED
    BY <1>0, <2>1, MovedTo, ThreadNames DEF Settled
<1>5. CASE UntilClaim(c)
  <2>1. thread[<<"queue", c>>].at # "deliver"
    BY <1>5 DEF UntilClaim, Ready, At
  <2>2. Work(c, "ask", "until") \/ UNCHANGED thread
    BY <1>5 DEF UntilClaim
  <2> QED
    BY <1>0, <1>1, <2>1, <2>2, WorkKeeps DEF Settled
<1>6. CASE ExitHeard(c)
  <2>1. PICK how : Ready(c, how) /\ Work(c, "exit", how)
    BY <1>6 DEF ExitHeard
  <2>2. thread[<<"queue", c>>].at # "deliver"
    BY <2>1 DEF Ready, At
  <2> QED
    BY <1>0, <2>1, <2>2, WorkKeeps DEF Settled
<1>7. CASE ExitRecord(c)
  <2>1. thread[<<"queue", c>>].at # "deliver" /\ Work(c, "fire", "exit")
    BY <1>7 DEF ExitRecord, At
  <2> QED
    BY <1>0, <2>1, WorkKeeps DEF Settled
<1>8. CASE Deadline(c)
  <2>1. thread[<<"timer", c>>].at # "deliver"
    BY <1>8 DEF Deadline, At
  <2>2. \/ UNCHANGED thread
        \/ thread' = [thread EXCEPT ![<<"timer", c>>] = [Idle EXCEPT !.at = "ask", !.cmd = c, !.why = "timeout"]]
    BY <1>8 DEF Deadline
  <2>3. [Idle EXCEPT !.at = "ask", !.cmd = c, !.why = "timeout"].at # "deliver"
    BY DEF Idle
  <2> QED
    BY <1>0, <1>1, <2>1, <2>2, <2>3, Replaced, ThreadNames DEF Settled
<1>9. CASE retryOwnerNotification(c)
  <2>1. /\ thread[<<"timer", c>>].at # "deliver"
        /\ thread' = [thread EXCEPT ![<<"timer", c>>] = [Idle EXCEPT !.at = "notify", !.cmd = c, !.why = "again"]]
    BY <1>9 DEF retryOwnerNotification, At
  <2>2. [Idle EXCEPT !.at = "notify", !.cmd = c, !.why = "again"].at # "deliver"
    BY DEF Idle
  <2> QED
    BY <1>0, <2>1, <2>2, Replaced, ThreadNames DEF Settled
<1> QED
  BY <1>2, <1>3, <1>4, <1>5, <1>6, <1>7, <1>8, <1>9 DEF CommandStep, QueueStep, TimerStep

LEMMA PluginSettles ==
    ASSUME TypeOK, PluginStep \/ Dispose
    PROVE  Settled
<1>0. UNCHANGED waits /\ UNCHANGED hist
  BY DEF PluginStep, ReconcileRead, reconcileCommandAwaits, ReconcileOver, ReconcileRunning, DisposeCommand, Dispose, stored
<1>1. thread[Plugin].at # "deliver"
  BY DEF PluginStep, ReconcileRead, reconcileCommandAwaits, ReconcileOver, ReconcileRunning, DisposeCommand, Dispose, At
<1>2. HandsKept
  <2>1. CASE UNCHANGED thread
    BY <2>1 DEF HandsKept
  <2>2. CASE ReconcileRead \/ Dispose
    <3>1. Goto(Plugin, "loop") \/ Goto(Plugin, "dispose")
      BY <2>2 DEF ReconcileRead, Dispose
    <3> QED
      BY <1>1, <3>1, ThreadNames, Moved
  <2>3. CASE reconcileCommandAwaits
    <3>1. (\E c \in Commands : Turn(c, "fire", "await")) \/ thread' = [thread EXCEPT ![Plugin] = Idle]
      BY <2>3 DEF reconcileCommandAwaits
    <3>2. Idle.at # "deliver"
      BY DEF Idle
    <3> QED
      BY <1>1, <3>1, <3>2, ThreadNames, TurnKeeps, Replaced
  <2>4. CASE \E c \in Commands : ReconcileOver(c) \/ ReconcileRunning(c) \/ DisposeCommand(c)
    <3>1. PICK c \in Commands : ReconcileOver(c) \/ ReconcileRunning(c) \/ DisposeCommand(c)
      BY <2>4
    <3>2. UNCHANGED thread \/ Turn(c, "notify", "boot") \/ Turn(c, "fire", "boot") \/ Turn(c, "ask", "control")
      BY <3>1 DEF ReconcileOver, ReconcileRunning, DisposeCommand
    <3> QED
      BY <1>1, <2>1, <3>2, TurnKeeps
  <2> QED
    BY <2>2, <2>3, <2>4 DEF PluginStep
<1> QED
  BY <1>0, <1>2 DEF Settled

LEMMA WakeStep == WakeInv /\ [Next]_vars => WakeInv'
<1> SUFFICES ASSUME WakeInv, [Next]_vars PROVE WakeInv'
  OBVIOUS
<1>0. TypeOK /\ TypeOK'
  BY TypeStep DEF WakeInv
<1>1. CASE Tool
  BY <1>0, <1>1, ToolSettles, WakeSettled
<1>2. CASE \E t \in Threads : CallStep(t)
  <2>1. PICK t \in Threads : CallStep(t)
    BY <1>2
  <2>2. CASE QuietCall(t)
    BY <1>0, <2>2, QuietSettles, WakeSettled
  <2>3. CASE WakeCall(t)
    <3>1. PICK c \in Commands : Accounted(t, c)
      BY <2>3, CallAccounted
    <3> QED
      BY <1>0, <3>1, WakeSettled, WakeChanges, WakeTakes, WakeDelivers DEF Accounted
  <2> QED
    BY <2>1, <2>2, <2>3 DEF CallStep, QuietCall, WakeCall
<1>3. CASE \E c \in Commands : CommandStep(c) \/ cancelAwaitsForGoal(c)
  <2>1. PICK c \in Commands : CommandStep(c) \/ cancelAwaitsForGoal(c)
    BY <1>3
  <2>2. CASE CommandStep(c)
    BY <1>0, <2>2, CommandSettles, WakeSettled
  <2>3. CASE cancelAwaitsForGoal(c)
    <3>1. HandsKept
      BY <2>3 DEF cancelAwaitsForGoal, HandsKept
    <3>2. Changes(c)
      BY <2>3, <3>1, Cancelled DEF cancelAwaitsForGoal
    <3> QED
      BY <1>0, <3>2, WakeChanges
  <2> QED
    BY <2>1, <2>2, <2>3
<1>4. CASE PluginStep \/ Dispose
  BY <1>0, <1>4, PluginSettles, WakeSettled
<1>5. CASE Reload
  BY <1>0, <1>5, WakeReload
<1>6. CASE UNCHANGED vars
  BY <1>0, <1>6, WakeSettled DEF vars, stored, Settled, HandsKept
<1> QED
  BY <1>1, <1>2, <1>3, <1>4, <1>5, <1>6 DEF Next, CommandStep

(* Every wake a goal asked for is registered once or in the hands of one    *)
(* call until it is delivered or dropped: exit, terminate, recovery and the *)
(* request itself all set out to fire it, and the transaction that consumes *)
(* it is the only one whose call has it.                                    *)
THEOREM EveryWakeCounted == Spec => []WakesAddUp
<1>1. WakeInv => WakesAddUp
  BY DEF WakeInv
<1> QED
  BY <1>1, WakeInit, WakeStep, PTL DEF Spec
=============================================================================
