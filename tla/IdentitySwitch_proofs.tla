------------------------- MODULE IdentitySwitch_proofs -------------------------
(***************************************************************************)
(* A worker runs under the identity its goal is configured with, and a      *)
(* provider's limit yields to the owner: for any models and agents, any     *)
(* host and any number of requests, turns and faults.                       *)
(*                                                                          *)
(* The operations of a goal are serialized, so most of the invariant says   *)
(* what the one in progress has done so far at each of its places: which    *)
(* halves of a switch the host has accepted, and that nothing but it moves  *)
(* the configuration, the session or what is deferred.                      *)
(***************************************************************************)
EXTENDS IdentitySwitch, TLAPS

LEMMA PlaceNames ==
    /\ {"rest", "status", "defer", "model-status", "model", "agent-status", "agent", "persist", "rollback", "resume"} \subseteq Places
    /\ {"continue", "turn-both", "turn-model", "turn-agent", "failed", "acquire", "prompt", "limit", "note", "note-blocker"} \subseteq Places
BY DEF Places

\* What an operation carries along when it only goes on to another place.
Carries == /\ op'.for = op.for /\ op'.want = op.want /\ op'.resume = op.resume /\ op'.lease = op.lease
           /\ op'.changed = op.changed /\ op'.was = op.was /\ op'.snap = op.snap /\ op'.pick = op.pick
Moves(l) == op' \in Operations /\ op'.at = l /\ Carries

LEMMA GotoMoves ==
    ASSUME op \in Operations, NEW l \in Places, Goto(l)
    PROVE  Moves(l)
<1>1. op' = [op EXCEPT !.at = l]
  BY DEF Goto
<1>2. op' \in Operations
  BY <1>1, Zenon DEF Operations
<1> QED
  BY <1>1, <1>2 DEF Operations, Moves, Carries

LEMMA NothingTyped == Nothing \in Deferrals /\ Nothing.both = <<None, None>> /\ Nothing.why = "none"
BY DEF Nothing, Deferrals

LEMMA RestTyped == Rest \in Operations /\ Rest.at = "rest" /\ Rest.for = "owner" /\ Rest.changed = {}
<1>1. <<None, None>> \in Wants
  BY DEF Wants
<1>2. Rest \in Operations
  BY <1>1, NothingTyped, PlaceNames, Zenon DEF Rest, Operations
<1> QED
  BY <1>2 DEF Rest

\* A turn's operation goes on to its next part with nothing but what it read.
Renews(l) == op' \in Operations /\ op'.at = l /\ op'.for = op.for /\ op'.snap = op.snap /\ op'.changed = {}
Renewing == {"turn-model", "turn-agent", "acquire"}

LEMMA Finishes ==
    ASSUME op \in Operations, NEW l \in Places, Finish(l)
    PROVE  \/ l = "rest" /\ op' = Rest
           \/ l \in Renewing /\ Renews(l)
           \/ l \notin Renewing \cup {"rest"} /\ Moves(l)
<1>1. CASE l = "rest"
  BY <1>1 DEF Finish
<1>2. CASE l \in Renewing
  <2>1. op' = [Rest EXCEPT !.at = l, !.for = op.for, !.snap = op.snap]
    BY <1>2 DEF Finish, Renewing
  <2>2. op.for \in {"owner", "prompt", "compact"} /\ op.snap \in Deferrals
    BY DEF Operations
  <2>3. op' \in Operations
    BY <2>1, <2>2, RestTyped, Zenon DEF Operations
  <2>4. op'.at = l /\ op'.for = op.for /\ op'.snap = op.snap /\ op'.changed = {}
    BY <2>1, RestTyped DEF Operations
  <2> QED
    BY <1>2, <2>3, <2>4 DEF Renews
<1>3. CASE l \notin Renewing \cup {"rest"}
  <2>1. Goto(l)
    BY <1>3 DEF Finish, Goto, Renewing
  <2> QED
    BY <1>3, <2>1, GotoMoves
<1> QED
  BY <1>1, <1>2, <1>3
-----------------------------------------------------------------------------
(* What the operation in progress has done by each of its places.           *)
Asked == {"status", "defer"}
Applying == {"model-status", "model", "agent-status", "agent", "persist", "rollback"}
Turning == {"turn-both", "turn-model", "turn-agent", "acquire", "prompt"}

HalvesPlaced ==
    /\ op.at \in Asked \cup Applying => Has(op.want[1]) \/ Has(op.want[2])
    /\ op.at \in {"model-status", "agent-status"} => Combined
    /\ op.at = "model" => Has(op.want[1])
    /\ op.at = "agent" => Has(op.want[2])
HalvesAccepted ==
    /\ op.at \in {"status", "defer", "model-status", "model"} => op.changed = {}
    /\ op.at = "agent-status" => op.changed = {"model"}
    /\ op.at = "agent" => op.changed = (IF Combined THEN {"model"} ELSE {})
    /\ op.at = "persist" => ("model" \in op.changed <=> Has(op.want[1])) /\ ("agent" \in op.changed <=> Has(op.want[2]))
KnowsBefore == op.at \in Asked \cup Applying => op.was = Configured

\* On a session that is not torn, a surface has what the goal or the operation gave it.
SessionFollows ==
    ~torn => /\ "model" \in surface =>
                   session.model = (IF op.at \in Applying /\ "model" \in op.changed THEN op.want[1] ELSE goal.model)
             /\ "agent" \in surface =>
                   session.agent = (IF op.at \in Applying /\ "agent" \in op.changed THEN op.want[2] ELSE goal.agent)
TurnsUndisturbed ==
    worker = "turn" => /\ session.model = goal.model /\ session.agent = goal.agent
                       /\ op.at \notin Applying \cup Turning
                       /\ op.at \in Asked => op.for = "owner"

QuotaAlone == deferred.why = "quota" => deferred.both = <<None, None>>
NotesWhatItRead ==
    op.at = "note" => /\ op.snap = deferred /\ deferred.both = <<None, None>> /\ deferred.why # "owner"
                      /\ op.pick \notin tried \/ op.pick = deferred.model
PreparedOnce == \A m \in Models : prepared[m] <= 1 /\ (prepared[m] = 1 => m \in tried)

SwitchInv ==
    /\ TypeOK /\ HalvesPlaced /\ HalvesAccepted /\ KnowsBefore /\ SessionFollows /\ TurnsUndisturbed
    /\ QuotaAlone /\ NotesWhatItRead /\ PreparedOnce
-----------------------------------------------------------------------------
LEMMA Spends ==
    ASSUME TypeOK, NEW k \in {"turns", "verbs", "faults"}, NEW most, Spend(k, most),
           most = (CASE k = "turns" -> MaxTurns [] k = "verbs" -> MaxVerbs [] k = "faults" -> MaxFaults)
    PROVE  bound' \in [turns : 0 .. MaxTurns, verbs : 0 .. MaxVerbs, faults : 0 .. MaxFaults]
<1> DEFINE B == [turns : 0 .. MaxTurns, verbs : 0 .. MaxVerbs, faults : 0 .. MaxFaults]
<1>1. bound \in B /\ bound[k] < most /\ bound' = [bound EXCEPT ![k] = @ + 1]
  BY DEF TypeOK, Spend
<1>2. CASE k = "turns"
  BY <1>1, <1>2, BoundsAssumption
<1>3. CASE k = "verbs"
  BY <1>1, <1>3, BoundsAssumption
<1>4. CASE k = "faults"
  BY <1>1, <1>4, BoundsAssumption
<1> QED
  BY <1>2, <1>3, <1>4

LEMMA FailsSpends ==
    ASSUME TypeOK, NEW what, Fails(what)
    PROVE  bound' \in [turns : 0 .. MaxTurns, verbs : 0 .. MaxVerbs, faults : 0 .. MaxFaults]
BY Spends DEF Fails

LEMMA VerbSpends ==
    ASSUME TypeOK, Spend("verbs", MaxVerbs) \/ Spend("turns", MaxTurns)
    PROVE  bound' \in [turns : 0 .. MaxTurns, verbs : 0 .. MaxVerbs, faults : 0 .. MaxFaults]
BY Spends

LEMMA SwitchInit == Init => SwitchInv
<1> SUFFICES ASSUME Init PROVE SwitchInv
  OBVIOUS
<1>1. PICK m \in Models, a \in Agents :
        /\ goal = [st |-> "active", limit |-> FALSE, model |-> m, agent |-> a]
        /\ session = [model |-> m, agent |-> a]
  BY DEF Init
<1>2. op \in Operations /\ op.at = "rest" /\ op.changed = {} /\ deferred \in Deferrals /\ deferred.why = "none"
  BY RestTyped, NothingTyped DEF Init
<1>3. goal \in Goals /\ session \in [model : Models, agent : Agents] /\ goal.model = m /\ goal.agent = a /\ session.model = m /\ session.agent = a
  BY <1>1 DEF Goals
<1>7. bound \in [turns : 0 .. MaxTurns, verbs : 0 .. MaxVerbs, faults : 0 .. MaxFaults]
  BY BoundsAssumption DEF Init
<1>8. prepared \in [Models -> Nat]
  BY DEF Init
<1>9. lease \in BOOLEAN /\ torn \in BOOLEAN
  BY DEF Init
<1>10. tried \subseteq Models /\ limits \subseteq Models /\ surface \in Surfaces /\ worker \in {"idle", "turn", "user"}
  BY DEF Init
<1>4. TypeOK
  BY <1>2, <1>3, <1>7, <1>8, <1>9, <1>10 DEF TypeOK
<1>5. HalvesPlaced /\ HalvesAccepted /\ KnowsBefore /\ SessionFollows /\ TurnsUndisturbed
  BY <1>2, <1>3 DEF Init, HalvesPlaced, HalvesAccepted, KnowsBefore, SessionFollows, TurnsUndisturbed, Asked, Applying
<1>6. QuotaAlone /\ NotesWhatItRead /\ PreparedOnce
  BY <1>2 DEF Init, QuotaAlone, NotesWhatItRead, PreparedOnce
<1> QED
  BY <1>4, <1>5, <1>6 DEF SwitchInv

\* A step that leaves the operation, the configuration and the session alone.
LEMMA Beside ==
    ASSUME SwitchInv, UNCHANGED <<op, session, deferred, tried, prepared, surface>>,
           goal' \in Goals, goal'.model = goal.model, goal'.agent = goal.agent,
           torn' \in BOOLEAN, torn => torn', worker' \in {"idle", "turn", "user"}, worker' = "turn" => worker = "turn",
           lease' \in BOOLEAN, limits' \subseteq Models, bound' \in [turns : 0 .. MaxTurns, verbs : 0 .. MaxVerbs, faults : 0 .. MaxFaults]
    PROVE  SwitchInv'
<1>1. TypeOK'
  BY DEF SwitchInv, TypeOK
<1>2. HalvesPlaced' /\ HalvesAccepted' /\ KnowsBefore'
  BY DEF SwitchInv, HalvesPlaced, HalvesAccepted, KnowsBefore, Configured, Combined, Kind
<1>3. SessionFollows' /\ TurnsUndisturbed'
  BY DEF SwitchInv, SessionFollows, TurnsUndisturbed
<1>4. QuotaAlone' /\ NotesWhatItRead' /\ PreparedOnce'
  BY DEF SwitchInv, QuotaAlone, NotesWhatItRead, PreparedOnce
<1> QED
  BY <1>1, <1>2, <1>3, <1>4 DEF SwitchInv

\* The operation goes on to a place where it has nothing under way.
Quiet == {"rest", "resume", "continue", "turn-both", "turn-model", "turn-agent", "failed", "acquire", "prompt", "limit", "note-blocker"}
LEMMA GoesOn ==
    ASSUME SwitchInv, op' \in Operations, op'.at \in Quiet, op'.at \in Turning => worker # "turn",
           op.at \in Applying => op.changed = {},
           UNCHANGED <<session, surface, tried, prepared, torn, worker, limits>>,
           deferred' \in Deferrals, deferred'.why = "quota" => deferred'.both = <<None, None>>,
           goal' \in Goals, goal'.model = goal.model, goal'.agent = goal.agent, lease' \in BOOLEAN,
           bound' \in [turns : 0 .. MaxTurns, verbs : 0 .. MaxVerbs, faults : 0 .. MaxFaults]
    PROVE  SwitchInv'
<1>1. TypeOK'
  BY DEF SwitchInv, TypeOK
<1>2. op'.at \notin Asked \cup Applying \cup {"note"}
  BY DEF Quiet, Asked, Applying
<1>3. HalvesPlaced' /\ HalvesAccepted' /\ KnowsBefore'
  BY <1>2 DEF HalvesPlaced, HalvesAccepted, KnowsBefore, Asked, Applying
<1>4. SessionFollows'
  BY <1>2 DEF SwitchInv, SessionFollows
<1>5. TurnsUndisturbed'
  BY <1>2 DEF SwitchInv, TurnsUndisturbed
<1>6. QuotaAlone' /\ NotesWhatItRead' /\ PreparedOnce'
  BY <1>2 DEF SwitchInv, QuotaAlone, NotesWhatItRead, PreparedOnce
<1> QED
  BY <1>1, <1>3, <1>4, <1>5, <1>6 DEF SwitchInv

\* The operation works on its switch, and moves at most the session.
LEMMA WorksOn ==
    ASSUME SwitchInv, op' \in Operations, op'.at \in Asked \cup Applying,
           (HalvesPlaced /\ HalvesAccepted /\ KnowsBefore /\ SessionFollows /\ TurnsUndisturbed)',
           session' \in [model : Models, agent : Agents], torn' \in BOOLEAN,
           UNCHANGED <<goal, deferred, tried, lease, surface, worker, limits, prepared>>,
           bound' \in [turns : 0 .. MaxTurns, verbs : 0 .. MaxVerbs, faults : 0 .. MaxFaults]
    PROVE  SwitchInv'
<1>1. TypeOK'
  BY DEF SwitchInv, TypeOK
<1>2. QuotaAlone' /\ NotesWhatItRead' /\ PreparedOnce'
  BY DEF SwitchInv, QuotaAlone, NotesWhatItRead, PreparedOnce, Asked, Applying
<1> QED
  BY <1>1, <1>2 DEF SwitchInv
-----------------------------------------------------------------------------
LEMMA KeepsUnlessMoved == ASSUME SwitchInv PROVE goal \in Goals /\ deferred \in Deferrals /\ op \in Operations /\ lease \in BOOLEAN /\ torn \in BOOLEAN
    /\ session \in [model : Models, agent : Agents] /\ bound \in [turns : 0 .. MaxTurns, verbs : 0 .. MaxVerbs, faults : 0 .. MaxFaults]
    /\ worker \in {"idle", "turn", "user"} /\ limits \subseteq Models /\ TypeOK
BY DEF SwitchInv, TypeOK

LEMMA TurnOverKeeps == ASSUME SwitchInv, TurnOver PROVE SwitchInv'
BY KeepsUnlessMoved, Beside DEF TurnOver

LEMMA UserTypesKeeps == ASSUME SwitchInv, UserTypes PROVE SwitchInv'
BY KeepsUnlessMoved, VerbSpends, Beside DEF UserTypes

LEMMA StatusTyped ==
    ASSUME SwitchInv, NEW st \in {"active", "paused", "blocked", "complete"}
    PROVE  LET g == [goal EXCEPT !.st = st, !.limit = FALSE] IN g \in Goals /\ g.model = goal.model /\ g.agent = goal.agent
<1>1. goal \in Goals
  BY KeepsUnlessMoved
<1> QED
  BY <1>1 DEF Goals

LEMMA ChargeKeeps == ASSUME SwitchInv, CloseTurn \/ ChargeTurn PROVE SwitchInv'
<1>0. goal.st \in {"active", "paused", "blocked", "complete"} /\ goal.model \in Models /\ goal \in Goals
  BY KeepsUnlessMoved DEF Goals
<1>1. goal' \in Goals /\ goal'.model = goal.model /\ goal'.agent = goal.agent
  <2>1. PICK st \in {goal.st, "blocked", "complete"} : goal' = IF goal.st = "active" THEN [goal EXCEPT !.st = st, !.limit = FALSE] ELSE goal
    BY DEF CloseTurn, ChargeTurn
  <2>2. st \in {"active", "paused", "blocked", "complete"}
    BY <1>0
  <2> QED
    BY <1>0, <2>1, <2>2, StatusTyped
<1>2. /\ UNCHANGED <<op, session, deferred, tried, prepared, surface, torn, worker, bound>> /\ lease' = FALSE
      /\ limits' = limits \/ limits' = limits \cup {goal.model}
  BY DEF CloseTurn, ChargeTurn
<1> QED
  BY <1>0, <1>1, <1>2, KeepsUnlessMoved, Beside

LEMMA CrashKeeps == ASSUME SwitchInv, Crash PROVE SwitchInv'
<1>1. op' \in Operations /\ op'.at = "rest"
  BY RestTyped DEF Crash
<1>2. UNCHANGED <<goal, deferred, tried, lease, session, surface, worker, prepared>> /\ limits' = {}
  BY DEF Crash
<1>3. bound' \in [turns : 0 .. MaxTurns, verbs : 0 .. MaxVerbs, faults : 0 .. MaxFaults]
  BY KeepsUnlessMoved, FailsSpends DEF Crash
<1>4. torn' \in BOOLEAN /\ (~torn' => ~torn /\ session.model = goal.model /\ session.agent = goal.agent)
  BY KeepsUnlessMoved DEF Crash, Identity, Configured
<1>5. TypeOK'
  BY <1>1, <1>2, <1>3, <1>4 DEF SwitchInv, TypeOK
<1>6. HalvesPlaced' /\ HalvesAccepted' /\ KnowsBefore' /\ NotesWhatItRead'
  BY <1>1 DEF HalvesPlaced, HalvesAccepted, KnowsBefore, NotesWhatItRead, Asked, Applying
<1>7. SessionFollows' /\ TurnsUndisturbed'
  BY <1>1, <1>2, <1>4 DEF SwitchInv, SessionFollows, TurnsUndisturbed, Asked, Applying, Turning
<1>8. QuotaAlone' /\ PreparedOnce'
  BY <1>2 DEF SwitchInv, QuotaAlone, PreparedOnce
<1> QED
  BY <1>5, <1>6, <1>7, <1>8 DEF SwitchInv
-----------------------------------------------------------------------------
LEMMA AskKeeps ==
    ASSUME SwitchInv, NEW m \in Models \cup {None}, NEW a \in Agents \cup {None}, NEW resume \in BOOLEAN, Ask(m, a, resume)
    PROVE  SwitchInv'
<1> DEFINE want == Merged(m, a)
<1>1. deferred.both \in (Models \X Agents) \cup {<<None, None>>}
  BY KeepsUnlessMoved DEF Deferrals
<1>2. want \in Wants /\ (Has(want[1]) \/ Has(want[2]))
  <2>1. CASE deferred.both = <<None, None>>
    BY <2>1 DEF Ask, Merged, Wants
  <2>2. CASE deferred.both \in Models \X Agents
    BY <2>2, NoneAssumption DEF Ask, Merged, Wants, Has
  <2> QED
    BY <1>1, <2>1, <2>2
<1>3. Configured \in Wants
  BY KeepsUnlessMoved DEF Configured, Wants, Goals
<1>4. op' = [Rest EXCEPT !.at = "status", !.want = want, !.resume = resume, !.lease = lease, !.was = Configured] /\ op.at = "rest"
  BY DEF Ask, At
<1> HIDE DEF want
<1>5. op' \in Operations
  BY <1>2, <1>3, <1>4, KeepsUnlessMoved, RestTyped, PlaceNames, Zenon DEF Operations
<1>6. op'.at = "status" /\ op'.want = want /\ op'.was = Configured /\ op'.changed = {} /\ op'.for = "owner"
  BY <1>4, RestTyped DEF Operations
<1>7. UNCHANGED <<goal, deferred, tried, lease, session, surface, worker, limits, torn, prepared>>
  BY DEF Ask
<1>8. bound' \in [turns : 0 .. MaxTurns, verbs : 0 .. MaxVerbs, faults : 0 .. MaxFaults]
  BY KeepsUnlessMoved, VerbSpends DEF Ask
<1>9. HalvesPlaced' /\ HalvesAccepted'
  BY <1>2, <1>6 DEF HalvesPlaced, HalvesAccepted
<1>10. KnowsBefore'
  BY <1>6, <1>7 DEF KnowsBefore, Configured
<1>11. SessionFollows' /\ TurnsUndisturbed'
  BY <1>4, <1>6, <1>7 DEF SwitchInv, SessionFollows, TurnsUndisturbed, Asked, Applying, Turning
<1> QED
  BY <1>5, <1>6, <1>7, <1>8, <1>9, <1>10, <1>11, KeepsUnlessMoved, WorksOn DEF Asked

LEMMA FindStatusKeeps == ASSUME SwitchInv, FindStatus PROVE SwitchInv'
<1>1. UNCHANGED <<goal, deferred, tried, lease, session, surface, worker, limits, torn, prepared>> /\ op.at = "status"
  BY DEF FindStatus, At
<1>2. bound' \in [turns : 0 .. MaxTurns, verbs : 0 .. MaxVerbs, faults : 0 .. MaxFaults]
  BY KeepsUnlessMoved, FailsSpends DEF FindStatus
<1>3. PICK l \in {"defer", "model-status", "model", "agent"} :
        /\ Goto(l) /\ (l # "defer" => worker = "idle")
        /\ (l = "model-status" => Combined) /\ (l = "model" => Has(op.want[1]) /\ ~Combined) /\ (l = "agent" => ~Has(op.want[1]))
  BY DEF FindStatus, Busy
<1>4. Moves(l)
  BY <1>3, KeepsUnlessMoved, GotoMoves, PlaceNames
<1>5. HalvesPlaced' /\ HalvesAccepted'
  BY <1>1, <1>3, <1>4 DEF SwitchInv, Moves, Carries, HalvesPlaced, HalvesAccepted, Combined, Kind, Asked, Applying
<1>6. KnowsBefore'
  BY <1>1, <1>3, <1>4 DEF SwitchInv, Moves, Carries, KnowsBefore, Configured, Asked, Applying
<1>7. SessionFollows' /\ TurnsUndisturbed'
  BY <1>1, <1>3, <1>4 DEF SwitchInv, Moves, Carries, HalvesAccepted, SessionFollows, TurnsUndisturbed, Asked, Applying, Turning
<1>8. op' \in Operations /\ op'.at \in Asked \cup Applying
  BY <1>3, <1>4 DEF Moves, Asked, Applying
<1> QED
  BY <1>1, <1>2, <1>5, <1>6, <1>7, <1>8, KeepsUnlessMoved, WorksOn

LEMMA LookAgainKeeps == ASSUME SwitchInv, LookAgain PROVE SwitchInv'
<1>1. UNCHANGED <<goal, deferred, tried, lease, session, surface, worker, limits, torn, prepared>> /\ op.at \in {"model-status", "agent-status"}
  BY DEF LookAgain, At
<1>2. bound' \in [turns : 0 .. MaxTurns, verbs : 0 .. MaxVerbs, faults : 0 .. MaxFaults]
  BY KeepsUnlessMoved, FailsSpends DEF LookAgain
<1>3. PICK l \in {"model", "agent", "rollback"} :
        /\ Goto(l) /\ (l = "model" => op.at = "model-status") /\ (l = "agent" => op.at = "agent-status")
  BY DEF LookAgain, At
<1>4. Moves(l)
  BY <1>3, KeepsUnlessMoved, GotoMoves, PlaceNames
<1>0. Combined /\ Has(op.want[1]) /\ Has(op.want[2])
  BY <1>1 DEF SwitchInv, HalvesPlaced, Combined, Kind
<1>5. HalvesPlaced' /\ HalvesAccepted'
  BY <1>0, <1>1, <1>3, <1>4 DEF SwitchInv, Moves, Carries, HalvesPlaced, HalvesAccepted, Combined, Kind
<1>6. KnowsBefore'
  BY <1>1, <1>3, <1>4 DEF SwitchInv, Moves, Carries, KnowsBefore, Configured, Asked, Applying
<1>7. SessionFollows' /\ TurnsUndisturbed'
  BY <1>1, <1>3, <1>4 DEF SwitchInv, Moves, Carries, HalvesAccepted, SessionFollows, TurnsUndisturbed, Asked, Applying, Turning
<1>8. op' \in Operations /\ op'.at \in Asked \cup Applying
  BY <1>3, <1>4 DEF Moves, Asked, Applying
<1> QED
  BY <1>1, <1>2, <1>5, <1>6, <1>7, <1>8, KeepsUnlessMoved, WorksOn

\* What the host answers to one half of a switch.
LEMMA HostKeeps ==
    ASSUME SwitchInv, NEW d \in {"model", "agent"}, NEW value, HostTakes(d, value),
           d = "model" => value = op.want[1], d = "agent" => value = op.want[2]
    PROVE  SwitchInv'
<1>0. /\ UNCHANGED <<goal, deferred, tried, lease, surface, worker, limits, prepared>> /\ op.at = d
      /\ op.want \in Wants /\ op.changed \in SUBSET {"model", "agent"} /\ op \in Operations
  BY KeepsUnlessMoved DEF HostTakes, At, Operations
<1>1. (d = "model" => value \in Models) /\ (d = "agent" => value \in Agents)
  BY <1>0 DEF SwitchInv, HalvesPlaced, Has, Wants
<1>2. /\ Combined <=> Has(op.want[1]) /\ Has(op.want[2])
      /\ d = "model" => Has(op.want[1]) /\ op.changed = {}
      /\ d = "agent" => Has(op.want[2]) /\ op.changed = (IF Combined THEN {"model"} ELSE {})
      /\ worker # "turn" /\ op.was = Configured
      /\ op.at \in Applying
  BY <1>0 DEF SwitchInv, HalvesPlaced, HalvesAccepted, KnowsBefore, TurnsUndisturbed, Combined, Kind, Applying
<1>3. bound' \in [turns : 0 .. MaxTurns, verbs : 0 .. MaxVerbs, faults : 0 .. MaxFaults]
  BY KeepsUnlessMoved, FailsSpends DEF HostTakes
<1>4. session \in [model : Models, agent : Agents] /\ torn \in BOOLEAN
  BY KeepsUnlessMoved
<1>5. CASE /\ session' = [session EXCEPT ![d] = IF d \in surface THEN value ELSE @]
           /\ op' = [op EXCEPT !.changed = @ \cup {d}, !.at = IF Combined /\ d = "model" THEN "agent-status" ELSE "persist"]
           /\ UNCHANGED <<torn, bound>>
  <2> DEFINE l == IF Combined /\ d = "model" THEN "agent-status" ELSE "persist"
  <2>1. l \in Places /\ l \in {"agent-status", "persist"} /\ (l = "agent-status" <=> Combined /\ d = "model")
    BY PlaceNames
  <2>2. op' = [op EXCEPT !.changed = op.changed \cup {d}, !.at = l]
    BY <1>5, Zenon
  <2> HIDE DEF l
  <2>3. op.changed \cup {d} \in SUBSET {"model", "agent"}
    BY <1>0
  <2>4. op' \in Operations
    BY <1>0, <2>1, <2>2, <2>3, Zenon DEF Operations
  <2>5. op'.at = l /\ op'.changed = op.changed \cup {d} /\ op'.want = op.want /\ op'.was = op.was
    BY <1>0, <2>2 DEF Operations
  <2>6. session' \in [model : Models, agent : Agents]
    <3>1. CASE d = "model"
      BY <1>1, <1>4, <1>5, <3>1
    <3>2. CASE d = "agent"
      BY <1>1, <1>4, <1>5, <3>2
    <3> QED
      BY <3>1, <3>2
  <2>7. /\ session'[d] = (IF d \in surface THEN value ELSE session[d])
        /\ (d = "model" => session'.agent = session.agent) /\ (d = "agent" => session'.model = session.model)
    BY <1>4, <1>5
  <2>8. HalvesPlaced' /\ HalvesAccepted'
    BY <1>2, <2>1, <2>5 DEF HalvesPlaced, HalvesAccepted, Combined, Kind
  <2>9. KnowsBefore'
    BY <1>0, <1>2, <2>5 DEF KnowsBefore, Configured
  <2>10. op'.at \in Applying
    BY <2>1, <2>5 DEF Applying
  <2>11. SessionFollows'
    <3>1. CASE d = "model"
      BY <1>0, <1>2, <1>5, <2>5, <2>7, <2>10, <3>1 DEF SwitchInv, SessionFollows
    <3>2. CASE d = "agent"
      BY <1>0, <1>2, <1>5, <2>5, <2>7, <2>10, <3>2 DEF SwitchInv, SessionFollows
    <3> QED
      BY <3>1, <3>2
  <2>12. TurnsUndisturbed'
    BY <1>0, <1>2 DEF TurnsUndisturbed
  <2> QED
    BY <1>0, <1>3, <1>4, <1>5, <2>4, <2>6, <2>8, <2>9, <2>10, <2>11, <2>12, WorksOn
<1>6. CASE /\ d \in surface
           /\ UNCHANGED <<session, torn>> \/ (session' = [session EXCEPT ![d] = value] /\ torn' = TRUE)
           /\ Finish(IF Combined THEN "rollback" ELSE Thrown)
  <2>1. session' \in [model : Models, agent : Agents]
    <3>1. CASE d = "model"
      BY <1>1, <1>4, <1>6, <3>1
    <3>2. CASE d = "agent"
      BY <1>1, <1>4, <1>6, <3>2
    <3> QED
      BY <3>1, <3>2
  <2>2. torn' \in BOOLEAN /\ (~torn' => ~torn /\ session' = session)
    <3>1. CASE UNCHANGED <<session, torn>>
      BY <1>4, <3>1, Zenon
    <3>2. CASE torn' = TRUE
      BY <3>2
    <3> QED
      BY <1>6, <3>1, <3>2
  <2>3. CASE Combined
    <3>1. Moves("rollback")
      BY <1>0, <1>6, <2>3, GotoMoves, PlaceNames, Finishes DEF Renewing
    <3>2. HalvesPlaced' /\ HalvesAccepted' /\ KnowsBefore'
      BY <1>0, <1>2, <3>1 DEF Moves, Carries, HalvesPlaced, HalvesAccepted, KnowsBefore, Configured
    <3>3. SessionFollows' /\ TurnsUndisturbed'
      BY <1>0, <1>2, <2>2, <3>1 DEF SwitchInv, Moves, Carries, SessionFollows, TurnsUndisturbed, Applying
    <3>4. op' \in Operations /\ op'.at \in Applying
      BY <3>1 DEF Moves, Applying
    <3> QED
      BY <1>0, <1>3, <2>1, <2>2, <3>2, <3>3, <3>4, WorksOn
  <2>4. CASE ~Combined
    <3>1. Thrown \in Places /\ Thrown \in {"rest", "failed"}
      BY PlaceNames DEF Thrown
    <3>2. op' \in Operations /\ op'.at \in {"rest", "failed"}
      BY <1>0, <1>6, <2>4, <3>1, RestTyped, Finishes DEF Moves, Renewing
    <3>3. op.changed = {}
      BY <1>2, <2>4
    <3>4. HalvesPlaced' /\ HalvesAccepted' /\ KnowsBefore' /\ NotesWhatItRead'
      BY <3>2 DEF HalvesPlaced, HalvesAccepted, KnowsBefore, NotesWhatItRead, Asked, Applying
    <3>5. SessionFollows' /\ TurnsUndisturbed'
      BY <1>0, <1>2, <2>2, <3>2, <3>3 DEF SwitchInv, SessionFollows, TurnsUndisturbed, Applying
    <3>6. QuotaAlone' /\ PreparedOnce'
      BY <1>0 DEF SwitchInv, QuotaAlone, PreparedOnce
    <3>7. TypeOK'
      BY <1>0, <1>3, <2>1, <2>2, <3>2 DEF SwitchInv, TypeOK
    <3> QED
      BY <3>4, <3>5, <3>6, <3>7 DEF SwitchInv
  <2> QED
    BY <2>3, <2>4
<1> QED
  BY <1>5, <1>6 DEF HostTakes
-----------------------------------------------------------------------------
\* What is deferred stays well formed, and never both the owner's and a limit's.
LEMMA DeferredTyped ==
    ASSUME SwitchInv
    PROVE  /\ deferred.model \in Models \cup {None} /\ deferred.agent \in Agents \cup {None} /\ deferred.why \in {"none", "owner", "quota"}
           /\ deferred.both \in (Models \X Agents) \cup {<<None, None>>}
           /\ \A m \in Models \cup {None}, why \in {"none", "owner", "quota"} :
                 LET d == [deferred EXCEPT !.model = m, !.why = why] IN d \in Deferrals /\ d.both = deferred.both /\ d.why = why
           /\ \A a \in Agents \cup {None} :
                 LET d == [deferred EXCEPT !.agent = a] IN d \in Deferrals /\ d.both = deferred.both /\ d.why = deferred.why
           /\ LET d == [deferred EXCEPT !.both = <<None, None>>] IN d \in Deferrals /\ d.both = <<None, None>>
           /\ \A w \in Models \X Agents :
                 LET d == [Nothing EXCEPT !.both = w] IN d \in Deferrals /\ d.why = "none"
           /\ deferred.why = "quota" => deferred.both = <<None, None>>
<1>1. deferred \in Deferrals
  BY KeepsUnlessMoved
<1>2. deferred.why = "quota" => deferred.both = <<None, None>>
  BY DEF SwitchInv, QuotaAlone
<1>3. /\ deferred.model \in Models \cup {None} /\ deferred.agent \in Agents \cup {None} /\ deferred.why \in {"none", "owner", "quota"}
      /\ deferred.both \in (Models \X Agents) \cup {<<None, None>>}
  BY <1>1 DEF Deferrals
<1>4. ASSUME NEW m \in Models \cup {None}, NEW why \in {"none", "owner", "quota"}
      PROVE  LET d == [deferred EXCEPT !.model = m, !.why = why] IN d \in Deferrals /\ d.both = deferred.both /\ d.why = why
  BY <1>1 DEF Deferrals
<1>5. ASSUME NEW a \in Agents \cup {None}
      PROVE  LET d == [deferred EXCEPT !.agent = a] IN d \in Deferrals /\ d.both = deferred.both /\ d.why = deferred.why
  BY <1>1 DEF Deferrals
<1>6. LET d == [deferred EXCEPT !.both = <<None, None>>] IN d \in Deferrals /\ d.both = <<None, None>>
  BY <1>1 DEF Deferrals
<1>7. ASSUME NEW w \in Models \X Agents
      PROVE  LET d == [Nothing EXCEPT !.both = w] IN d \in Deferrals /\ d.why = "none"
  BY DEF Deferrals, Nothing
<1> QED
  BY <1>2, <1>3, <1>4, <1>5, <1>6, <1>7

LEMMA WantTyped ==
    ASSUME SwitchInv
    PROVE  /\ op.want[1] \in Models \cup {None} /\ op.want[2] \in Agents \cup {None} /\ op.want = <<op.want[1], op.want[2]>>
           /\ Kind(op.want) = "both" => op.want \in Models \X Agents
           /\ Kind(op.want) = "model" => op.want[1] \in Models /\ ~Has(op.want[2])
           /\ Kind(op.want) = "agent" => ~Has(op.want[1])
<1>1. op.want \in Wants
  BY KeepsUnlessMoved DEF Operations
<1>2. op.want[1] \in Models \cup {None} /\ op.want[2] \in Agents \cup {None} /\ op.want = <<op.want[1], op.want[2]>>
  BY <1>1 DEF Wants
<1>3. Kind(op.want) = "both" => Has(op.want[1]) /\ Has(op.want[2])
  BY DEF Kind
<1>4. Kind(op.want) = "model" => Has(op.want[1]) /\ ~Has(op.want[2])
  BY DEF Kind
<1>5. Kind(op.want) = "agent" => ~Has(op.want[1])
  BY DEF Kind
<1> QED
  BY <1>2, <1>3, <1>4, <1>5 DEF Has

LEMMA DeferringKeeps ==
    ASSUME SwitchInv, NEW kind, NEW d \in Deferrals, Deferring(kind, d), d.why = "quota" => d.both = <<None, None>>
    PROVE  SwitchInv'
<1>1. /\ op.at = "defer" /\ deferred' = d
      /\ UNCHANGED <<goal, tried, lease, session, surface, worker, limits, torn, prepared, bound>>
  BY DEF Deferring, At
<1>2. op \in Operations /\ op.at \notin Applying
  BY <1>1, KeepsUnlessMoved DEF Applying
<1>3. CASE op.for = "owner" /\ Finish("rest")
  <2>1. op' = Rest
    BY <1>2, <1>3, Finishes, PlaceNames DEF Renewing
  <2> QED
    BY <1>1, <1>2, <2>1, RestTyped, KeepsUnlessMoved, GoesOn DEF Quiet, Turning
<1>4. CASE op.for # "owner" /\ Finish("turn-model")
  <2>1. Renews("turn-model")
    BY <1>2, <1>4, Finishes, PlaceNames DEF Renewing
  <2>2. worker # "turn"
    BY <1>1, <1>4 DEF SwitchInv, TurnsUndisturbed, Asked
  <2> QED
    BY <1>1, <1>2, <2>1, <2>2, KeepsUnlessMoved, GoesOn DEF Quiet, Renews
<1> QED
  BY <1>3, <1>4 DEF Deferring

LEMMA DefersKeep == ASSUME SwitchInv, DeferModel \/ DeferAgent \/ DeferIdentity PROVE SwitchInv'
<1>1. CASE DeferModel
  <2>1. Kind(op.want) = "model"
    BY <1>1 DEF DeferModel, Deferring
  <2> DEFINE d == [deferred EXCEPT !.model = op.want[1], !.why = "owner"]
  <2>2. d \in Deferrals /\ d.why = "owner"
    BY <2>1, WantTyped, DeferredTyped
  <2>3. Deferring("model", d)
    BY <1>1 DEF DeferModel
  <2> HIDE DEF d
  <2> QED
    BY <2>2, <2>3, DeferringKeeps
<1>2. CASE DeferAgent
  <2> DEFINE d == [deferred EXCEPT !.agent = op.want[2]]
  <2>2. d \in Deferrals /\ d.why = deferred.why /\ d.both = deferred.both
    BY WantTyped, DeferredTyped
  <2>3. Deferring("agent", d)
    BY <1>2 DEF DeferAgent
  <2> HIDE DEF d
  <2> QED
    BY <2>2, <2>3, DeferringKeeps, DeferredTyped
<1>3. CASE DeferIdentity
  <2>1. Kind(op.want) = "both"
    BY <1>3 DEF DeferIdentity, Deferring
  <2> DEFINE d == [Nothing EXCEPT !.both = op.want]
  <2>2. d \in Deferrals /\ d.why = "none"
    BY <2>1, WantTyped, DeferredTyped
  <2>3. Deferring("both", d)
    BY <1>3 DEF DeferIdentity
  <2> HIDE DEF d
  <2> QED
    BY <2>2, <2>3, DeferringKeeps
<1> QED
  BY <1>1, <1>2, <1>3

\* A switch is saved with what the host accepted, or rolled back.
LEMMA SavingKeeps ==
    ASSUME SwitchInv, NEW kind, NEW g \in Goals, NEW d \in Deferrals, Saving(kind, g, d), d.why = "quota" => d.both = <<None, None>>,
           g.model = (IF Has(op.want[1]) THEN op.want[1] ELSE goal.model),
           g.agent = (IF Has(op.want[2]) THEN op.want[2] ELSE goal.agent)
    PROVE  SwitchInv'
<1>1. op.at = "persist" /\ UNCHANGED <<tried, lease, session, surface, worker, limits, torn, prepared>>
  BY DEF Saving, At
<1>2. op \in Operations /\ worker # "turn" /\ op.at \in Applying
  BY <1>1, KeepsUnlessMoved DEF SwitchInv, TurnsUndisturbed, Applying
<1>3. bound' \in [turns : 0 .. MaxTurns, verbs : 0 .. MaxVerbs, faults : 0 .. MaxFaults]
  BY KeepsUnlessMoved, FailsSpends DEF Saving
<1>4. CASE goal' = g /\ deferred' = d /\ Finish(Done)
  <2>1. Done \in {"resume", "rest", "turn-model", "turn-agent", "acquire"}
    BY DEF Done
  <2>2. op' \in Operations /\ op'.at \in {"resume", "rest", "turn-model", "turn-agent", "acquire"}
    BY <1>2, <1>4, <2>1, Finishes, PlaceNames, RestTyped DEF Moves, Renews
  <2>3. op'.at \notin Asked \cup Applying \cup {"note"}
    BY <2>2 DEF Asked, Applying
  <2>4. HalvesPlaced' /\ HalvesAccepted' /\ KnowsBefore' /\ NotesWhatItRead'
    BY <2>3 DEF HalvesPlaced, HalvesAccepted, KnowsBefore, NotesWhatItRead, Asked, Applying
  <2>5. SessionFollows'
    BY <1>1, <1>2, <1>4, <2>3 DEF SwitchInv, SessionFollows, HalvesAccepted
  <2>6. TurnsUndisturbed' /\ QuotaAlone' /\ PreparedOnce'
    BY <1>1, <1>2, <1>4 DEF SwitchInv, TurnsUndisturbed, QuotaAlone, PreparedOnce
  <2>7. TypeOK'
    BY <1>1, <1>3, <1>4, <2>2 DEF SwitchInv, TypeOK
  <2> QED
    BY <2>4, <2>5, <2>6, <2>7 DEF SwitchInv
<1>5. CASE Goto("rollback") /\ UNCHANGED <<goal, deferred>>
  <2>1. Moves("rollback")
    BY <1>2, <1>5, GotoMoves, PlaceNames
  <2>2. HalvesPlaced' /\ HalvesAccepted' /\ KnowsBefore'
    BY <1>1, <1>2, <1>5, <2>1 DEF SwitchInv, Moves, Carries, HalvesPlaced, HalvesAccepted, KnowsBefore, Configured
  <2>3. SessionFollows' /\ TurnsUndisturbed'
    BY <1>1, <1>2, <1>5, <2>1 DEF SwitchInv, Moves, Carries, SessionFollows, TurnsUndisturbed, Applying
  <2>4. op' \in Operations /\ op'.at \in Applying
    BY <2>1 DEF Moves, Applying
  <2> QED
    BY <1>1, <1>3, <1>5, <2>2, <2>3, <2>4, KeepsUnlessMoved, WorksOn
<1> QED
  BY <1>4, <1>5 DEF Saving

LEMMA SavesKeep == ASSUME SwitchInv, SaveModel \/ SaveAgent \/ SaveIdentity PROVE SwitchInv'
<1>0. goal \in Goals /\ goal.model \in Models /\ goal.agent \in Agents
  BY KeepsUnlessMoved DEF Goals
<1>1. CASE SaveModel
  <2>1. Kind(op.want) = "model"
    BY <1>1 DEF SaveModel, Saving
  <2> DEFINE g == [goal EXCEPT !.model = op.want[1]]
             d == [deferred EXCEPT !.model = None, !.why = "none"]
  <2>2. d \in Deferrals /\ d.why = "none"
    BY DeferredTyped
  <2>3. op.want[1] \in Models /\ Has(op.want[1]) /\ ~Has(op.want[2])
    BY <2>1, WantTyped, NoneAssumption DEF Has
  <2>4. g \in Goals /\ g.model = op.want[1] /\ g.agent = goal.agent
    BY <1>0, <2>3 DEF Goals
  <2>5. Saving("model", g, d)
    BY <1>1 DEF SaveModel
  <2> HIDE DEF g, d
  <2> QED
    BY <2>2, <2>3, <2>4, <2>5, SavingKeeps
<1>2. CASE SaveAgent
  <2>1. Kind(op.want) = "agent" /\ op.at = "persist"
    BY <1>2 DEF SaveAgent, Saving, At
  <2> DEFINE g == [goal EXCEPT !.agent = op.want[2]]
             d == [deferred EXCEPT !.agent = None]
  <2>2. d \in Deferrals /\ d.why = deferred.why /\ d.both = deferred.both /\ (deferred.why = "quota" => deferred.both = <<None, None>>)
    BY DeferredTyped
  <2>3. ~Has(op.want[1]) /\ Has(op.want[2]) /\ op.want[2] \in Agents
    BY <2>1, WantTyped DEF SwitchInv, HalvesPlaced, Applying, Has
  <2>4. g \in Goals /\ g.agent = op.want[2] /\ g.model = goal.model
    BY <1>0, <2>3 DEF Goals
  <2>5. Saving("agent", g, d)
    BY <1>2 DEF SaveAgent
  <2> HIDE DEF g, d
  <2> QED
    BY <2>2, <2>3, <2>4, <2>5, SavingKeeps
<1>3. CASE SaveIdentity
  <2>1. Kind(op.want) = "both"
    BY <1>3 DEF SaveIdentity, Saving
  <2> DEFINE g == [goal EXCEPT !.model = op.want[1], !.agent = op.want[2]]
  <2>3. op.want[1] \in Models /\ op.want[2] \in Agents /\ Has(op.want[1]) /\ Has(op.want[2])
    BY <2>1, WantTyped, NoneAssumption DEF Has
  <2>4. g \in Goals /\ g.agent = op.want[2] /\ g.model = op.want[1]
    BY <1>0, <2>3 DEF Goals
  <2>5. Saving("both", g, Nothing)
    BY <1>3 DEF SaveIdentity
  <2> HIDE DEF g
  <2> QED
    BY <2>3, <2>4, <2>5, NothingTyped, SavingKeeps
<1> QED
  BY <1>1, <1>2, <1>3

\* The halves the host accepted go back to what the goal has.
LEMMA RollbackKeeps == ASSUME SwitchInv, Rollback PROVE SwitchInv'
<1>1. op.at = "rollback" /\ UNCHANGED <<goal, deferred, tried, lease, surface, worker, limits, prepared>> /\ Finish(Thrown)
  BY DEF Rollback, At
<1>2. op \in Operations /\ worker # "turn" /\ op.at \in Applying
  BY <1>1, KeepsUnlessMoved DEF SwitchInv, TurnsUndisturbed, Applying
<1>3. op.was[1] = goal.model /\ op.was[2] = goal.agent
  BY <1>2 DEF SwitchInv, KnowsBefore, Configured
<1>4. bound' \in [turns : 0 .. MaxTurns, verbs : 0 .. MaxVerbs, faults : 0 .. MaxFaults]
  BY KeepsUnlessMoved, FailsSpends DEF Rollback
<1>5. Thrown \in {"rest", "failed"}
  BY DEF Thrown
<1>6. op' \in Operations /\ op'.at \in {"rest", "failed"}
  BY <1>1, <1>2, <1>5, PlaceNames, Finishes, RestTyped DEF Moves, Renewing
<1>7. HalvesPlaced' /\ HalvesAccepted' /\ KnowsBefore' /\ NotesWhatItRead'
  BY <1>6 DEF HalvesPlaced, HalvesAccepted, KnowsBefore, NotesWhatItRead, Asked, Applying
<1>8. TurnsUndisturbed' /\ QuotaAlone' /\ PreparedOnce'
  BY <1>1, <1>2 DEF SwitchInv, TurnsUndisturbed, QuotaAlone, PreparedOnce
<1>9. session \in [model : Models, agent : Agents] /\ goal.model \in Models /\ goal.agent \in Agents /\ torn \in BOOLEAN
  BY KeepsUnlessMoved DEF Goals
<1>10. session' \in [model : Models, agent : Agents] /\ torn' \in BOOLEAN /\ SessionFollows'
  <2>1. CASE /\ session' = [d \in {"model", "agent"} |->
                              IF d \in op.changed \cap surface THEN op.was[IF d = "model" THEN 1 ELSE 2] ELSE session[d]]
             /\ UNCHANGED <<torn, bound>>
    <3>1. /\ session'.model = (IF "model" \in op.changed \cap surface THEN goal.model ELSE session.model)
          /\ session'.agent = (IF "agent" \in op.changed \cap surface THEN goal.agent ELSE session.agent)
          /\ DOMAIN session' = {"model", "agent"} /\ session' = [d \in {"model", "agent"} |-> session'[d]]
      BY <1>3, <2>1
    <3>2. session' \in [model : Models, agent : Agents]
      BY <1>9, <3>1
    <3>3. SessionFollows'
      BY <1>1, <1>6, <2>1, <3>1 DEF SwitchInv, SessionFollows, Applying
    <3> QED
      BY <1>9, <2>1, <3>2, <3>3, Zenon
  <2>2. CASE torn' = TRUE /\ UNCHANGED session
    BY <1>9, <2>2 DEF SessionFollows
  <2> QED
    BY <2>1, <2>2 DEF Rollback
<1>11. TypeOK'
  BY <1>1, <1>4, <1>6, <1>10 DEF SwitchInv, TypeOK
<1> QED
  BY <1>7, <1>8, <1>10, <1>11 DEF SwitchInv
-----------------------------------------------------------------------------
\* A new operation of the goal, at one of its quiet places.
LEMMA BeginsAt ==
    ASSUME NEW l \in Places, NEW f \in {"owner", "prompt", "compact"}, NEW p \in Models \cup {None},
           op' = [Rest EXCEPT !.at = l, !.for = f] \/ op' = [Rest EXCEPT !.at = l, !.pick = p]
    PROVE  op' \in Operations /\ op'.at = l
<1>1. CASE op' = [Rest EXCEPT !.at = l, !.for = f]
  <2>1. op' \in Operations
    BY <1>1, RestTyped, Zenon DEF Operations
  <2> QED
    BY <1>1, <2>1, RestTyped DEF Operations
<1>2. CASE op' = [Rest EXCEPT !.at = l, !.pick = p]
  <2>1. op' \in Operations
    BY <1>2, RestTyped, Zenon DEF Operations
  <2> QED
    BY <1>2, <2>1, RestTyped DEF Operations
<1> QED
  BY <1>1, <1>2

LEMMA ResumesKeep == ASSUME SwitchInv, ResumeModel \/ ResumeAgent \/ ResumeIdentity PROVE SwitchInv'
<1>1. PICK kind, may : Resuming(kind, may)
  BY DEF ResumeModel, ResumeAgent, ResumeIdentity
<1>2. op.at = "resume" /\ UNCHANGED <<deferred, tried, lease, session, surface, worker, limits, torn, prepared, bound>>
  BY <1>1 DEF Resuming, At
<1>3. op' \in Operations /\ op'.at = "continue"
  BY <1>1, BeginsAt, PlaceNames DEF Resuming
<1>4. goal' \in Goals /\ goal'.model = goal.model /\ goal'.agent = goal.agent
  <2>1. CASE goal' = [goal EXCEPT !.st = "active", !.limit = FALSE]
    BY <2>1, StatusTyped
  <2>2. CASE goal' = goal
    BY <2>2, KeepsUnlessMoved
  <2> QED
    BY <1>1, <2>1, <2>2 DEF Resuming
<1> QED
  BY <1>2, <1>3, <1>4, KeepsUnlessMoved, DeferredTyped, GoesOn DEF Quiet, Turning, Applying

LEMMA ContinueKeeps == ASSUME SwitchInv, Continue PROVE SwitchInv'
<1>1. op.at = "rest" /\ UNCHANGED <<goal, deferred, tried, lease, session, surface, worker, limits, torn, prepared, bound>>
  BY DEF Continue, At
<1>2. op' \in Operations /\ op'.at = "continue"
  BY BeginsAt, PlaceNames DEF Continue
<1> QED
  BY <1>1, <1>2, KeepsUnlessMoved, DeferredTyped, GoesOn DEF Quiet, Turning, Applying

LEMMA BeginTurnKeeps == ASSUME SwitchInv, BeginTurn PROVE SwitchInv'
<1>1. op.at = "continue" /\ UNCHANGED <<goal, deferred, tried, lease, session, surface, worker, limits, torn, prepared, bound>>
  BY DEF BeginTurn, At
<1>2. op \in Operations /\ deferred \in Deferrals
  BY KeepsUnlessMoved
<1>3. op' \in Operations /\ op'.at \in {"rest", "turn-both"} /\ (op'.at = "turn-both" => worker = "idle")
  <2>1. CASE worker = "idle" /\ op' = [op EXCEPT !.at = "turn-both", !.snap = deferred]
    <3>1. op' \in Operations
      BY <1>2, <2>1, PlaceNames, Zenon DEF Operations
    <3> QED
      BY <1>2, <2>1, <3>1 DEF Operations
  <2>2. CASE Finish("rest")
    BY <1>2, <2>2, Finishes, PlaceNames, RestTyped DEF Renewing
  <2> QED
    BY <2>1, <2>2 DEF BeginTurn
<1> QED
  BY <1>1, <1>3, KeepsUnlessMoved, DeferredTyped, GoesOn DEF Quiet, Turning, Applying

LEMMA ApplyKeeps ==
    ASSUME SwitchInv, NEW want \in Wants, NEW d \in {"turn-both", "turn-model", "turn-agent"}, NEW next \in {"turn-model", "turn-agent", "acquire"},
           NEW where \in {"status", "model", "agent"}, Apply(d, want, next, where),
           where = "status" => want = <<None, None>> \/ want \in Models \X Agents,
           where = "model" => want[2] = None, where = "agent" => want[1] = None
    PROVE  SwitchInv'
<1>1. op.at = d /\ UNCHANGED <<goal, deferred, tried, lease, session, surface, worker, limits, torn, prepared>>
  BY DEF Apply, At
<1>2. op \in Operations /\ worker # "turn" /\ op.at \notin Applying
  BY <1>1, KeepsUnlessMoved DEF SwitchInv, TurnsUndisturbed, Turning, Applying
<1>3. bound' \in [turns : 0 .. MaxTurns, verbs : 0 .. MaxVerbs, faults : 0 .. MaxFaults]
  BY KeepsUnlessMoved, FailsSpends DEF Apply
<1>4. CASE Finish(next)
  <2>1. Renews(next)
    BY <1>2, <1>4, Finishes, PlaceNames DEF Renewing
  <2>2. op' \in Operations /\ op'.at \in Quiet
    BY <2>1 DEF Renews, Quiet
  <2> QED
    BY <1>1, <1>2, <1>3, <2>2, KeepsUnlessMoved, DeferredTyped, GoesOn
<1>5. CASE op' = [op EXCEPT !.at = "failed", !.want = want]
  <2>1. op' \in Operations
    BY <1>2, <1>5, PlaceNames, Zenon DEF Operations
  <2>2. op'.at = "failed"
    BY <1>2, <1>5 DEF Operations
  <2> QED
    BY <1>1, <1>2, <1>3, <2>1, <2>2, KeepsUnlessMoved, DeferredTyped, GoesOn DEF Quiet
<1>6. CASE want # <<None, None>> /\ op' = [op EXCEPT !.at = where, !.want = want, !.lease = lease, !.changed = {}, !.was = Configured]
  <2>1. Configured \in Wants /\ lease \in BOOLEAN /\ where \in Places
    BY KeepsUnlessMoved, PlaceNames DEF Configured, Wants, Goals
  <2>2. op' \in Operations
    BY <1>2, <1>6, <2>1, Zenon DEF Operations
  <2>3. op'.at = where /\ op'.want = want /\ op'.changed = {} /\ op'.was = Configured
    BY <1>2, <1>6 DEF Operations
  <2>4. want[1] \in Models \cup {None} /\ want[2] \in Agents \cup {None} /\ want = <<want[1], want[2]>>
    BY DEF Wants
  <2>5. Has(want[1]) \/ Has(want[2])
    BY <1>6, <2>4 DEF Has
  <2>6. where \in Asked \cup Applying /\ (where = "status" \/ where \in Applying)
    BY DEF Asked, Applying
  <2>7. HalvesPlaced'
    BY <2>3, <2>5 DEF HalvesPlaced, Has
  <2>8. ~Combined' \/ where = "status"
    BY <2>3 DEF Combined, Kind, Has
  <2>9. HalvesAccepted'
    BY <2>3, <2>8 DEF HalvesAccepted
  <2>10. KnowsBefore'
    BY <1>1, <2>3 DEF KnowsBefore, Configured
  <2>11. SessionFollows' /\ TurnsUndisturbed'
    BY <1>1, <1>2, <2>3 DEF SwitchInv, SessionFollows, TurnsUndisturbed
  <2> QED
    BY <1>1, <1>3, <2>2, <2>3, <2>6, <2>7, <2>9, <2>10, <2>11, KeepsUnlessMoved, WorksOn
<1> QED
  BY <1>4, <1>5, <1>6 DEF Apply

LEMMA AppliesKeep == ASSUME SwitchInv, applyPendingIdentity \/ applyPendingModel \/ applyPendingAgent PROVE SwitchInv'
<1>1. op.snap \in Deferrals
  BY KeepsUnlessMoved DEF Operations
<1>2. op.snap.model \in Models \cup {None} /\ op.snap.agent \in Agents \cup {None} /\ op.snap.both \in (Models \X Agents) \cup {<<None, None>>}
  BY <1>1 DEF Deferrals
<1>3. op.snap.both \in Wants /\ <<op.snap.model, None>> \in Wants /\ <<None, op.snap.agent>> \in Wants
  BY <1>2 DEF Wants
<1>4. CASE applyPendingIdentity
  BY <1>2, <1>3, <1>4, ApplyKeeps DEF applyPendingIdentity
<1>5. CASE applyPendingModel
  BY <1>3, <1>5, ApplyKeeps DEF applyPendingModel
<1>6. CASE applyPendingAgent
  BY <1>3, <1>6, ApplyKeeps DEF applyPendingAgent
<1> QED
  BY <1>4, <1>5, <1>6

LEMMA FailedKeeps == ASSUME SwitchInv, ModelFailed \/ AgentFailed \/ IdentityFailed PROVE SwitchInv'
<1>1. PICK kind \in {"model", "agent", "both"}, d \in Deferrals : SwitchFailed(kind, d) /\ (d.why = "quota" => d.both = <<None, None>>)
  <2>1. CASE ModelFailed
    <3> DEFINE d == [deferred EXCEPT !.model = None, !.why = "none"]
    <3>1. d \in Deferrals /\ (d.why = "quota" => d.both = <<None, None>>)
      BY DeferredTyped
    <3>2. SwitchFailed("model", d)
      BY <2>1 DEF ModelFailed
    <3> HIDE DEF d
    <3> QED
      BY <3>1, <3>2
  <2>2. CASE AgentFailed
    <3> DEFINE d == [deferred EXCEPT !.agent = None]
    <3>1. d \in Deferrals /\ (d.why = "quota" => d.both = <<None, None>>)
      BY DeferredTyped
    <3>2. SwitchFailed("agent", d)
      BY <2>2 DEF AgentFailed
    <3> HIDE DEF d
    <3> QED
      BY <3>1, <3>2
  <2>3. CASE IdentityFailed
    <3> DEFINE d == [deferred EXCEPT !.both = <<None, None>>]
    <3>1. d \in Deferrals /\ (d.why = "quota" => d.both = <<None, None>>)
      BY DeferredTyped
    <3>2. SwitchFailed("both", d)
      BY <2>3 DEF IdentityFailed
    <3> HIDE DEF d
    <3> QED
      BY <3>1, <3>2
  <2> QED
    BY <2>1, <2>2, <2>3
<1>2. op.at = "failed" /\ deferred' = d /\ lease' = FALSE /\ UNCHANGED <<tried, session, surface, worker, limits, torn, prepared, bound>>
  BY <1>1 DEF SwitchFailed, At
<1>3. op' = Rest
  BY <1>1, KeepsUnlessMoved, Finishes, PlaceNames DEF SwitchFailed, Renewing
<1>4. goal' \in Goals /\ goal'.model = goal.model /\ goal'.agent = goal.agent
  <2>1. CASE goal' = [goal EXCEPT !.st = "blocked", !.limit = FALSE]
    BY <2>1, StatusTyped
  <2>2. CASE goal' = goal
    BY <2>2, KeepsUnlessMoved
  <2> QED
    BY <1>1, <2>1, <2>2 DEF SwitchFailed
<1> QED
  BY <1>1, <1>2, <1>3, <1>4, RestTyped, KeepsUnlessMoved, GoesOn DEF Quiet, Turning, Applying

LEMMA AcquireKeeps == ASSUME SwitchInv, Acquire PROVE SwitchInv'
<1>1. op.at = "acquire" /\ UNCHANGED <<goal, deferred, tried, session, surface, worker, limits, torn, prepared, bound>>
  BY DEF Acquire, At
<1>2. worker # "turn" /\ op \in Operations
  BY <1>1, KeepsUnlessMoved DEF SwitchInv, TurnsUndisturbed, Turning
<1>3. op' \in Operations /\ op'.at \in {"rest", "prompt"} /\ lease' \in BOOLEAN
  <2>1. CASE lease' = TRUE /\ Goto("prompt")
    BY <1>2, <2>1, GotoMoves, PlaceNames DEF Moves
  <2>2. CASE Finish("rest") /\ UNCHANGED lease
    BY <1>2, <2>2, Finishes, PlaceNames, RestTyped, KeepsUnlessMoved DEF Renewing
  <2> QED
    BY <2>1, <2>2 DEF Acquire
<1> QED
  BY <1>1, <1>2, <1>3, KeepsUnlessMoved, DeferredTyped, GoesOn DEF Quiet, Applying

\* The prompt brings the configured identity along.
LEMMA PromptKeeps == ASSUME SwitchInv, PromptWorker PROVE SwitchInv'
<1>1. op.at = "prompt" /\ UNCHANGED <<deferred, tried, surface, limits, prepared>>
  BY DEF PromptWorker, At
<1>2. worker # "turn" /\ op \in Operations /\ goal \in Goals /\ goal.model \in Models /\ goal.agent \in Agents
      /\ goal.st \in {"active", "paused", "blocked", "complete"}
  BY <1>1, KeepsUnlessMoved DEF SwitchInv, TurnsUndisturbed, Turning, Goals
<1>3. bound' \in [turns : 0 .. MaxTurns, verbs : 0 .. MaxVerbs, faults : 0 .. MaxFaults]
  BY KeepsUnlessMoved, VerbSpends, FailsSpends DEF PromptWorker
<1>4. CASE /\ session' = [model |-> goal.model, agent |-> goal.agent] /\ torn' = FALSE
           /\ worker' = (IF worker = "idle" THEN "turn" ELSE worker)
           /\ Finish("rest") /\ UNCHANGED <<goal, lease>>
  <2>1. op' = Rest
    BY <1>2, <1>4, Finishes, PlaceNames DEF Renewing
  <2>2. session' \in [model : Models, agent : Agents] /\ session'.model = goal.model /\ session'.agent = goal.agent
    BY <1>2, <1>4
  <2>3. TypeOK'
    BY <1>1, <1>3, <1>4, <2>1, <2>2, RestTyped DEF SwitchInv, TypeOK
  <2>4. HalvesPlaced' /\ HalvesAccepted' /\ KnowsBefore' /\ NotesWhatItRead'
    BY <2>1, RestTyped DEF HalvesPlaced, HalvesAccepted, KnowsBefore, NotesWhatItRead, Asked, Applying
  <2>5. SessionFollows' /\ TurnsUndisturbed'
    BY <1>4, <2>1, <2>2, RestTyped DEF SessionFollows, TurnsUndisturbed, Asked, Applying, Turning
  <2>6. QuotaAlone' /\ PreparedOnce'
    BY <1>1 DEF SwitchInv, QuotaAlone, PreparedOnce
  <2> QED
    BY <2>3, <2>4, <2>5, <2>6 DEF SwitchInv
<1>5. CASE /\ lease' = FALSE
           /\ \E st \in {goal.st, "blocked"} : goal' = [goal EXCEPT !.st = st, !.limit = FALSE]
           /\ op' = [Rest EXCEPT !.at = "limit", !.pick = goal.model]
           /\ UNCHANGED <<session, torn, worker>>
  <2>1. goal' \in Goals /\ goal'.model = goal.model /\ goal'.agent = goal.agent
    BY <1>2, <1>5, StatusTyped
  <2>2. op' \in Operations /\ op'.at = "limit"
    BY <1>2, <1>5, BeginsAt, PlaceNames
  <2> QED
    BY <1>1, <1>2, <1>3, <1>5, <2>1, <2>2, KeepsUnlessMoved, DeferredTyped, GoesOn DEF Quiet, Applying
<1> QED
  BY <1>4, <1>5 DEF PromptWorker

LEMMA NoteLimitKeeps == ASSUME SwitchInv, NEW m \in Models, NoteLimit(m) PROVE SwitchInv'
<1>1. /\ op.at = "rest" /\ limits' = limits \ {m}
      /\ UNCHANGED <<goal, deferred, tried, lease, session, surface, worker, torn, prepared, bound>>
  BY DEF NoteLimit, At
<1>2. op' \in Operations /\ op'.at = "limit"
  BY BeginsAt, PlaceNames DEF NoteLimit
<1>3. TypeOK'
  BY <1>1, <1>2 DEF SwitchInv, TypeOK
<1>4. HalvesPlaced' /\ HalvesAccepted' /\ KnowsBefore' /\ NotesWhatItRead'
  BY <1>2 DEF HalvesPlaced, HalvesAccepted, KnowsBefore, NotesWhatItRead, Asked, Applying
<1>5. SessionFollows' /\ TurnsUndisturbed' /\ QuotaAlone' /\ PreparedOnce'
  BY <1>1, <1>2 DEF SwitchInv, SessionFollows, TurnsUndisturbed, QuotaAlone, PreparedOnce, Asked, Applying, Turning
<1> QED
  BY <1>3, <1>4, <1>5 DEF SwitchInv

\* A fallback is chosen from what nobody but this operation can change.
LEMMA ReadLimitKeeps == ASSUME SwitchInv, ReadLimit PROVE SwitchInv'
<1>1. op.at = "limit" /\ UNCHANGED <<goal, deferred, tried, lease, session, surface, worker, limits, torn, prepared, bound>>
  BY DEF ReadLimit, At
<1>2. op \in Operations /\ deferred \in Deferrals /\ tried \subseteq Models
  BY KeepsUnlessMoved DEF SwitchInv, TypeOK
<1>3. CASE Eligible(op.pick) /\ \E f \in Choose(op.pick) : op' = [op EXCEPT !.at = "note", !.pick = f, !.snap = deferred]
  <2>1. PICK f \in Choose(op.pick) : op' = [op EXCEPT !.at = "note", !.pick = f, !.snap = deferred]
    BY <1>3
  <2>2. f \in Models \cup {None} /\ (f \notin tried \/ f = deferred.model)
    BY <1>2, FallbacksAssumption, NoneAssumption, DeferredTyped DEF Choose
  <2>3. op' \in Operations
    BY <1>2, <2>1, <2>2, PlaceNames, Zenon DEF Operations
  <2>4. op'.at = "note" /\ op'.pick = f /\ op'.snap = deferred
    BY <1>2, <2>1 DEF Operations
  <2>5. TypeOK'
    BY <1>1, <2>3 DEF SwitchInv, TypeOK
  <2>6. NotesWhatItRead'
    BY <1>1, <1>3, <2>2, <2>4 DEF NotesWhatItRead, Eligible
  <2>7. HalvesPlaced' /\ HalvesAccepted' /\ KnowsBefore'
    BY <2>4 DEF HalvesPlaced, HalvesAccepted, KnowsBefore, Asked, Applying
  <2>8. SessionFollows' /\ TurnsUndisturbed' /\ QuotaAlone' /\ PreparedOnce'
    BY <1>1, <2>4 DEF SwitchInv, SessionFollows, TurnsUndisturbed, QuotaAlone, PreparedOnce, Asked, Applying, Turning
  <2> QED
    BY <2>5, <2>6, <2>7, <2>8 DEF SwitchInv
<1>4. CASE op' = [op EXCEPT !.at = "note-blocker"]
  <2>1. Moves("note-blocker")
    BY <1>2, <1>4, GotoMoves, PlaceNames DEF Goto
  <2> QED
    BY <1>1, <2>1, KeepsUnlessMoved, DeferredTyped, GoesOn DEF Moves, Quiet, Turning, Applying
<1> QED
  BY <1>3, <1>4 DEF ReadLimit

LEMMA StampedTyped == ASSUME SwitchInv, NEW same PROVE Stamped(same) \in Goals /\ Stamped(same).model = goal.model /\ Stamped(same).agent = goal.agent
<1>1. goal \in Goals
  BY KeepsUnlessMoved
<1> QED
  BY <1>1 DEF Stamped, Goals

LEMMA NoteFallbackKeeps == ASSUME SwitchInv, NoteFallback PROVE SwitchInv'
<1>1. op.at = "note" /\ goal' = Stamped(TRUE) /\ UNCHANGED <<lease, session, surface, worker, limits, torn, bound>>
  BY DEF NoteFallback, At
<1>2. op' = Rest
  BY KeepsUnlessMoved, Finishes, PlaceNames DEF NoteFallback, Renewing
<1>3. goal' \in Goals /\ goal'.model = goal.model /\ goal'.agent = goal.agent
  BY <1>1, StampedTyped
<1>4. op.pick \in Models \cup {None} /\ goal.model \in Models /\ tried \subseteq Models /\ prepared \in [Models -> Nat]
  BY KeepsUnlessMoved DEF Operations, Goals, SwitchInv, TypeOK
<1>5. op.snap = deferred /\ deferred.both = <<None, None>> /\ deferred.why # "owner" /\ (op.pick \notin tried \/ op.pick = deferred.model)
  BY <1>1 DEF SwitchInv, NotesWhatItRead
<1>6. tried' \subseteq Models /\ tried \subseteq tried' /\ (op.pick \in Models => op.pick \in tried')
  <2>1. PICK passed \in SUBSET Fallbacks : tried' = tried \cup {goal.model} \cup passed \cup (IF Has(op.pick) THEN {op.pick} ELSE {})
    BY DEF NoteFallback
  <2> QED
    BY <1>4, <2>1, FallbacksAssumption, NoneAssumption DEF Has
<1>7. deferred' \in Deferrals /\ deferred'.both = <<None, None>>
  <2>1. CASE deferred' = [deferred EXCEPT !.model = op.pick, !.why = "quota"]
    BY <1>4, <1>5, <2>1, DeferredTyped
  <2>2. CASE deferred' = deferred
    BY <1>5, <2>2, KeepsUnlessMoved
  <2> QED
    BY <2>1, <2>2 DEF NoteFallback
<1>8. prepared' \in [Models -> Nat] /\ PreparedOnce'
  <2>1. \A m \in Models : prepared'[m] = (IF m = op.pick /\ deferred.model # m THEN prepared[m] + 1 ELSE prepared[m])
    BY <1>5 DEF NoteFallback
  <2>2. prepared' = [m \in Models |-> prepared'[m]]
    BY DEF NoteFallback
  <2>3. \A m \in Models : prepared[m] \in Nat /\ prepared[m] <= 1 /\ (prepared[m] = 1 => m \in tried)
    BY <1>4 DEF SwitchInv, PreparedOnce
  <2>4. \A m \in Models : prepared'[m] \in Nat /\ prepared'[m] <= 1 /\ (prepared'[m] = 1 => m \in tried')
    BY <1>5, <1>6, <2>1, <2>3
  <2> QED
    BY <2>2, <2>4 DEF PreparedOnce
<1>9. TypeOK'
  BY <1>1, <1>2, <1>3, <1>6, <1>7, <1>8, RestTyped DEF SwitchInv, TypeOK
<1>10. HalvesPlaced' /\ HalvesAccepted' /\ KnowsBefore' /\ NotesWhatItRead'
  BY <1>2, RestTyped DEF HalvesPlaced, HalvesAccepted, KnowsBefore, NotesWhatItRead, Asked, Applying
<1>11. SessionFollows' /\ TurnsUndisturbed' /\ QuotaAlone'
  BY <1>1, <1>2, <1>3, <1>7, RestTyped DEF SwitchInv, SessionFollows, TurnsUndisturbed, QuotaAlone, Asked, Applying, Turning
<1> QED
  BY <1>8, <1>9, <1>10, <1>11 DEF SwitchInv

LEMMA NoteBlockerKeeps == ASSUME SwitchInv, NoteBlocker PROVE SwitchInv'
<1>1. op.at = "note-blocker" /\ UNCHANGED <<deferred, tried, lease, session, surface, worker, limits, torn, prepared, bound>>
  BY DEF NoteBlocker, At
<1>2. op' = Rest
  BY KeepsUnlessMoved, Finishes, PlaceNames DEF NoteBlocker, Renewing
<1>3. goal' \in Goals /\ goal'.model = goal.model /\ goal'.agent = goal.agent
  BY StampedTyped DEF NoteBlocker
<1> QED
  BY <1>1, <1>2, <1>3, RestTyped, KeepsUnlessMoved, DeferredTyped, GoesOn DEF Quiet, Turning, Applying

LEMMA VerbKeeps == ASSUME SwitchInv, Verb PROVE SwitchInv'
<1>1. op.at = "rest" /\ UNCHANGED <<deferred, tried, lease, session, surface, worker, limits, torn, prepared>>
  BY DEF Verb, At
<1>2. bound' \in [turns : 0 .. MaxTurns, verbs : 0 .. MaxVerbs, faults : 0 .. MaxFaults]
  BY KeepsUnlessMoved, VerbSpends DEF Verb
<1>3. CASE goal' = [goal EXCEPT !.st = "paused"] /\ UNCHANGED op
  <2>1. goal' \in Goals /\ goal'.model = goal.model /\ goal'.agent = goal.agent
    BY <1>3, KeepsUnlessMoved DEF Goals
  <2> QED
    BY <1>1, <1>2, <1>3, <2>1, KeepsUnlessMoved, Beside
<1>4. CASE /\ goal' = [goal EXCEPT !.st = "active", !.limit = FALSE]
           /\ op' = [Rest EXCEPT !.at = "continue", !.for = "prompt"]
  <2>1. goal' \in Goals /\ goal'.model = goal.model /\ goal'.agent = goal.agent
    BY <1>4, StatusTyped
  <2>2. op' \in Operations /\ op'.at = "continue"
    BY <1>4, BeginsAt, PlaceNames
  <2> QED
    BY <1>1, <1>2, <2>1, <2>2, KeepsUnlessMoved, DeferredTyped, GoesOn DEF Quiet, Turning, Applying
<1> QED
  BY <1>3, <1>4 DEF Verb
-----------------------------------------------------------------------------
LEMMA SwitchStep == SwitchInv /\ [Next]_vars => SwitchInv'
<1> SUFFICES ASSUME SwitchInv, [Next]_vars PROVE SwitchInv'
  OBVIOUS
<1>1. CASE \E m \in Models \cup {None}, a \in Agents \cup {None}, resume \in BOOLEAN : Ask(m, a, resume)
  BY <1>1, AskKeeps
<1>2. CASE Step
  <2>1. CASE HostModel
    BY <2>1, HostKeeps DEF HostModel
  <2>2. CASE HostAgent
    BY <2>2, HostKeeps DEF HostAgent
  <2> QED
    BY <1>2, <2>1, <2>2, FindStatusKeeps, DefersKeep, LookAgainKeeps, SavesKeep, RollbackKeeps, ResumesKeep, BeginTurnKeeps, AppliesKeep,
       FailedKeeps, AcquireKeeps, PromptKeeps, ReadLimitKeeps, NoteFallbackKeeps, NoteBlockerKeeps DEF Step
<1>3. CASE \E m \in Models : NoteLimit(m)
  BY <1>3, NoteLimitKeeps
<1>4. CASE Continue \/ TurnOver \/ CloseTurn \/ ChargeTurn \/ UserTypes \/ Verb \/ Crash
  BY <1>4, ContinueKeeps, TurnOverKeeps, ChargeKeeps, UserTypesKeeps, VerbKeeps, CrashKeeps
<1>5. CASE UNCHANGED vars
  <2>1. UNCHANGED <<goal, deferred, tried, lease, session, surface, worker, limits, op, torn, prepared, bound>>
    BY <1>5 DEF vars
  <2> QED
    BY <2>1, KeepsUnlessMoved, Beside
<1> QED
  BY <1>1, <1>2, <1>3, <1>4, <1>5 DEF Next

(* What waits for a goal's identity is well formed, whatever is deferred,   *)
(* merged, applied, refused or rolled back.                                 *)
THEOREM TypeCorrect == Spec => []TypeOK
<1>1. SwitchInv => TypeOK
  BY DEF SwitchInv
<1> QED
  BY <1>1, SwitchInit, SwitchStep, PTL DEF Spec

(* A worker's turn runs under the configured identity, and between          *)
(* operations the session has it too unless a switch was torn: at every     *)
(* place of a switch the session differs from the configuration by just the *)
(* halves the host has accepted, which the save or the rollback settles.    *)
THEOREM IdentityIsHeld == Spec => []IdentityHolds
<1>1. SwitchInv => IdentityHolds
  <2> SUFFICES ASSUME SwitchInv PROVE IdentityHolds
    OBVIOUS
  <2>1. worker = "turn" => Identity = Configured
    BY DEF SwitchInv, TurnsUndisturbed, Identity, Configured
  <2>2. surface \subseteq {"model", "agent"}
    BY SurfacesAssumption DEF SwitchInv, TypeOK
  <2>3. op.at = "rest" /\ ~torn => \A d \in surface : session[d] = goal[d]
    BY <2>2 DEF SwitchInv, SessionFollows, Applying
  <2> QED
    BY <2>1, <2>3 DEF IdentityHolds, At
<1> QED
  BY <1>1, SwitchInit, SwitchStep, PTL DEF Spec

LEMMA LimitsYield ==
    ASSUME SwitchInv, SwitchInv', [Next]_vars
    PROVE  /\ deferred.why = "owner" \/ deferred.both # <<None, None>> => deferred'.why # "quota"
           /\ \A m \in Models : prepared'[m] <= 1
<1>1. \A m \in Models : prepared'[m] <= 1
  BY DEF SwitchInv, PreparedOnce
<1>2. ASSUME deferred.why = "owner" \/ deferred.both # <<None, None>> PROVE deferred'.why # "quota"
  <2>1. deferred.why # "quota"
    BY <1>2 DEF SwitchInv, QuotaAlone
  <2>2. CASE UNCHANGED deferred
    BY <2>1, <2>2
  <2>3. CASE NoteFallback
    BY <1>2, <2>3 DEF NoteFallback, At, SwitchInv, NotesWhatItRead
  <2>4. CASE \E kind, d : (Deferring(kind, d) \/ SwitchFailed(kind, d)) /\ d.why # "quota"
    BY <2>4 DEF Deferring, SwitchFailed
  <2>5. CASE \E kind, g, d : Saving(kind, g, d) /\ d.why # "quota"
    BY <2>1, <2>5 DEF Saving
  <2>6. deferred \in Deferrals
    BY KeepsUnlessMoved
  <2>7. CASE DeferModel \/ DeferAgent \/ DeferIdentity \/ ModelFailed \/ AgentFailed \/ IdentityFailed
    <3>1. \A m, a, w : /\ [deferred EXCEPT !.model = m, !.why = "owner"].why # "quota" /\ [deferred EXCEPT !.agent = a].why # "quota"
                       /\ [deferred EXCEPT !.model = m, !.why = "none"].why # "quota"
                       /\ [Nothing EXCEPT !.both = w].why # "quota" /\ [deferred EXCEPT !.both = w].why # "quota"
      BY <2>1, <2>6 DEF Deferrals, Nothing
    <3> QED
      BY <2>4, <2>7, <3>1 DEF DeferModel, DeferAgent, DeferIdentity, ModelFailed, AgentFailed, IdentityFailed
  <2>8. CASE SaveModel \/ SaveAgent \/ SaveIdentity
    <3>1. [deferred EXCEPT !.model = None, !.why = "none"].why # "quota" /\ [deferred EXCEPT !.agent = None].why # "quota" /\ Nothing.why # "quota"
      BY <2>1, <2>6 DEF Deferrals, Nothing
    <3> QED
      BY <2>5, <2>8, <3>1 DEF SaveModel, SaveAgent, SaveIdentity
  <2>9. \/ UNCHANGED deferred \/ NoteFallback
        \/ DeferModel \/ DeferAgent \/ DeferIdentity \/ ModelFailed \/ AgentFailed \/ IdentityFailed
        \/ SaveModel \/ SaveAgent \/ SaveIdentity
    BY DEF Next, Step, Ask, Continue, FindStatus, LookAgain, HostModel, HostAgent, HostTakes, Rollback, ResumeModel, ResumeAgent, ResumeIdentity,
           Resuming, BeginTurn, applyPendingIdentity, applyPendingModel, applyPendingAgent, Apply, Acquire, PromptWorker, ReadLimit, NoteBlocker,
           NoteLimit, TurnOver, CloseTurn, ChargeTurn, UserTypes, Verb, Crash, vars
  <2> QED
    BY <2>2, <2>3, <2>7, <2>8, <2>9
<1> QED
  BY <1>1, <1>2

(* No limit of a provider replaces what the owner deferred, and none sends  *)
(* a goal to the same fallback twice: a fallback is noted only over the     *)
(* deferral it was chosen from, and is among the tried ever after.          *)
THEOREM QuotaAlwaysYields == Spec => QuotaYields
<1>1. SwitchInv /\ SwitchInv' /\ [Next]_vars
        => [ /\ deferred.why = "owner" \/ deferred.both # <<None, None>> => deferred'.why # "quota"
             /\ \A m \in Models : prepared'[m] <= 1 ]_vars
  BY LimitsYield
<1> QED
  BY <1>1, SwitchInit, SwitchStep, PTL DEF Spec, QuotaYields
=============================================================================
