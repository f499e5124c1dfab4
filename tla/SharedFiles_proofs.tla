-------------------------- MODULE SharedFiles_proofs --------------------------
(***************************************************************************)
(* Theorems about the two protocols by which processes share the files of  *)
(* one directory: the lock of the state file and the control mailbox.  The *)
(* two have no state in common; each is proved of its own specification.   *)
(*                                                                         *)
(* The lock, for any calls, processes and crash bound: mutations exclude    *)
(* each other and none is lost, behind the locks of dead processes too,     *)
(* until a removal by name hits the lock of a live call; and releaseLock    *)
(* removes nothing but the caller's own lock, whatever was removed before   *)
(* it compared the inodes.  Neither is inductive.  Exclusion needs to know  *)
(* that the lock file is there exactly while its live creator is between    *)
(* the exclusive open and the release, and that a lock is judged stale only *)
(* when its owner is dead.                                                  *)
(*                                                                         *)
(* The mailbox, for any number of requests, plugin processes and faults:    *)
(* each request takes effect at most once, and "ok" is said only of a       *)
(* request that did, or that is unchecked and found nothing to do.  Neither *)
(* is inductive.  MailboxInv follows a request through the mailbox: until   *)
(* it is written, and while its file waits, nothing anywhere knows of it;   *)
(* afterwards at most one process has a handler for it, and until that      *)
(* handler runs the operation there is no effect, answer or ledger entry.   *)
(***************************************************************************)
EXTENDS StateLock, ControlMailbox, TLAPS

(***************************************************************************)
(* The lock of the state file.                                             *)
(***************************************************************************)

\* A lock file is complete: NoLock, or the file of the call that created it.
RealLock == lock.owner = NoCall => lock = NoLock

\* A lock is judged stale only when its owner's process is dead.
JudgedDead ==
    \A c \in Calls : pc[c] = "rmStale" => judged[c] \in Calls /\ ~Alive(judged[c])

\* A call about to remove the lock file by name as its own created it, unless
\* it was robbed since it compared the inodes or since it created the file.
ReleasesItsOwn ==
    \A c \in Calls : Alive(c) =>
        /\ pc[c] = "unlink" => lock.owner = c \/ <<c, "unlink">> \in robbed
        /\ pc[c] \in {"publish", "unpublish"} =>
              \/ lock.owner = c
              \/ <<c, "publish">> \in robbed
              \/ <<c, "unpublish">> \in robbed

FenceInv == RealLock /\ JudgedDead /\ ReleasesItsOwn

\* The lock file names the one live call that holds it.
OwnerHolds == \A c \in Calls : Alive(c) => (pc[c] \in Holding <=> lock.owner = c)

\* What a live holder read is still what the file contains.
ReadIsFresh == \A c \in Calls : Alive(c) /\ pc[c] = "write" => seen[c] = stateFile

\* Only a direct call takes the direct path.
DirectPath == \A c \in Calls : pc[c] \in Direct => c \in DirectCalls

\* While only lock holders have written, what they read is current.
Transactional ==
    written \cap DirectCalls = {} => ReadIsFresh /\ written \subseteq stateFile

Unrobbed == OwnerHolds /\ DirectPath /\ Transactional

LockInv == LockTypeOK /\ FenceInv /\ (robbed = {} => Unrobbed)

LEMMA NoLockTyped == NoLock \in Locks
BY Zenon DEF NoLock, Locks

LEMMA LockTyped == \A c \in Calls : /\ LockOf(c, TRUE) \in Locks
                                   /\ LockOf(c, FALSE) \in Locks
BY Zenon DEF LockOf, Locks

LEMMA RobbedTyped ==
    ASSUME LockTypeOK, NEW o, RemoveByName(o)
    PROVE  robbed' \subseteq Calls \X Labels /\ lock' = NoLock
BY DEF LockTypeOK, RemoveByName

(* Every variable keeps its type: a label of the control flow, a lock file  *)
(* of a call, sets of calls and of processes.                               *)
THEOREM LockTypeCorrect == LockSpec => []LockTypeOK
<1>1. LockInit => LockTypeOK
  BY DEF LockInit, LockTypeOK, Locks, Labels, Contending, Direct, NoLock
<1>2. LockTypeOK /\ [LockNext]_lockVars => LockTypeOK'
  <2> SUFFICES ASSUME LockTypeOK, [LockNext]_lockVars PROVE LockTypeOK'
    OBVIOUS
  <2> USE DEF LockTypeOK, Labels, Contending, Holding, Direct, Finished, Goto
  <2>1. ASSUME NEW c \in Calls, Expire(c) PROVE LockTypeOK'
    BY <2>1 DEF Expire
  <2>2. ASSUME NEW c \in Calls, GiveUp(c) PROVE LockTypeOK'
    BY <2>2 DEF GiveUp
  <2>3. ASSUME NEW c \in Calls, CheckStale(c) PROVE LockTypeOK'
    <3>1. lock.owner \in Calls \cup {NoCall}
      BY DEF Locks
    <3> QED
      BY <2>3, <3>1 DEF CheckStale
  <2>4. ASSUME NEW c \in Calls, RemoveStale(c) PROVE LockTypeOK'
    BY <2>4, NoLockTyped, RobbedTyped DEF RemoveStale
  <2>5. ASSUME NEW c \in Calls, OpenExclusive(c) PROVE LockTypeOK'
    <3>1. lock' \in Locks
      BY <2>5, LockTyped DEF OpenExclusive
    <3>2. pc' \in [Calls -> Labels]
      BY <2>5 DEF OpenExclusive
    <3> QED
      BY <2>5, <3>1, <3>2 DEF OpenExclusive
  <2>6. ASSUME NEW c \in Calls, Publish(c) PROVE LockTypeOK'
    <3>1. lock' \in Locks
      BY <2>6, LockTyped DEF Publish
    <3>2. pc' \in [Calls -> Labels]
      BY <2>6 DEF Publish
    <3> QED
      BY <2>6, <3>1, <3>2 DEF Publish
  <2>7. ASSUME NEW c \in Calls, Unpublish(c) PROVE LockTypeOK'
    BY <2>7, NoLockTyped, RobbedTyped DEF Unpublish
  <2>8. ASSUME NEW c \in Calls, ReadState(c) PROVE LockTypeOK'
    BY <2>8 DEF ReadState
  <2>9. ASSUME NEW c \in Calls, WriteState(c) PROVE LockTypeOK'
    BY <2>9 DEF WriteState
  <2>10. ASSUME NEW c \in Calls, Abandon(c) PROVE LockTypeOK'
    BY <2>10 DEF Abandon
  <2>11. ASSUME NEW c \in Calls, CompareInode(c) PROVE LockTypeOK'
    BY <2>11 DEF CompareInode
  <2>12. ASSUME NEW c \in Calls, Unlink(c) PROVE LockTypeOK'
    BY <2>12, NoLockTyped, RobbedTyped DEF Unlink
  <2>13. ASSUME NEW p \in Processes, CrashHolder(p) PROVE LockTypeOK'
    BY <2>13 DEF CrashHolder
  <2>14. ASSUME NEW c \in Calls, DirectRead(c) PROVE LockTypeOK'
    BY <2>14 DEF DirectRead
  <2>15. ASSUME NEW c \in Calls, DirectWrite(c) PROVE LockTypeOK'
    BY <2>15 DEF DirectWrite
  <2>16. CASE UNCHANGED lockVars
    BY <2>16 DEF lockVars
  <2> QED
    BY <2>1, <2>2, <2>3, <2>4, <2>5, <2>6, <2>7, <2>8, <2>9, <2>10, <2>11,
       <2>12, <2>13, <2>14, <2>15, <2>16 DEF LockNext, Step
<1> QED
  BY <1>1, <1>2, PTL DEF LockSpec
-----------------------------------------------------------------------------
LEMMA InitLockInv == LockInit => LockInv
<1> SUFFICES ASSUME LockInit PROVE LockInv
  OBVIOUS
<1>1. LockTypeOK
  BY DEF LockInit, LockTypeOK, Locks, Labels, Contending, Direct, NoLock
<1>2. FenceInv
  BY DEF LockInit, FenceInv, RealLock, JudgedDead, ReleasesItsOwn
<1>3. Unrobbed
  BY NoCallAssumption
  DEF LockInit, Unrobbed, OwnerHolds, DirectPath, Transactional, ReadIsFresh,
      Holding, Direct, NoLock
<1> QED
  BY <1>1, <1>2, <1>3 DEF LockInv

\* Who loses a lock to a removal by name is recorded with where it stood.
LEMMA VictimRecorded ==
    ASSUME NEW o, RemoveByName(o), NEW d \in Calls, d # o, lock.owner = d, Alive(d)
    PROVE  <<d, pc[d]>> \in robbed'
BY DEF RemoveByName

LEMMA NothingForgotten ==
    [LockNext]_lockVars => robbed \subseteq robbed' /\ crashed \subseteq crashed'
BY DEF LockNext, lockVars, CrashHolder, Step, Expire, GiveUp, CheckStale, RemoveStale,
       OpenExclusive, Publish, Unpublish, ReadState, WriteState, Abandon, RemoveByName,
       CompareInode, Unlink, DirectRead, DirectWrite

\* A removal by name meant for a dead call's lock, or for the caller's own.
LEMMA RemovalFenced ==
    ASSUME LockTypeOK, FenceInv, NEW c \in Calls, NEW o, NEW l \in Labels,
           RemoveByName(o), ~Alive(o) \/ o = c, pc' = [pc EXCEPT ![c] = l],
           l \notin {"unlink", "publish", "unpublish", "rmStale"},
           crashed' = crashed, \A d \in Calls \ {c} : judged'[d] = judged[d]
    PROVE  FenceInv'
<1>1. robbed \subseteq robbed' /\ lock' = NoLock
  BY DEF RemoveByName
<1>2. pc'[c] = l /\ \A d \in Calls \ {c} : pc'[d] = pc[d]
  BY DEF LockTypeOK
<1>3. \A d : Alive(d)' <=> Alive(d)
  BY DEF Alive
<1>4. RealLock'
  BY <1>1 DEF RealLock
<1>5. JudgedDead'
  BY <1>2, <1>3 DEF FenceInv, JudgedDead
<1>6. ReleasesItsOwn'
  <2> SUFFICES ASSUME NEW d \in Calls, Alive(d)
               PROVE  /\ pc'[d] = "unlink" => <<d, "unlink">> \in robbed'
                      /\ pc'[d] \in {"publish", "unpublish"} =>
                            <<d, "publish">> \in robbed' \/ <<d, "unpublish">> \in robbed'
    BY <1>3 DEF ReleasesItsOwn
  <2>1. CASE d = c
    BY <1>2, <2>1
  <2>2. CASE d # c
    <3>1. lock.owner = d => <<d, pc[d]>> \in robbed'
      BY <2>2, VictimRecorded
    <3>2. pc'[d] = pc[d]
      BY <1>2, <2>2
    <3> QED
      BY <1>1, <3>1, <3>2 DEF FenceInv, ReleasesItsOwn
  <2> QED
    BY <2>1, <2>2
<1> QED
  BY <1>4, <1>5, <1>6 DEF FenceInv

\* Every step of a call keeps the fence, robbed calls or not.
LEMMA StepFenced ==
    ASSUME LockTypeOK, FenceInv, NEW c \in Calls, Step(c) \/ Expire(c)
    PROVE  FenceInv'
<1>1. c \notin {NoCall} /\ lock \in Locks
  BY NoCallAssumption DEF LockTypeOK
<1>2. ASSUME lock' = lock, robbed' = robbed, crashed' = crashed, judged' = judged,
             NEW l \in Labels, pc' = [pc EXCEPT ![c] = l], l # "rmStale",
             l = "unlink" => lock.owner = c,
             l \in {"publish", "unpublish"} => pc[c] \in {"publish", "unpublish"}
      PROVE  FenceInv'
  <2>1. pc'[c] = l /\ \A d \in Calls \ {c} : pc'[d] = pc[d]
    BY <1>2 DEF LockTypeOK
  <2>2. \A d : Alive(d)' <=> Alive(d)
    BY <1>2 DEF Alive
  <2> QED
    BY <1>2, <2>1, <2>2 DEF FenceInv, RealLock, JudgedDead, ReleasesItsOwn
<1> USE DEF Goto, Labels, Contending, Holding, Direct, Finished
<1>3. CASE Expire(c)
  BY <1>3 DEF Expire, FenceInv, RealLock, JudgedDead, ReleasesItsOwn, Alive
<1>4. CASE GiveUp(c)
  BY <1>2, <1>4 DEF GiveUp
<1>5. CASE CheckStale(c)
  <2>1. CASE Goto(c, "open") /\ UNCHANGED judged
    BY <1>2, <1>5, <2>1 DEF CheckStale
  <2>2. CASE Stale /\ Goto(c, "rmStale") /\ judged' = [judged EXCEPT ![c] = lock.owner]
    <3>1. lock' = lock /\ robbed' = robbed /\ crashed' = crashed
      BY <1>5 DEF CheckStale
    <3>2. pc'[c] = "rmStale" /\ \A d \in Calls \ {c} : pc'[d] = pc[d]
      BY <2>2 DEF LockTypeOK
    <3>3. judged'[c] = lock.owner /\ \A d \in Calls \ {c} : judged'[d] = judged[d]
      BY <2>2 DEF LockTypeOK
    <3>4. lock.owner \in Calls /\ ~Alive(lock.owner)
      <4>1. lock.published /\ ~Alive(lock.owner)
        BY <2>2 DEF Stale
      <4>2. lock.owner # NoCall
        BY <4>1 DEF FenceInv, RealLock, NoLock
      <4> QED
        BY <1>1, <4>1, <4>2 DEF Locks
    <3>5. \A d : Alive(d)' <=> Alive(d)
      BY <3>1 DEF Alive
    <3> QED
      BY <3>1, <3>2, <3>3, <3>4, <3>5 DEF FenceInv, RealLock, JudgedDead, ReleasesItsOwn
  <2> QED
    BY <1>5, <2>1, <2>2 DEF CheckStale
<1>6. CASE RemoveStale(c)
  <2>1. RemoveByName(judged[c]) /\ pc' = [pc EXCEPT ![c] = "open"] /\ crashed' = crashed
    BY <1>6 DEF RemoveStale
  <2>2. ~Alive(judged[c])
    BY <1>6 DEF RemoveStale, FenceInv, JudgedDead
  <2>3. \A d \in Calls \ {c} : judged'[d] = judged[d]
    BY <1>6 DEF RemoveStale, LockTypeOK
  <2> QED
    BY <2>1, <2>2, <2>3, RemovalFenced
<1>7. CASE OpenExclusive(c)
  <2>1. CASE lock = NoLock /\ lock' = LockOf(c, FALSE) /\ Goto(c, "publish")
    <3>1. robbed' = robbed /\ crashed' = crashed /\ judged' = judged
      BY <1>7 DEF OpenExclusive
    <3>2. pc'[c] = "publish" /\ \A d \in Calls \ {c} : pc'[d] = pc[d]
      BY <2>1 DEF LockTypeOK
    <3>3. lock'.owner = c /\ \A d \in Calls : lock.owner # d
      BY <1>1, <2>1, NoCallAssumption DEF LockOf, NoLock
    <3>4. \A d : Alive(d)' <=> Alive(d)
      BY <3>1 DEF Alive
    <3> QED
      BY <1>1, <3>1, <3>2, <3>3, <3>4 DEF FenceInv, RealLock, JudgedDead, ReleasesItsOwn
  <2>2. CASE UNCHANGED lock /\ Goto(c, "check")
    BY <1>2, <1>7, <2>2 DEF OpenExclusive
  <2> QED
    BY <1>7, <2>1, <2>2 DEF OpenExclusive
<1>8. CASE Publish(c)
  <2>1. CASE Goto(c, "read") /\ lock' = IF lock.owner = c THEN LockOf(c, TRUE) ELSE lock
    <3>1. robbed' = robbed /\ crashed' = crashed /\ judged' = judged
      BY <1>8 DEF Publish
    <3>2. pc'[c] = "read" /\ \A d \in Calls \ {c} : pc'[d] = pc[d]
      BY <2>1 DEF LockTypeOK
    <3>3. lock'.owner = lock.owner
      BY <2>1 DEF LockOf
    <3>4. \A d : Alive(d)' <=> Alive(d)
      BY <3>1 DEF Alive
    <3>5. RealLock'
      BY <1>1, <2>1, <3>3 DEF FenceInv, RealLock
    <3> QED
      BY <3>1, <3>2, <3>3, <3>4, <3>5 DEF FenceInv, JudgedDead, ReleasesItsOwn
  <2>2. CASE UNCHANGED lock /\ Goto(c, "unpublish")
    BY <1>2, <1>8, <2>2 DEF Publish
  <2> QED
    BY <1>8, <2>1, <2>2 DEF Publish
<1>9. CASE Unpublish(c)
  BY <1>9, RemovalFenced DEF Unpublish
<1>10. CASE ReadState(c)
  BY <1>2, <1>10 DEF ReadState
<1>11. CASE WriteState(c)
  BY <1>2, <1>11 DEF WriteState
<1>12. CASE Abandon(c)
  BY <1>2, <1>12 DEF Abandon
<1>13. CASE CompareInode(c)
  BY <1>2, <1>13 DEF CompareInode
<1>14. CASE Unlink(c)
  BY <1>14, RemovalFenced DEF Unlink
<1>15. CASE DirectRead(c)
  BY <1>2, <1>15 DEF DirectRead
<1>16. CASE DirectWrite(c)
  BY <1>2, <1>16 DEF DirectWrite
<1> QED
  BY <1>3, <1>4, <1>5, <1>6, <1>7, <1>8, <1>9, <1>10, <1>11, <1>12, <1>13, <1>14,
     <1>15, <1>16 DEF Step

\* Every step that robs nobody keeps the facts of a lock nobody was robbed of.
LEMMA StepUnrobbed ==
  ASSUME LockTypeOK, FenceInv, Unrobbed, robbed' = {},
         NEW c \in Calls, Step(c) \/ Expire(c)
  PROVE  Unrobbed'
<1>1. ASSUME NEW o, RemoveByName(o)
      PROVE  lock' = NoLock /\ \A d \in Calls \ {o} : Alive(d) => lock.owner # d
  BY <1>1, VictimRecorded DEF RemoveByName
<1>2. crashed' = crashed
  BY DEF Step, Expire, GiveUp, CheckStale, RemoveStale, OpenExclusive, Publish, Unpublish,
         ReadState, WriteState, Abandon, CompareInode, Unlink, DirectRead, DirectWrite
<1>3. \A d : Alive(d)' <=> Alive(d)
  BY <1>2 DEF Alive
<1> USE NoCallAssumption, <1>3
    DEF Unrobbed, OwnerHolds, DirectPath, Transactional,
        ReadIsFresh, LockTypeOK, Locks, LockOf, NoLock, Labels, Contending, Holding, Direct,
        Finished, Goto
<1>4. CASE Expire(c)
  BY <1>4 DEF Expire
<1>5. CASE GiveUp(c)
  BY <1>5 DEF GiveUp
<1>6. CASE CheckStale(c)
  BY <1>6 DEF CheckStale
<1>7. CASE RemoveStale(c)
  <2>1. RemoveByName(judged[c]) /\ ~Alive(judged[c])
    BY <1>7 DEF RemoveStale, FenceInv, JudgedDead
  <2>2. lock' = NoLock /\ \A d \in Calls : Alive(d) => lock.owner # d
    BY <1>1, <2>1
  <2> QED
    BY <1>7, <2>2 DEF RemoveStale
<1>8. CASE OpenExclusive(c)
  BY <1>8 DEF OpenExclusive
<1>9. CASE Publish(c)
  BY <1>9 DEF Publish
<1>10. CASE Unpublish(c)
  <2>1. lock' = NoLock /\ \A d \in Calls \ {c} : Alive(d) => lock.owner # d
    BY <1>1, <1>10 DEF Unpublish
  <2> QED
    BY <1>10, <2>1 DEF Unpublish
<1>11. CASE ReadState(c)
  BY <1>11 DEF ReadState
<1>12. CASE WriteState(c)
  BY <1>12 DEF WriteState
<1>13. CASE Abandon(c)
  BY <1>13 DEF Abandon
<1>14. CASE CompareInode(c)
  BY <1>14 DEF CompareInode
<1>15. CASE Unlink(c)
  <2>1. lock' = NoLock /\ \A d \in Calls \ {c} : Alive(d) => lock.owner # d
    BY <1>1, <1>15 DEF Unlink
  <2> QED
    BY <1>15, <2>1 DEF Unlink
<1>16. CASE DirectRead(c)
  BY <1>16 DEF DirectRead
<1>17. CASE DirectWrite(c)
  BY <1>17 DEF DirectWrite
<1> QED
  BY <1>4, <1>5, <1>6, <1>7, <1>8, <1>9, <1>10, <1>11, <1>12, <1>13, <1>14,
     <1>15, <1>16, <1>17 DEF Step

LEMMA LockInvKept == LockInv /\ LockTypeOK' /\ [LockNext]_lockVars => LockInv'
<1> SUFFICES ASSUME LockInv, LockTypeOK', [LockNext]_lockVars
             PROVE  FenceInv' /\ (robbed' = {} => Unrobbed')
  BY DEF LockInv
<1>1. LockTypeOK /\ FenceInv /\ (robbed' = {} => Unrobbed)
  BY NothingForgotten DEF LockInv
<1>2. ASSUME NEW c \in Calls, Step(c) \/ Expire(c)
      PROVE  FenceInv' /\ (robbed' = {} => Unrobbed')
  BY <1>1, <1>2, StepFenced, StepUnrobbed
<1>3. ASSUME UNCHANGED <<pc, lock, stateFile, seen, written, judged, robbed>>,
             crashed \subseteq crashed'
      PROVE  FenceInv' /\ (robbed' = {} => Unrobbed')
  <2>1. \A c : Alive(c)' => Alive(c)
    BY <1>3 DEF Alive
  <2>2. FenceInv'
    BY <1>1, <1>3, <2>1 DEF FenceInv, RealLock, JudgedDead, ReleasesItsOwn
  <2>3. robbed' = {} => Unrobbed'
    BY <1>1, <1>3, <2>1 DEF Unrobbed, OwnerHolds, DirectPath, Transactional, ReadIsFresh
  <2> QED
    BY <2>2, <2>3
<1>4. ASSUME NEW p \in Processes, CrashHolder(p)
      PROVE  FenceInv' /\ (robbed' = {} => Unrobbed')
  BY <1>3, <1>4 DEF CrashHolder
<1>5. CASE UNCHANGED lockVars
  BY <1>3, <1>5 DEF lockVars
<1> QED
  BY <1>2, <1>4, <1>5 DEF LockNext

LEMMA LockInvariant == LockSpec => []LockInv
BY InitLockInv, LockInvKept, LockTypeCorrect, PTL DEF LockSpec
-----------------------------------------------------------------------------
(* acquireLock excludes, behind the locks of dead processes too: at most     *)
(* one live call is between reading the state and replacing it, until a      *)
(* removal by name hits the lock of a live call.                             *)
THEOREM Exclusive == LockSpec => []ExclusiveUnlessRobbed
<1>1. LockInv => ExclusiveUnlessRobbed
  BY DEF LockInv, Unrobbed, OwnerHolds, ExclusiveUnlessRobbed, MutualExclusion,
         Inside, Holding
<1> QED
  BY <1>1, LockInvariant, PTL

(* mutateState is a transaction: until a live call is robbed of its lock or  *)
(* a call writes without the lock, what one call wrote is never erased by    *)
(* another, whatever processes died.                                         *)
THEOREM MutationsSurvive == LockSpec => []NoLostMutation
<1>1. LockInv => NoLostMutation
  BY DEF LockInv, Unrobbed, Transactional, NoLostMutation
<1> QED
  BY <1>1, LockInvariant, PTL

(* releaseLock's inode comparison: a call whose lock was replaced before the *)
(* comparison never removes the replacement, for any calls, processes and    *)
(* crashes; only a call robbed after it may.                                 *)
THEOREM ReleasesOwnLock == LockSpec => ReleaseOwnLock
<1>1. LockInv /\ [LockNext]_lockVars =>
        [\A c \in Calls :
          /\ Unlink(c) => lock.owner = c \/ <<c, "unlink">> \in robbed
          /\ Unpublish(c) => \/ lock.owner = c
                             \/ <<c, "publish">> \in robbed
                             \/ <<c, "unpublish">> \in robbed]_lockVars
  BY DEF LockInv, FenceInv, ReleasesItsOwn, Unlink, Unpublish
<1> QED
  BY <1>1, LockInvariant, PTL DEF LockSpec, ReleaseOwnLock

-----------------------------------------------------------------------------
(***************************************************************************)
(* The control mailbox.                                                    *)
(***************************************************************************)

Untaken(r) == \A s \in Servers : handler[s][r].at = "none"
Fresh(r) == Untaken(r) /\ effects[r] = 0 /\ files.responses[r] = "none" /\ r \notin ledger
PreRun == {"lookup", "ledger", "run"}

Unwritten == \A r \in Requests : ~client[r].sent => r \notin files.requests /\ Fresh(r)
Waiting == \A r \in files.requests : client[r].sent /\ Fresh(r)
OneHandler ==
    \A r \in Requests, s, t \in Servers :
        handler[s][r].at # "none" /\ handler[t][r].at # "none" => s = t
NotYetRun ==
    \A r \in Requests, s \in Servers :
        handler[s][r].at \in PreRun =>
            effects[r] = 0 /\ files.responses[r] = "none" /\ r \notin ledger
Served(r) == effects[r] = 1 \/ r \in Unchecked \cap idled
OkMeansServed ==
    \A r \in Requests :
        /\ client[r].told = "ok" => Served(r)
        /\ files.responses[r] = "ok" => Served(r)
        /\ \A s \in Servers : handler[s][r].result = "ok" => Served(r)

MailboxInv == Unwritten /\ Waiting /\ OneHandler /\ NotYetRun /\ AtMostOnce /\ OkMeansServed

LEMMA Records ==
    /\ NoHandler \in HandlerStates
    /\ AtRest \in PollStates
    /\ Down \in ServerStates
<1>1. NoHandler \in HandlerStates
  BY DEF NoHandler, HandlerStates, HandlerLabels
<1>2. AtRest \in PollStates
  BY DEF AtRest, PollStates
<1>3. Down \in ServerStates
  BY DEF Down, ServerStates
<1> QED
  BY <1>1, <1>2, <1>3

LEMMA InitMailbox == Init => TypeOK /\ MailboxInv
<1> SUFFICES ASSUME Init PROVE TypeOK /\ MailboxInv
  OBVIOUS
<1> USE DEF Init
<1>1. TypeOK
  <2>1. client \in [Requests -> ClientStates]
    BY DEF ClientStates
  <2>2. files \in Directories
    BY DEF Directories
  <2> QED
    BY <2>1, <2>2, Records DEF TypeOK
<1>2. MailboxInv
  BY DEF MailboxInv, Unwritten, Waiting, OneHandler, NotYetRun, AtMostOnce, OkMeansServed,
         Fresh, Untaken, NoHandler, PreRun
<1> QED
  BY <1>1, <1>2

LEMMA ServerType ==
    ASSUME server \in [Servers -> ServerStates], NEW s \in Servers, NEW x \in ServerStates
    PROVE  [server EXCEPT ![s] = x] \in [Servers -> ServerStates]
OBVIOUS

LEMMA PollType ==
    ASSUME poll \in [Servers -> [Pollers -> PollStates]], NEW s \in Servers,
           NEW p \in Pollers, NEW x \in PollStates
    PROVE  [poll EXCEPT ![s][p] = x] \in [Servers -> [Pollers -> PollStates]]
OBVIOUS

LEMMA HandlerType ==
    ASSUME handler \in [Servers -> [Requests -> HandlerStates]], NEW s \in Servers,
           NEW r \in Requests, NEW x \in HandlerStates
    PROVE  [handler EXCEPT ![s][r] = x] \in [Servers -> [Requests -> HandlerStates]]
OBVIOUS

LEMMA BusyType ==
    ASSUME NEW x \in ServerStates, NEW b \in SUBSET Requests
    PROVE  [x EXCEPT !.busy = b] \in ServerStates
BY Zenon DEF ServerStates

LEMMA GoesType ==
    ASSUME NEW x \in HandlerStates, NEW l \in HandlerLabels
    PROVE  [x EXCEPT !.at = l] \in HandlerStates
BY Zenon DEF HandlerStates

LEMMA TodoType ==
    ASSUME NEW x \in PollStates, NEW d \in SUBSET Requests
    PROVE  [x EXCEPT !.todo = d] \in PollStates
BY Zenon DEF PollStates

LEMMA ServerFields ==
    ASSUME NEW x \in ServerStates
    PROVE  /\ x.busy \in SUBSET Requests
           /\ [x EXCEPT !.free = TRUE] \in ServerStates
           /\ [x EXCEPT !.free = FALSE] \in ServerStates
           /\ [x EXCEPT !.life = "running"] \in ServerStates
           /\ [x EXCEPT !.life = "stopped", !.busy = {}] \in ServerStates
<1>1. x.busy \in SUBSET Requests /\ {} \in SUBSET Requests
  BY DEF ServerStates
<1>2. [x EXCEPT !.free = TRUE] \in ServerStates
  BY Zenon DEF ServerStates
<1>3. [x EXCEPT !.free = FALSE] \in ServerStates
  BY Zenon DEF ServerStates
<1>4. ASSUME NEW l \in {"running", "stopped"}
      PROVE  [x EXCEPT !.life = l] \in ServerStates
  <2>1. l \in {"down", "running", "stopped"}
    OBVIOUS
  <2> QED
    BY <2>1, Zenon DEF ServerStates
<1>5. [[x EXCEPT !.life = "stopped"] EXCEPT !.busy = {}] \in ServerStates
  BY <1>1, <1>4, BusyType
<1>6. [x EXCEPT !.life = "stopped", !.busy = {}] = [[x EXCEPT !.life = "stopped"] EXCEPT !.busy = {}]
  OBVIOUS
<1> QED
  BY <1>1, <1>2, <1>3, <1>4, <1>5, <1>6

LEMMA FaultType == ASSUME TypeOK, NEW f, Fault(f) PROVE faults' \in Nat
BY DEF Fault, TypeOK

LEMMA ClientTyped ==
    ASSUME TypeOK, NEW r \in Requests, WriteRequest(r) \/ ReadResponse(r)
    PROVE  TypeOK'
<1> USE DEF TypeOK
<1>1. ASSUME NEW x \in ClientStates
      PROVE  [client EXCEPT ![r] = x] \in [Requests -> ClientStates]
  OBVIOUS
<1>2. CASE WriteRequest(r)
  <2>1. [client[r] EXCEPT !.sent = TRUE] \in ClientStates
    BY Zenon DEF ClientStates
  <2>2. files' \in Directories
    <3>1. files.requests \cup {r} \in SUBSET Requests
      BY DEF Directories
    <3> QED
      BY <1>2, <3>1, Zenon DEF WriteRequest, Directories
  <2> QED
    BY <1>1, <1>2, <2>1, <2>2 DEF WriteRequest
<1>3. CASE ReadResponse(r)
  <2>1. files.responses[r] \in Results \cup {"none"}
    BY DEF Directories
  <2>2. [client[r] EXCEPT !.told = files.responses[r]] \in ClientStates
    BY <2>1, Zenon DEF ClientStates
  <2> QED
    BY <1>1, <1>3, <2>2 DEF ReadResponse
<1> QED
  BY <1>2, <1>3

LEMMA PollTyped ==
    ASSUME TypeOK, NEW s \in Servers, Start(s) \/ Tick(s) \/ PollStep(s)
    PROVE  TypeOK'
<1> USE DEF TypeOK
<1>1. Listed \in PollStates
  <2>1. [at |-> "loop", todo |-> files.requests] \in PollStates
    BY DEF PollStates, Directories
  <2> QED
    BY <2>1, Records DEF Listed
<1>2. CASE Start(s)
  <2>1. [server[s] EXCEPT !.life = "running"] \in ServerStates
    BY ServerFields
  <2> QED
    BY <1>1, <1>2, <2>1, ServerType, PollType DEF Start, Pollers
<1>3. CASE Tick(s)
  <2>1. [server[s] EXCEPT !.free = FALSE] \in ServerStates
    BY ServerFields
  <2> QED
    BY <1>1, <1>3, <2>1, ServerType, PollType DEF Tick, Pollers
<1>4. ASSUME NEW p \in Pollers, PollEnds(s, p) PROVE TypeOK'
  <2>1. [server[s] EXCEPT !.free = TRUE] \in ServerStates
    BY ServerFields
  <2>2. server' \in [Servers -> ServerStates]
    BY <1>4, <2>1, ServerType DEF PollEnds
  <2> QED
    BY <1>4, <2>2, Records, PollType DEF PollEnds
<1>5. ASSUME NEW p \in Pollers, NEW r \in Requests, SkipRequest(s, p, r) PROVE TypeOK'
  <2>1. poll[s][p].todo \ {r} \in SUBSET Requests
    BY DEF PollStates
  <2>2. [poll[s][p] EXCEPT !.todo = poll[s][p].todo \ {r}] \in PollStates
    <3>1. poll[s][p] \in PollStates
      OBVIOUS
    <3> QED
      BY <2>1, <3>1, TodoType
  <2> QED
    BY <1>5, <2>2, PollType DEF SkipRequest
<1>6. ASSUME NEW p \in Pollers, NEW r \in Requests, ClaimRequest(s, p, r) PROVE TypeOK'
  <2>1. poll[s][p].todo \ {r} \in SUBSET Requests
    BY DEF PollStates
  <2>2. poll' \in [Servers -> [Pollers -> PollStates]]
    BY <1>6, <2>1, TodoType, PollType DEF ClaimRequest
  <2>3. server[s].busy \cup {r} \in SUBSET Requests
    BY DEF ServerStates
  <2>4. server' \in [Servers -> ServerStates]
    BY <1>6, <2>3, BusyType, ServerType DEF ClaimRequest
  <2>5. handler' \in [Servers -> [Requests -> HandlerStates]]
    BY <1>6, GoesType, HandlerType DEF ClaimRequest, HandlerLabels
  <2>6. files' \in Directories
    <3>1. files.requests \ {r} \in SUBSET Requests /\ files.processing \cup {r} \in SUBSET Requests
      BY DEF Directories
    <3> QED
      BY <1>6, <3>1, Zenon DEF ClaimRequest, Directories
  <2> QED
    BY <1>6, <2>2, <2>4, <2>5, <2>6 DEF ClaimRequest
<1> QED
  BY <1>2, <1>3, <1>4, <1>5, <1>6 DEF PollStep

LEMMA HandlerTyped ==
    ASSUME TypeOK, NEW s \in Servers, NEW r \in Requests, HandlerStep(s, r)
    PROVE  TypeOK'
<1> USE DEF TypeOK
<1>1. ASSUME NEW l \in HandlerLabels, NEW x \in Results \cup {"none"}, Resolve(s, r, l, x)
      PROVE handler' \in [Servers -> [Requests -> HandlerStates]]
  <2>1. [at |-> l, result |-> x] \in HandlerStates
    BY DEF HandlerStates
  <2> QED
    BY <1>1, <2>1, HandlerType DEF Resolve
<1>2. ASSUME NEW l \in HandlerLabels, HandlerGoes(s, r, l)
      PROVE handler' \in [Servers -> [Requests -> HandlerStates]]
  BY <1>2, GoesType, HandlerType DEF HandlerGoes
<1>3. ASSUME Forget(s, r)
      PROVE /\ handler' \in [Servers -> [Requests -> HandlerStates]]
            /\ server' \in [Servers -> ServerStates]
  <2>1. server[s].busy \ {r} \in SUBSET Requests
    BY DEF ServerStates
  <2> QED
    BY <1>3, <2>1, Records, BusyType, ServerType, HandlerType DEF Forget
<1>4. files.responses[r] \in Results \cup {"none"}
  BY DEF Directories
<1>5. CASE LookupResponse(s, r) \/ LookupLedger(s, r)
  <2>1. handler' \in [Servers -> [Requests -> HandlerStates]]
    BY <1>1, <1>2, <1>4, <1>5 DEF LookupResponse, LookupLedger, HandlerLabels, Results
  <2> QED
    BY <1>5, <2>1 DEF LookupResponse, LookupLedger
<1>6. CASE Execute(s, r) \/ FindNothingToDo(s, r)
  <2>1. handler' \in [Servers -> [Requests -> HandlerStates]]
    BY <1>1, <1>6 DEF Execute, FindNothingToDo, HandlerLabels, Results
  <2>2. effects' \in [Requests -> Nat]
    BY <1>6 DEF Execute, FindNothingToDo
  <2>3. idled' \subseteq Requests
    BY <1>6 DEF Execute, FindNothingToDo
  <2>4. UNCHANGED <<client, files, ledger, server, poll, faults>>
    BY <1>6 DEF Execute, FindNothingToDo
  <2> QED
    BY <2>1, <2>2, <2>3, <2>4
<1>7. CASE Refuse(s, r) \/ Throw(s, r)
  <2>1. handler' \in [Servers -> [Requests -> HandlerStates]]
    BY <1>1, <1>7 DEF Refuse, Throw, HandlerLabels, Results
  <2> QED
    BY <1>7, <2>1 DEF Refuse, Throw
<1>8. CASE RecordInLedger(s, r)
  <2>1. handler' \in [Servers -> [Requests -> HandlerStates]]
    BY <1>1, <1>2, <1>8 DEF RecordInLedger, HandlerLabels, Results
  <2> QED
    BY <1>8, <2>1, FaultType DEF RecordInLedger
<1>9. CASE WriteResponse(s, r)
  <2>1. handler' \in [Servers -> [Requests -> HandlerStates]]
    BY <1>1, <1>2, <1>3, <1>9 DEF WriteResponse, HandlerLabels, Results
  <2>2. server' \in [Servers -> ServerStates]
    BY <1>3, <1>9 DEF WriteResponse
  <2>3. files' \in Directories
    <3>1. handler[s][r].result \in Results \cup {"none"}
      BY DEF HandlerStates
    <3>2. [files.responses EXCEPT ![r] = handler[s][r].result] \in [Requests -> Results \cup {"none"}]
      BY <3>1 DEF Directories
    <3>3. [files EXCEPT !.responses = [files.responses EXCEPT ![r] = handler[s][r].result]] \in Directories
      BY <3>2, Zenon DEF Directories
    <3> QED
      BY <1>9, <3>3 DEF WriteResponse
  <2> QED
    BY <1>9, <2>1, <2>2, <2>3, FaultType DEF WriteResponse
<1>10. CASE RemoveMarker(s, r)
  <2>1. files' \in Directories
    <3>1. files.processing \ {r} \in SUBSET Requests
      BY DEF Directories
    <3> QED
      BY <1>10, <3>1, Zenon DEF RemoveMarker, Directories
  <2> QED
    BY <1>3, <1>10, <2>1 DEF RemoveMarker
<1> QED
  BY <1>5, <1>6, <1>7, <1>8, <1>9, <1>10 DEF HandlerStep

LEMMA ProcessTyped ==
    ASSUME TypeOK, NEW s \in Servers, Stop(s) \/ Crash(s) \/ Exit(s)
    PROVE  TypeOK'
<1> USE DEF TypeOK
<1>1. CASE Stop(s)
  <2>1. [server[s] EXCEPT !.life = "stopped", !.busy = {}] \in ServerStates
    BY ServerFields
  <2>2. server' = [server EXCEPT ![s] = [server[s] EXCEPT !.life = "stopped", !.busy = {}]]
    BY <1>1 DEF Stop
  <2> QED
    BY <1>1, <2>1, <2>2, ServerType, FaultType DEF Stop
<1>2. CASE Crash(s) \/ Exit(s)
  <2>1. Exits(s) /\ UNCHANGED <<client, files, ledger, effects, idled>> /\ faults' \in Nat
    BY <1>2, FaultType DEF Crash, Exit
  <2> QED
    BY <2>1, Records DEF Exits
<1> QED
  BY <1>1, <1>2

LEMMA NextTyped == TypeOK /\ [Next]_vars => TypeOK'
<1> SUFFICES ASSUME TypeOK, [Next]_vars PROVE TypeOK'
  OBVIOUS
<1>1. CASE UNCHANGED vars
  BY <1>1 DEF vars, TypeOK
<1> QED
  BY <1>1, ClientTyped, PollTyped, HandlerTyped, ProcessTyped DEF Next

(* Every variable keeps its type for any requests, processes and faults.    *)
THEOREM TypeCorrect == Spec => []TypeOK
<1>1. Init => TypeOK
  BY InitMailbox
<1> QED
  BY <1>1, NextTyped, PTL DEF Spec
-----------------------------------------------------------------------------
(* The invariant *)

\* A handler at work is the only one for its request, whose file is gone.
LEMMA Handled ==
    ASSUME MailboxInv, NEW s \in Servers, NEW r \in Requests, handler[s][r].at # "none"
    PROVE  /\ client[r].sent
           /\ r \notin files.requests
           /\ \A t \in Servers : t # s => handler[t][r].at = "none"
<1> USE DEF MailboxInv
<1>1. client[r].sent
  BY DEF Unwritten, Fresh, Untaken
<1>2. r \notin files.requests
  BY DEF Waiting, Fresh, Untaken
<1>3. \A t \in Servers : t # s => handler[t][r].at = "none"
  BY DEF OneHandler
<1> QED
  BY <1>1, <1>2, <1>3

\* What a handler may do to its request without harm: x is where it goes.
LEMMA HandlerMoves ==
    ASSUME TypeOK, MailboxInv, NEW s \in Servers, NEW r \in Requests,
           handler[s][r].at # "none",
           NEW x, handler' = [handler EXCEPT ![s][r] = x],
           client' = client, files'.requests = files.requests,
           \A q \in Requests \ {r} :
              /\ effects'[q] = effects[q]
              /\ files'.responses[q] = files.responses[q]
              /\ q \in ledger' <=> q \in ledger,
           x.at \in PreRun => effects'[r] = 0 /\ files'.responses[r] = "none" /\ r \notin ledger',
           effects'[r] <= 1,
           effects[r] = 1 => effects'[r] = 1,
           idled \subseteq idled',
           x.result = "ok" \/ files'.responses[r] = "ok" => Served(r)'
    PROVE  MailboxInv'
<1>1. /\ client[r].sent
      /\ r \notin files.requests
      /\ \A t \in Servers : t # s => handler[t][r].at = "none"
  BY Handled
<1>2. handler'[s][r] = x
  BY DEF TypeOK
<1>3. \A t \in Servers, q \in Requests : (t # s \/ q # r) => handler'[t][q] = handler[t][q]
  BY DEF TypeOK
<1> USE DEF MailboxInv
<1>4. ASSUME NEW q \in Requests \ {r}, Fresh(q) PROVE Fresh(q)'
  BY <1>3, <1>4 DEF Fresh, Untaken
<1>5. Unwritten'
  BY <1>1, <1>4 DEF Unwritten
<1>6. Waiting'
  <2>1. files.requests \subseteq Requests
    BY DEF TypeOK, Directories
  <2> QED
    BY <1>1, <1>4, <2>1 DEF Waiting
<1>7. OneHandler'
  BY <1>1, <1>2, <1>3 DEF OneHandler
<1>8. NotYetRun'
  <2> SUFFICES ASSUME NEW q \in Requests, NEW t \in Servers, handler'[t][q].at \in PreRun
               PROVE  effects'[q] = 0 /\ files'.responses[q] = "none" /\ q \notin ledger'
    BY DEF NotYetRun
  <2>1. CASE q # r
    BY <1>3, <2>1 DEF NotYetRun
  <2>2. CASE q = r /\ t # s
    BY <1>1, <1>3, <2>2 DEF PreRun
  <2>3. CASE q = r /\ t = s
    BY <1>2, <2>3
  <2> QED
    BY <2>1, <2>2, <2>3
<1>9. AtMostOnce'
  BY DEF AtMostOnce
<1>10. OkMeansServed'
  <2>1. \A q \in Requests : Served(q) => Served(q)'
    BY DEF Served
  <2>2. \A q \in Requests : client'[q].told = "ok" => Served(q)'
    BY <2>1 DEF OkMeansServed
  <2>3. \A q \in Requests : files'.responses[q] = "ok" => Served(q)'
    BY <2>1 DEF OkMeansServed
  <2>4. \A q \in Requests, t \in Servers : handler'[t][q].result = "ok" => Served(q)'
    BY <1>2, <1>3, <2>1 DEF OkMeansServed
  <2> QED
    BY <2>2, <2>3, <2>4 DEF OkMeansServed
<1> QED
  BY <1>5, <1>6, <1>7, <1>8, <1>9, <1>10

LEMMA ClientKeeps ==
    ASSUME TypeOK, MailboxInv, NEW r \in Requests, WriteRequest(r) \/ ReadResponse(r)
    PROVE  MailboxInv'
<1> USE DEF MailboxInv
<1>1. CASE WriteRequest(r)
  <2>1. /\ client'[r].sent /\ client'[r].told = client[r].told
        /\ \A q \in Requests \ {r} : client'[q] = client[q]
    BY <1>1 DEF WriteRequest, TypeOK, ClientStates
  <2>2. /\ files'.requests = files.requests \cup {r}
        /\ files'.responses = files.responses
    BY <1>1 DEF WriteRequest, TypeOK, Directories
  <2>3. \A q \in Requests : Fresh(q)' <=> Fresh(q)
    BY <1>1, <2>2 DEF WriteRequest, Fresh, Untaken
  <2>4. Fresh(r)
    BY <1>1 DEF WriteRequest, Unwritten
  <2>5. files.requests \subseteq Requests
    BY DEF TypeOK, Directories
  <2>6. Unwritten' /\ Waiting'
    BY <2>1, <2>2, <2>3, <2>4, <2>5 DEF Unwritten, Waiting
  <2>7. OneHandler' /\ NotYetRun' /\ AtMostOnce'
    BY <1>1, <2>2 DEF WriteRequest, OneHandler, NotYetRun, AtMostOnce
  <2>8. OkMeansServed'
    BY <1>1, <2>1, <2>2 DEF WriteRequest, OkMeansServed, Served
  <2> QED
    BY <2>6, <2>7, <2>8
<1>2. CASE ReadResponse(r)
  <2>1. /\ client'[r].sent = client[r].sent /\ client'[r].told = files.responses[r]
        /\ \A q \in Requests \ {r} : client'[q] = client[q]
    BY <1>2 DEF ReadResponse, TypeOK, ClientStates
  <2>2. \A q \in Requests : Fresh(q)' <=> Fresh(q)
    BY <1>2 DEF ReadResponse, Fresh, Untaken
  <2>3. files.requests \subseteq Requests
    BY DEF TypeOK, Directories
  <2>4. Unwritten' /\ Waiting'
    BY <1>2, <2>1, <2>2, <2>3 DEF ReadResponse, Unwritten, Waiting
  <2>5. OneHandler' /\ NotYetRun' /\ AtMostOnce'
    BY <1>2 DEF ReadResponse, OneHandler, NotYetRun, AtMostOnce
  <2>6. OkMeansServed'
    BY <1>2, <2>1 DEF ReadResponse, OkMeansServed, Served
  <2> QED
    BY <2>4, <2>5, <2>6
<1> QED
  BY <1>1, <1>2

LEMMA ClaimKeeps ==
    ASSUME TypeOK, MailboxInv, NEW s \in Servers, NEW p \in Pollers, NEW r \in Requests,
           ClaimRequest(s, p, r)
    PROVE  MailboxInv'
<1> USE DEF MailboxInv
<1>1. r \in files.requests /\ client[r].sent /\ Fresh(r)
  BY DEF ClaimRequest, Waiting
<1>2. handler'[s][r].at = "lookup" /\ handler'[s][r].result = handler[s][r].result
  BY DEF ClaimRequest, TypeOK, HandlerStates
<1>3. \A t \in Servers, q \in Requests : (t # s \/ q # r) => handler'[t][q] = handler[t][q]
  BY DEF ClaimRequest, TypeOK
<1>4. files'.requests = files.requests \ {r} /\ files'.responses = files.responses
  BY DEF ClaimRequest, TypeOK, Directories
<1>5. UNCHANGED <<client, ledger, effects, idled>>
  BY DEF ClaimRequest
<1>6. ASSUME NEW q \in Requests \ {r}, Fresh(q) PROVE Fresh(q)'
  BY <1>3, <1>4, <1>5, <1>6 DEF Fresh, Untaken
<1>7. files.requests \subseteq Requests
  BY DEF TypeOK, Directories
<1>8. Unwritten' /\ Waiting'
  BY <1>1, <1>4, <1>5, <1>6, <1>7 DEF Unwritten, Waiting
<1>9. OneHandler'
  BY <1>1, <1>2, <1>3 DEF OneHandler, Fresh, Untaken
<1>10. NotYetRun'
  BY <1>1, <1>2, <1>3, <1>4, <1>5 DEF NotYetRun, Fresh
<1>11. AtMostOnce'
  BY <1>5 DEF AtMostOnce
<1>12. OkMeansServed'
  <2>1. \A q \in Requests : Served(q)' <=> Served(q)
    BY <1>5 DEF Served
  <2> QED
    BY <1>2, <1>3, <1>4, <1>5, <2>1 DEF OkMeansServed
<1> QED
  BY <1>8, <1>9, <1>10, <1>11, <1>12

LEMMA HandlerKeeps ==
    ASSUME TypeOK, MailboxInv, NEW s \in Servers, NEW r \in Requests, HandlerStep(s, r)
    PROVE  MailboxInv'
<1> DEFINE h == handler[s][r]
<1>1. h.at # "none"
  BY DEF HandlerStep, LookupResponse, LookupLedger, Execute, FindNothingToDo, Refuse, Throw, RecordInLedger,
         WriteResponse, RemoveMarker, Handling
<1>2. effects \in [Requests -> Nat] /\ effects[r] <= 1
  BY DEF TypeOK, MailboxInv, AtMostOnce
<1>3. h.at \in PreRun => effects[r] = 0 /\ files.responses[r] = "none" /\ r \notin ledger
  BY DEF MailboxInv, NotYetRun
<1>4. h.result = "ok" \/ files.responses[r] = "ok" => Served(r)
  BY DEF MailboxInv, OkMeansServed
<1> USE DEF Served
<1>5. ASSUME NEW l, HandlerGoes(s, r, l)
      PROVE  \E x : /\ handler' = [handler EXCEPT ![s][r] = x]
                    /\ x.at = l /\ x.result = h.result
  <2>1. /\ handler' = [handler EXCEPT ![s][r] = [h EXCEPT !.at = l]]
        /\ [h EXCEPT !.at = l].at = l /\ [h EXCEPT !.at = l].result = h.result
    BY <1>5 DEF HandlerGoes, TypeOK, HandlerStates
  <2> QED
    BY <2>1
<1>6. CASE LookupResponse(s, r)
  <2>1. HandlerGoes(s, r, "ledger") /\ UNCHANGED <<client, files, ledger, effects, idled>>
    BY <1>3, <1>6 DEF LookupResponse, Handling, PreRun
  <2>2. PICK x : handler' = [handler EXCEPT ![s][r] = x] /\ x.at = "ledger" /\ x.result = h.result
    BY <1>5, <2>1
  <2>3. h.at \in PreRun
    BY <1>6 DEF LookupResponse, Handling, PreRun
  <2> QED
    BY <1>1, <1>2, <1>3, <1>4, <2>1, <2>2, <2>3, HandlerMoves
<1>7. CASE LookupLedger(s, r)
  <2>1. HandlerGoes(s, r, "run") /\ UNCHANGED <<client, files, ledger, effects, idled>>
    BY <1>3, <1>7 DEF LookupLedger, Handling, PreRun
  <2>2. PICK x : handler' = [handler EXCEPT ![s][r] = x] /\ x.at = "run" /\ x.result = h.result
    BY <1>5, <2>1
  <2>3. h.at \in PreRun
    BY <1>7 DEF LookupLedger, Handling, PreRun
  <2> QED
    BY <1>1, <1>2, <1>3, <1>4, <2>1, <2>2, <2>3, HandlerMoves
<1>8. CASE Execute(s, r)
  <2>1. effects'[r] = 1 /\ effects'[r] <= 1 /\ \A q \in Requests \ {r} : effects'[q] = effects[q]
    BY <1>2, <1>3, <1>8 DEF Execute, Handling, PreRun
  <2>2. /\ client' = client /\ files'.requests = files.requests
        /\ idled \subseteq idled'
        /\ \A q \in Requests \ {r} : /\ files'.responses[q] = files.responses[q]
                                     /\ q \in ledger' <=> q \in ledger
    BY <1>8 DEF Execute
  <2>3. PICK x : handler' = [handler EXCEPT ![s][r] = x] /\ x.at \notin PreRun
    <3>1. handler' = [handler EXCEPT ![s][r] = [at |-> "record", result |-> "ok"]]
      BY <1>8 DEF Execute, Resolve
    <3>2. [at |-> "record", result |-> "ok"].at \notin PreRun
      BY DEF PreRun
    <3> QED
      BY <3>1, <3>2
  <2> QED
    BY <1>1, <2>1, <2>2, <2>3, HandlerMoves
<1>9. CASE Refuse(s, r) \/ Throw(s, r)
  BY <1>1, <1>2, <1>4, <1>9, HandlerMoves DEF Refuse, Throw, Resolve, PreRun
<1>10. CASE FindNothingToDo(s, r)
  <2>1. /\ UNCHANGED <<client, files, ledger, effects>>
        /\ idled' = idled \cup {r} /\ Served(r)'
    BY <1>10 DEF FindNothingToDo
  <2>2. PICK x : handler' = [handler EXCEPT ![s][r] = x] /\ x.at \notin PreRun
    <3>1. handler' = [handler EXCEPT ![s][r] = [at |-> "record", result |-> "ok"]]
      BY <1>10 DEF FindNothingToDo, Resolve
    <3>2. [at |-> "record", result |-> "ok"].at \notin PreRun
      BY DEF PreRun
    <3> QED
      BY <3>1, <3>2
  <2> QED
    BY <1>1, <1>2, <2>1, <2>2, HandlerMoves
<1>11. CASE RecordInLedger(s, r)
  <2>1. CASE ledger' = ledger \cup {r} /\ HandlerGoes(s, r, "respond")
    <3>1. PICK x : handler' = [handler EXCEPT ![s][r] = x] /\ x.at = "respond" /\ x.result = h.result
      BY <1>5, <2>1
    <3>2. x.at \notin PreRun
      BY <3>1 DEF PreRun
    <3>3. UNCHANGED <<client, files, effects, idled>>
      BY <1>11 DEF RecordInLedger
    <3> QED
      BY <1>1, <1>2, <1>4, <2>1, <3>1, <3>2, <3>3, HandlerMoves
  <2>2. CASE Resolve(s, r, "report", "failed") /\ UNCHANGED ledger
    BY <1>1, <1>2, <1>4, <1>11, <2>2, HandlerMoves DEF RecordInLedger, Resolve, PreRun
  <2> QED
    BY <1>11, <2>1, <2>2 DEF RecordInLedger
<1>12. CASE WriteResponse(s, r)
  <2>1. UNCHANGED <<client, ledger, effects, idled>>
    BY <1>12 DEF WriteResponse
  <2>2. CASE files' = [files EXCEPT !.responses[r] = h.result] /\ HandlerGoes(s, r, "clean")
    <3>1. /\ files'.requests = files.requests
          /\ files'.responses = [files.responses EXCEPT ![r] = h.result]
      BY <2>2 DEF TypeOK, Directories
    <3>2. /\ files'.responses[r] = h.result
          /\ \A q \in Requests \ {r} : files'.responses[q] = files.responses[q]
      BY <3>1 DEF TypeOK, Directories
    <3>3. PICK x : handler' = [handler EXCEPT ![s][r] = x] /\ x.at = "clean" /\ x.result = h.result
      BY <1>5, <2>2
    <3>4. x.at \notin PreRun
      BY <3>3 DEF PreRun
    <3> QED
      BY <1>1, <1>2, <1>4, <2>1, <3>1, <3>2, <3>3, <3>4, HandlerMoves
  <2>3. CASE Resolve(s, r, "report", "failed") /\ UNCHANGED files
    BY <1>1, <1>2, <1>4, <2>1, <2>3, HandlerMoves DEF Resolve, PreRun
  <2>4. CASE Forget(s, r) /\ UNCHANGED files
    BY <1>1, <1>2, <1>4, <2>1, <2>4, HandlerMoves DEF Forget, NoHandler, PreRun
  <2> QED
    BY <1>12, <2>2, <2>3, <2>4 DEF WriteResponse
<1>13. CASE RemoveMarker(s, r)
  <2>1. files'.requests = files.requests /\ files'.responses = files.responses
    BY <1>13 DEF RemoveMarker, TypeOK, Directories
  <2> QED
    BY <1>1, <1>2, <1>4, <1>13, <2>1, HandlerMoves DEF RemoveMarker, Forget, NoHandler, PreRun
<1> QED
  BY <1>6, <1>7, <1>8, <1>9, <1>10, <1>11, <1>12, <1>13 DEF HandlerStep

LEMMA ProcessKeeps ==
    ASSUME TypeOK, MailboxInv, NEW s \in Servers, Crash(s) \/ Exit(s)
    PROVE  MailboxInv'
<1>1. UNCHANGED <<client, files, ledger, effects, idled>>
  BY DEF Crash, Exit
<1>2. \A t \in Servers, q \in Requests :
         handler'[t][q] = IF t = s THEN NoHandler ELSE handler[t][q]
  BY DEF Crash, Exit, Exits, TypeOK
<1>3. \A t \in Servers, q \in Requests :
         \/ handler'[t][q] = handler[t][q]
         \/ handler'[t][q].at = "none" /\ handler'[t][q].result = "none"
  BY <1>2 DEF NoHandler
<1> USE DEF MailboxInv
<1>4. \A q \in Requests : Fresh(q) => Fresh(q)'
  BY <1>1, <1>3 DEF Fresh, Untaken
<1>5. Unwritten' /\ Waiting'
  <2>1. files.requests \subseteq Requests
    BY DEF TypeOK, Directories
  <2> QED
    BY <1>1, <1>4, <2>1 DEF Unwritten, Waiting
<1>6. OneHandler'
  BY <1>3 DEF OneHandler
<1>7. NotYetRun' /\ AtMostOnce' /\ OkMeansServed'
  BY <1>1, <1>3 DEF NotYetRun, AtMostOnce, OkMeansServed, Served, PreRun
<1> QED
  BY <1>5, <1>6, <1>7

LEMMA NextKeeps == TypeOK /\ MailboxInv /\ [Next]_vars => MailboxInv'
<1> SUFFICES ASSUME TypeOK, MailboxInv, [Next]_vars PROVE MailboxInv'
  OBVIOUS
<1>1. ASSUME UNCHANGED <<client, files, ledger, handler, effects, idled>> PROVE MailboxInv'
  BY <1>1 DEF MailboxInv, Unwritten, Waiting, OneHandler, NotYetRun, AtMostOnce, OkMeansServed,
              Served, Fresh, Untaken
<1>2. CASE UNCHANGED vars
  BY <1>1, <1>2 DEF vars
<1>3. ASSUME NEW s \in Servers, Start(s) \/ Tick(s) \/ PollStep(s) \/ Stop(s)
      PROVE  MailboxInv'
  BY <1>1, <1>3, ClaimKeeps DEF Start, Tick, PollStep, PollEnds, SkipRequest, Stop
<1> QED
  BY <1>2, <1>3, ClientKeeps, HandlerKeeps, ProcessKeeps DEF Next

LEMMA Invariant == Spec => [](TypeOK /\ MailboxInv)
  BY InitMailbox, NextTyped, NextKeeps, PTL DEF Spec

(* A request takes effect at most once: the rename of its file lets one     *)
(* handler have it, whatever processes and pollers listed it, and whichever *)
(* of them were disposed of or died.                                        *)
THEOREM ServedOnce == Spec => []AtMostOnce
<1>1. MailboxInv => AtMostOnce
  BY DEF MailboxInv
<1> QED
  BY <1>1, Invariant, PTL

(* A client that is told "ok" was served, whichever handler wrote what it   *)
(* reads: its request took effect, or it is one of those whose handler says *)
(* "ok" when there is nothing to do and found nothing to do; it was neither *)
(* refused nor left unserved.                                               *)
THEOREM TruthfulAnswers == Spec => []AnswersAreTrue
<1>1. MailboxInv => AnswersAreTrue
  BY DEF MailboxInv, OkMeansServed, Served, AnswersAreTrue
<1> QED
  BY <1>1, Invariant, PTL
=============================================================================
