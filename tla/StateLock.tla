------------------------------ MODULE StateLock ------------------------------
(***************************************************************************)
(* The file lock and the transaction of infrastructure/state-repository.ts: *)
(* acquireLock, releaseLock, mutateState, and the two owner tools that call  *)
(* readState and writeState without taking the lock.                        *)
(*                                                                          *)
(* A "call" is one call of mutateState, or one force_complete_goal or        *)
(* force_block_goal tool call (a direct call).  Every call belongs to an OS        *)
(* process (a loopd plugin instance); several calls of one process contend  *)
(* with each other exactly as calls of different processes do, because each *)
(* opens the same lock file with "wx+".  A process may crash at any point,  *)
(* which stops every call it runs and leaves the lock file as it is.        *)
(*                                                                          *)
(* Every await of the source separates two steps here: reading the owner's  *)
(* metadata, removing a lock judged stale, the exclusive open, publishing   *)
(* the metadata, reading the state, replacing it, comparing inodes and      *)
(* removing the lock are separate actions.                                  *)
(*                                                                          *)
(* Abstractions.  The inode and the token of a lock file identify the call  *)
(* that created it, so the file is the call that created it and whether its *)
(* metadata has been written.  LOCK_STALE_MS is a choice: a dead owner's    *)
(* lock may or may not be old enough yet.  Process identifiers are never    *)
(* reused.  The contents of the state are the set of calls whose mutation   *)
(* they contain; replacing the file is atomic (writeAtomic's rename).       *)
(***************************************************************************)
EXTENDS Naturals, FiniteSets

CONSTANTS
    Calls,        \* the calls of mutateState
    Processes,    \* the operating-system processes that make them
    ProcessOf,    \* ProcessOf[c]: the process that makes call c
    DirectCalls,  \* the calls that read and write the state without the lock
    MaxCrashes,   \* bound: how many processes may crash
    NoCall        \* no call: the owner of a lock file that does not exist

ASSUME NoCallAssumption == NoCall \notin Calls
ASSUME ProcessOfAssumption == ProcessOf \in [Calls -> Processes]
ASSUME DirectCallsAssumption == DirectCalls \subseteq Calls
ASSUME MaxCrashesAssumption == MaxCrashes \in Nat

VARIABLES
    pc,           \* where each call stands
    expired,      \* the calls whose 30 s acquisition deadline has passed
    lock,         \* the lock file
    stateFile,    \* the calls whose mutation the state file contains
    seen,         \* seen[c]: what call c read from the state file and is about to replace
    written,      \* history: the calls that replaced the state file
    judged,       \* judged[c]: whose lock call c has judged stale
    robbed,       \* history: the live calls whose lock file another call removed
                  \* by name, each with the label at which it happened
    crashed       \* the processes that have died

lockVars == <<pc, expired, lock, stateFile, seen, written, judged, robbed, crashed>>

NoLock == [owner |-> NoCall, published |-> FALSE]
LockOf(c, full) == [owner |-> c, published |-> full]
Locks == [owner : Calls \cup {NoCall}, published : BOOLEAN]

Contending  == {"check", "rmStale", "open"}
Direct   == {"directRead", "directWrite"}
Holding  == {"publish", "unpublish", "read", "write", "stat", "unlink"}
Finished == {"done", "failed"}

Alive(c) == ProcessOf[c] \notin crashed
Goto(c, label) == pc' = [pc EXCEPT ![c] = label]

LockInit ==
    /\ pc = [c \in Calls |-> IF c \in DirectCalls THEN "directRead" ELSE "check"]
    /\ expired = {}
    /\ lock = NoLock
    /\ stateFile = {}
    /\ seen = [c \in Calls |-> {}]
    /\ written = {}
    /\ judged = [c \in Calls |-> NoCall]
    /\ robbed = {}
    /\ crashed = {}
-----------------------------------------------------------------------------
(* acquireLock *)

\* The deadline passes while the call is still trying.
Expire(c) ==
    /\ Alive(c)
    /\ pc[c] \in Contending
    /\ c \notin expired
    /\ expired' = expired \cup {c}
    /\ UNCHANGED <<pc, lock, stateFile, seen, written, judged, robbed, crashed>>

\* Mutant: the retry loop without its deadline.
GiveUpNever(c) == FALSE /\ UNCHANGED lockVars

\* The loop condition fails: the caller gets "failed to acquire lock".
GiveUp(c) ==
    /\ Alive(c)
    /\ pc[c] = "check"
    /\ c \in expired
    /\ Goto(c, "failed")
    /\ UNCHANGED <<expired, lock, stateFile, seen, written, judged, robbed, crashed>>

\* Mutant: a lock is stale by its age alone, without processIsAlive.
StaleByAge == lock.published

\* A lock is stale when its metadata can be read, it is old and its owner's
\* process is gone; an empty file cannot be parsed and is left alone.
Stale == lock.published /\ ~Alive(lock.owner)

\* Read the owner's metadata and decide whether the lock is stale.
CheckStale(c) ==
    /\ Alive(c)
    /\ pc[c] = "check"
    /\ c \notin expired
    /\ \/ Goto(c, "open") /\ UNCHANGED judged
       \/ /\ Stale
          /\ Goto(c, "rmStale")
          /\ judged' = [judged EXCEPT ![c] = lock.owner]
    /\ UNCHANGED <<expired, lock, stateFile, seen, written, robbed, crashed>>

\* fs.rm(lockPath) by a call that means the lock of `owner`: whatever file has
\* that name now is removed, and a live call it belongs to is robbed of it.
RemoveByName(owner) ==
    /\ lock' = NoLock
    /\ robbed' = robbed \cup
          {<<d, pc[d]>> : d \in {d \in Calls \ {owner} : lock.owner = d /\ Alive(d)}}

RemoveStale(c) ==
    /\ Alive(c)
    /\ pc[c] = "rmStale"
    /\ RemoveByName(judged[c])
    /\ judged' = [judged EXCEPT ![c] = NoCall]
    /\ Goto(c, "open")
    /\ UNCHANGED <<expired, stateFile, seen, written, crashed>>

\* Mutant: the lock file is opened with "w+".
OpenTruncating(c) ==
    /\ Alive(c)
    /\ pc[c] = "open"
    /\ lock' = LockOf(c, FALSE)
    /\ Goto(c, "publish")
    /\ UNCHANGED <<expired, stateFile, seen, written, judged, robbed, crashed>>

\* fs.open(lockPath, "wx+"): creates the file, or EEXIST and another round.
OpenExclusive(c) ==
    /\ Alive(c)
    /\ pc[c] = "open"
    /\ IF lock = NoLock
          THEN lock' = LockOf(c, FALSE) /\ Goto(c, "publish")
          ELSE UNCHANGED lock /\ Goto(c, "check")
    /\ UNCHANGED <<expired, stateFile, seen, written, judged, robbed, crashed>>

\* Writing the metadata through the descriptor succeeds, or fails and the
\* path is removed.  A descriptor whose file was removed still accepts it.
Publish(c) ==
    /\ Alive(c)
    /\ pc[c] = "publish"
    /\ \/ /\ Goto(c, "read")
          /\ lock' = IF lock.owner = c THEN LockOf(c, TRUE) ELSE lock
       \/ Goto(c, "unpublish") /\ UNCHANGED lock
    /\ UNCHANGED <<expired, stateFile, seen, written, judged, robbed, crashed>>

Unpublish(c) ==
    /\ Alive(c)
    /\ pc[c] = "unpublish"
    /\ RemoveByName(c)
    /\ Goto(c, "failed")
    /\ UNCHANGED <<expired, stateFile, seen, written, judged, crashed>>
-----------------------------------------------------------------------------
(* mutateState: read, apply the caller's function, replace the file. *)

ReadState(c) ==
    /\ Alive(c)
    /\ pc[c] = "read"
    /\ seen' = [seen EXCEPT ![c] = stateFile]
    /\ Goto(c, "write")
    /\ UNCHANGED <<expired, lock, stateFile, written, judged, robbed, crashed>>

WriteState(c) ==
    /\ Alive(c)
    /\ pc[c] = "write"
    /\ stateFile' = seen[c] \cup {c}
    /\ written' = written \cup {c}
    /\ seen' = [seen EXCEPT ![c] = {}]
    /\ Goto(c, "stat")
    /\ UNCHANGED <<expired, lock, judged, robbed, crashed>>

\* The caller's function throws: nothing is written and the lock is released.
Abandon(c) ==
    /\ Alive(c)
    /\ pc[c] = "write"
    /\ seen' = [seen EXCEPT ![c] = {}]
    /\ Goto(c, "stat")
    /\ UNCHANGED <<expired, lock, stateFile, written, judged, robbed, crashed>>
-----------------------------------------------------------------------------
(* releaseLock *)

\* Mutant: the lock is removed without comparing inodes.
CompareNothing(c) ==
    /\ Alive(c)
    /\ pc[c] = "stat"
    /\ Goto(c, "unlink")
    /\ UNCHANGED <<expired, lock, stateFile, seen, written, judged, robbed, crashed>>

\* Compare the inode of the acquisition descriptor with the file of that name.
CompareInode(c) ==
    /\ Alive(c)
    /\ pc[c] = "stat"
    /\ Goto(c, IF lock.owner = c THEN "unlink" ELSE "done")
    /\ UNCHANGED <<expired, lock, stateFile, seen, written, judged, robbed, crashed>>

Unlink(c) ==
    /\ Alive(c)
    /\ pc[c] = "unlink"
    /\ RemoveByName(c)
    /\ Goto(c, "done")
    /\ UNCHANGED <<expired, stateFile, seen, written, judged, crashed>>
-----------------------------------------------------------------------------
(* force_complete_goal and force_block_goal *)

DirectRead(c) ==
    /\ Alive(c)
    /\ pc[c] = "directRead"
    /\ seen' = [seen EXCEPT ![c] = stateFile]
    /\ Goto(c, "directWrite")
    /\ UNCHANGED <<expired, lock, stateFile, written, judged, robbed, crashed>>

DirectWrite(c) ==
    /\ Alive(c)
    /\ pc[c] = "directWrite"
    /\ stateFile' = seen[c] \cup {c}
    /\ written' = written \cup {c}
    /\ seen' = [seen EXCEPT ![c] = {}]
    /\ Goto(c, "done")
    /\ UNCHANGED <<expired, lock, judged, robbed, crashed>>
-----------------------------------------------------------------------------
CrashHolder(p) ==
    /\ p \notin crashed
    /\ Cardinality(crashed) < MaxCrashes
    /\ crashed' = crashed \cup {p}
    /\ UNCHANGED <<pc, expired, lock, stateFile, seen, written, judged, robbed>>

Step(c) ==
    \/ GiveUp(c) \/ CheckStale(c) \/ RemoveStale(c) \/ OpenExclusive(c)
    \/ Publish(c) \/ Unpublish(c)
    \/ ReadState(c) \/ WriteState(c) \/ Abandon(c)
    \/ CompareInode(c) \/ Unlink(c)
    \/ DirectRead(c) \/ DirectWrite(c)

LockNext ==
    \/ \E c \in Calls : Step(c) \/ Expire(c)
    \/ \E p \in Processes : CrashHolder(p)

LockSpec == LockInit /\ [][LockNext]_lockVars

\* The event loop of a live process runs its pending steps, and time passes.
LockFairness == \A c \in Calls : WF_lockVars(Step(c)) /\ WF_lockVars(Expire(c))
LockFairSpec == LockSpec /\ LockFairness
-----------------------------------------------------------------------------
(* Properties *)

Labels == Contending \cup Holding \cup Direct \cup Finished

\* Every variable keeps its type: labels of the code, one lock file, sets of
\* calls and processes.
LockTypeOK ==
    /\ pc \in [Calls -> Labels]
    /\ expired \subseteq Calls
    /\ lock \in Locks
    /\ stateFile \subseteq Calls
    /\ seen \in [Calls -> SUBSET Calls]
    /\ written \subseteq Calls
    /\ judged \in [Calls -> Calls \cup {NoCall}]
    /\ robbed \subseteq Calls \X Labels
    /\ crashed \subseteq Processes

Inside(c) == Alive(c) /\ pc[c] \in {"read", "write"}

\* The lock's purpose: no two live calls are between reading the state and
\* replacing it at the same time.
MutualExclusion == \A c, d \in Calls : Inside(c) /\ Inside(d) => c = d

\* What acquireLock gives, behind dead owners too: deadlines, failed metadata
\* writes, throwing mutations and the removal of a dead owner's lock do not
\* break exclusion.  What does is the one thing excepted here: a removal by
\* name that hit the lock of a live call instead of the one judged stale.
ExclusiveUnlessRobbed == robbed = {} => MutualExclusion

\* mutateState is a transaction: what a call wrote is never erased by another
\* that read the state before it, until a live call was robbed of its lock or
\* a direct call wrote.
NoLostMutation ==
    robbed = {} /\ written \cap DirectCalls = {} => written \subseteq stateFile

\* The header of state-repository.ts for every writer of the state: it is the
\* single source of truth and its mutations are transactional.
EveryMutationKept == crashed = {} => written \subseteq stateFile

\* releaseLock's fence, "token + inode fence replacement": a call whose lock was
\* replaced, at whatever time before it compared the inodes, does not remove
\* the replacement.  Only the last await is open: a call robbed between the
\* comparison and the removal, or before it cleans up a failed publication,
\* which compares nothing.
ReleaseOwnLock ==
    [][\A c \in Calls :
          /\ Unlink(c) => lock.owner = c \/ <<c, "unlink">> \in robbed
          /\ Unpublish(c) => \/ lock.owner = c
                             \/ <<c, "publish">> \in robbed
                             \/ <<c, "unpublish">> \in robbed]_lockVars

\* Every call of a live process ends: it gets the lock or the deadline error,
\* even behind the lock file of a process that died.
EveryCallEnds == \A c \in Calls : <>(pc[c] \in Finished \/ ~Alive(c))
=============================================================================
