------------------------- MODULE RouteReconcileProofs -------------------------
(***************************************************************************)
(* Proofs about RouteReconcile, for any number of sessions, processes,     *)
(* kills and policies.                                                     *)
(*                                                                         *)
(* First of its lock.  SerializedChecks is not inductive: it says nothing  *)
(* of the lock.  The invariant that is adds two facts.  While nothing has  *)
(* been stolen, every process that holds the lock (from creating the file  *)
(* until removing it) is the owner of the file that is there.  And a       *)
(* process that is past judging its owner dead is right for good, since    *)
(* processes do not come back.  So the file that BreakLock removes without     *)
(* stealing has no holder.                                                 *)
(*                                                                         *)
(* The composition implements the lock's specification, so what is proved  *)
(* of the lock holds of it.  ManifestNeverRegresses then follows from an   *)
(* invariant about the one process inside the lock: what it captured is at *)
(* least as new as the manifest.  That is inductive only together with the *)
(* fact that a process enters the lock with nothing captured, and with     *)
(* SerializedChecks, by which nobody else writes in between.               *)
(*                                                                         *)
(* UpdateNotForgotten follows an update from the capture by way of reply   *)
(* and fetch to the models of the session that was told of it.             *)
(***************************************************************************)
EXTENDS RouteReconcile, TLAPS

-----------------------------------------------------------------------------
(* The lock.                                                               *)

Holds(p) == pc[p] \in {"token", "inside", "leaving"}

HoldersOwnTheLock == ~ stolen => \A p \in Procs : Holds(p) => lock.owner = p

\* A process that judges, or has judged, has seen the token of a process.
SawAProcess ==
    \A p \in Procs : pc[p] \in {"judge", "suspect", "breaking"} => saw[p] \in Procs

JudgedDead ==
    \A p \in Procs : pc[p] \in {"suspect", "breaking"} => pc[saw[p]] = "gone"

\* A written token belongs to somebody.
WrittenByAProcess == lock.written => lock.owner \in Procs

\* The loop ends with the second attempt.
TriesLeft == \A p \in Procs : pc[p] # "gone" => tries[p] \in {0, 1}

LockInv ==
    /\ LockTypeOK
    /\ TriesLeft
    /\ HoldersOwnTheLock
    /\ SawAProcess
    /\ JudgedDead
    /\ WrittenByAProcess

-----------------------------------------------------------------------------
\* The initial states satisfy the invariant.
LEMMA InitLockInv == LockInit => LockInv
<1> SUFFICES ASSUME LockInit PROVE LockInv
  OBVIOUS
<1> USE DEF LockInit, NoLock
<1>1. LockTypeOK
  <2>1. lock \in [owner : Procs \cup {Nobody}, written : BOOLEAN]
    BY Zenon
  <2>2. kills \in 0 .. MaxKills /\ tries \in [Procs -> 0 .. 2]
    BY LockAssumption
  <2>3. QED
    BY <2>1, <2>2 DEF LockTypeOK
<1>2. HoldersOwnTheLock /\ SawAProcess /\ JudgedDead /\ WrittenByAProcess /\ TriesLeft
  BY DEF TriesLeft, HoldersOwnTheLock, Holds, SawAProcess, JudgedDead, WrittenByAProcess
<1>3. QED
  BY <1>1, <1>2 DEF LockInv

\* Every step of every process keeps its type.
LEMMA LockTypeStep ==
    ASSUME LockTypeOK, TriesLeft, LockNext
    PROVE  LockTypeOK'
<1>1. PICK p \in Procs : Start(p) \/ Acquire(p) \/ Leave(p) \/ Remove(p) \/ Kill(p)
  BY DEF LockNext
<1> USE LockAssumption DEF LockTypeOK, Becomes, Gives
<1>2. CASE Start(p)
  BY <1>2 DEF Start, NoLock
<1>3. CASE OpenLock(p)
  <2>1. [owner |-> p, written |-> FALSE] \in [owner : Procs \cup {Nobody}, written : BOOLEAN]
    OBVIOUS
  <2>2. lock' \in [owner : Procs \cup {Nobody}, written : BOOLEAN]
    BY <1>3, <2>1, Zenon DEF OpenLock
  <2>3. QED
    BY <1>3, <2>2 DEF OpenLock
<1>4. CASE ReadOwner(p)
  BY <1>4 DEF ReadOwner, NoLock
<1>5. CASE Judge(p)
  BY <1>5 DEF Judge, NoLock, alive
<1>6. CASE ReadAgain(p)
  BY <1>6 DEF ReadAgain, NoLock
<1>7. CASE BreakLock(p)
  <2>1. lock' \in [owner : Procs \cup {Nobody}, written : BOOLEAN]
    BY <1>7, Zenon DEF BreakLock, NoLock
  <2>2. tries' \in [Procs -> 0 .. 2]
    BY <1>7 DEF BreakLock, TriesLeft
  <2>3. QED
    BY <1>7, <2>1, <2>2 DEF BreakLock
<1>8. CASE WriteToken(p)
  BY <1>8 DEF WriteToken, NoLock
<1>9. CASE Leave(p)
  BY <1>9 DEF Leave, NoLock
<1>10. CASE Remove(p)
  BY <1>10 DEF Remove, NoLock
<1>11. CASE Kill(p)
  BY <1>11 DEF Kill, NoLock
<1>12. QED
  BY <1>1, <1>2, <1>3, <1>4, <1>5, <1>6, <1>7, <1>8, <1>9, <1>10, <1>11 DEF Acquire

\* Every step keeps the rest of the invariant.
LEMMA LockInvStep ==
    ASSUME LockInv, LockNext
    PROVE  LockInv'
<1>1. PICK p \in Procs : Start(p) \/ Acquire(p) \/ Leave(p) \/ Remove(p) \/ Kill(p)
  BY DEF LockNext
<1>2. LockTypeOK'
  BY LockTypeStep DEF LockInv
<1> USE LockAssumption DEF LockInv, LockTypeOK, Becomes, Gives
<1>3. CASE Start(p)
  <2> USE <1>3 DEF Start, NoLock
  <2>1. HoldersOwnTheLock'
    BY DEF HoldersOwnTheLock, Holds, JudgedDead
  <2>2. SawAProcess'
    BY DEF SawAProcess, WrittenByAProcess
  <2>3. JudgedDead'
    BY DEF JudgedDead, SawAProcess, alive
  <2>4. WrittenByAProcess'
    BY DEF WrittenByAProcess
  <2>5. TriesLeft'
    BY DEF TriesLeft
  <2>6. QED
    BY <1>2, <2>1, <2>2, <2>3, <2>4, <2>5
<1>4. CASE OpenLock(p)
  <2> USE <1>4 DEF OpenLock, NoLock
  <2>1. HoldersOwnTheLock'
    BY DEF HoldersOwnTheLock, Holds, JudgedDead
  <2>2. SawAProcess'
    BY DEF SawAProcess, WrittenByAProcess
  <2>3. JudgedDead'
    BY DEF JudgedDead, SawAProcess, alive
  <2>4. WrittenByAProcess'
    BY DEF WrittenByAProcess
  <2>5. TriesLeft'
    BY DEF TriesLeft
  <2>6. QED
    BY <1>2, <2>1, <2>2, <2>3, <2>4, <2>5
<1>5. CASE ReadOwner(p)
  <2> USE <1>5 DEF ReadOwner, NoLock
  <2>1. HoldersOwnTheLock'
    BY DEF HoldersOwnTheLock, Holds, JudgedDead
  <2>2. SawAProcess'
    BY DEF SawAProcess, WrittenByAProcess
  <2>3. JudgedDead'
    BY DEF JudgedDead, SawAProcess, alive
  <2>4. WrittenByAProcess'
    BY DEF WrittenByAProcess
  <2>5. TriesLeft'
    BY DEF TriesLeft
  <2>6. QED
    BY <1>2, <2>1, <2>2, <2>3, <2>4, <2>5
<1>6. CASE Judge(p)
  <2> USE <1>6 DEF Judge, NoLock
  <2>1. HoldersOwnTheLock'
    BY DEF HoldersOwnTheLock, Holds, JudgedDead
  <2>2. SawAProcess'
    BY DEF SawAProcess, WrittenByAProcess
  <2>3. JudgedDead'
    BY DEF JudgedDead, SawAProcess, alive
  <2>4. WrittenByAProcess'
    BY DEF WrittenByAProcess
  <2>5. TriesLeft'
    BY DEF TriesLeft
  <2>6. QED
    BY <1>2, <2>1, <2>2, <2>3, <2>4, <2>5
<1>7. CASE ReadAgain(p)
  <2> USE <1>7 DEF ReadAgain, NoLock
  <2>1. HoldersOwnTheLock'
    BY DEF HoldersOwnTheLock, Holds, JudgedDead
  <2>2. SawAProcess'
    BY DEF SawAProcess, WrittenByAProcess
  <2>3. JudgedDead'
    BY DEF JudgedDead, SawAProcess, alive
  <2>4. WrittenByAProcess'
    BY DEF WrittenByAProcess
  <2>5. TriesLeft'
    BY DEF TriesLeft
  <2>6. QED
    BY <1>2, <2>1, <2>2, <2>3, <2>4, <2>5
<1>8. CASE BreakLock(p)
  <2> USE <1>8 DEF BreakLock, NoLock
  <2>1. HoldersOwnTheLock'
    BY DEF HoldersOwnTheLock, Holds, JudgedDead
  <2>2. SawAProcess'
    BY DEF SawAProcess, WrittenByAProcess
  <2>3. JudgedDead'
    BY DEF JudgedDead, SawAProcess, alive
  <2>4. WrittenByAProcess'
    BY DEF WrittenByAProcess
  <2>5. TriesLeft'
    BY DEF TriesLeft
  <2>6. QED
    BY <1>2, <2>1, <2>2, <2>3, <2>4, <2>5
<1>9. CASE WriteToken(p)
  <2> USE <1>9 DEF WriteToken, NoLock
  <2>1. HoldersOwnTheLock'
    BY DEF HoldersOwnTheLock, Holds, JudgedDead
  <2>2. SawAProcess'
    BY DEF SawAProcess, WrittenByAProcess
  <2>3. JudgedDead'
    BY DEF JudgedDead, SawAProcess, alive
  <2>4. WrittenByAProcess'
    BY DEF WrittenByAProcess
  <2>5. TriesLeft'
    BY DEF TriesLeft
  <2>6. QED
    BY <1>2, <2>1, <2>2, <2>3, <2>4, <2>5
<1>10. CASE Leave(p)
  <2> USE <1>10 DEF Leave, NoLock
  <2>1. HoldersOwnTheLock'
    BY DEF HoldersOwnTheLock, Holds, JudgedDead
  <2>2. SawAProcess'
    BY DEF SawAProcess, WrittenByAProcess
  <2>3. JudgedDead'
    BY DEF JudgedDead, SawAProcess, alive
  <2>4. WrittenByAProcess'
    BY DEF WrittenByAProcess
  <2>5. TriesLeft'
    BY DEF TriesLeft
  <2>6. QED
    BY <1>2, <2>1, <2>2, <2>3, <2>4, <2>5
<1>11. CASE Remove(p)
  <2> USE <1>11 DEF Remove, NoLock
  <2>1. HoldersOwnTheLock'
    BY DEF HoldersOwnTheLock, Holds, JudgedDead
  <2>2. SawAProcess'
    BY DEF SawAProcess, WrittenByAProcess
  <2>3. JudgedDead'
    BY DEF JudgedDead, SawAProcess, alive
  <2>4. WrittenByAProcess'
    BY DEF WrittenByAProcess
  <2>5. TriesLeft'
    BY DEF TriesLeft
  <2>6. QED
    BY <1>2, <2>1, <2>2, <2>3, <2>4, <2>5
<1>12. CASE Kill(p)
  <2> USE <1>12 DEF Kill, NoLock
  <2>1. HoldersOwnTheLock'
    BY DEF HoldersOwnTheLock, Holds, JudgedDead
  <2>2. SawAProcess'
    BY DEF SawAProcess, WrittenByAProcess
  <2>3. JudgedDead'
    BY DEF JudgedDead, SawAProcess, alive
  <2>4. WrittenByAProcess'
    BY DEF WrittenByAProcess
  <2>5. TriesLeft'
    BY DEF TriesLeft
  <2>6. QED
    BY <1>2, <2>1, <2>2, <2>3, <2>4, <2>5
<1>13. QED
  BY <1>1, <1>3, <1>4, <1>5, <1>6, <1>7, <1>8, <1>9, <1>10, <1>11, <1>12 DEF Acquire

\* Stuttering changes nothing.
LEMMA LockInvStutter ==
    ASSUME LockInv, UNCHANGED lockVars
    PROVE  LockInv'
BY DEF lockVars, LockInv, LockTypeOK, TriesLeft, HoldersOwnTheLock, Holds, SawAProcess,
       JudgedDead, WrittenByAProcess

\* Two holders would own the same file.
LEMMA HoldersSerialize == LockInv => SerializedChecks
BY DEF LockInv, HoldersOwnTheLock, Holds, SerializedChecks

-----------------------------------------------------------------------------
\* The invariant holds in every state withReconcileLock can reach.
THEOREM LockInvariance == LockSpec => []LockInv
<1>1. LockInv /\ [LockNext]_lockVars => LockInv'
  BY LockInvStep, LockInvStutter
<1>2. QED
  BY InitLockInv, <1>1, PTL DEF LockSpec

\* The variables keep their types.
THEOREM LockTypes == LockSpec => []LockTypeOK
<1>1. LockInv => LockTypeOK
  BY DEF LockInv
<1>2. QED
  BY LockInvariance, <1>1, PTL

\* Until a lock is stolen, no two processes are inside the lock, however many
\* there are and whichever of them are killed (withReconcileLock).
THEOREM Serialization == LockSpec => []SerializedChecks
BY LockInvariance, HoldersSerialize, PTL

-----------------------------------------------------------------------------
(* The composition.                                                        *)

\* Every step of the composition is a step of the lock or leaves it alone.
LEMMA StepImplementsLock ==
    ASSUME [ReconcileNext]_reconcileVars
    PROVE  [LockNext]_lockVars
<1>1. CASE UNCHANGED reconcileVars
  BY <1>1 DEF reconcileVars, lockVars
<1>2. CASE Edit
  BY <1>2 DEF Edit
<1>3. ASSUME NEW c \in Procs, Process(c) \/ Killed(c)
      PROVE  [LockNext]_lockVars
  <2>1. CASE TakesLock(c) \/ ReleasesLock(c) \/ Killed(c)
    BY <2>1 DEF TakesLock, ReleasesLock, Killed, LockNext
  <2>2. CASE ReadManifest(c) \/ FirstCapture(c) \/ SecondCapture(c) \/ WriteManifest(c) \/ Fails(c)
    BY <2>2 DEF ReadManifest, FirstCapture, SecondCapture, WriteManifest, Fails, Ends, Works
  <2>3. QED
    BY <1>3, <2>1, <2>2 DEF Process
<1>4. ASSUME NEW s \in OmpSessions, Session(s)
      PROVE  [LockNext]_lockVars
  <2>1. CASE Check(s)
    BY <2>1 DEF Check, LockNext
  <2>2. CASE Reply(s) \/ Refresh(s) \/ OmpRefresh(s) \/ FetchEnds(s) \/ FetchFails(s) \/ MinutePasses(s)
    BY <2>2 DEF Reply, Refresh, OmpRefresh, FetchEnds, FetchFails, MinutePasses
  <2>3. QED
    BY <1>4, <2>1, <2>2 DEF Session
<1>5. QED
  BY <1>1, <1>2, <1>3, <1>4 DEF ReconcileNext

\* The processes of the composition follow withReconcileLock.
THEOREM ImplementsLock == ReconcileSpec => LockSpec
<1>1. ReconcileInit => LockInit
  BY DEF ReconcileInit
<1>2. [ReconcileNext]_reconcileVars => [LockNext]_lockVars
  BY StepImplementsLock
<1>3. QED
  BY <1>1, <1>2, PTL DEF ReconcileSpec, LockSpec

\* Route checks of different sessions exclude each other until a lock is stolen.
THEOREM ChecksSerialize == ReconcileSpec => []SerializedChecks
BY ImplementsLock, Serialization, PTL

-----------------------------------------------------------------------------
\* The initial states are well typed.
LEMMA InitTypeOK == ReconcileInit => ReconcileTypeOK
<1> SUFFICES ASSUME ReconcileInit PROVE ReconcileTypeOK
  OBVIOUS
<1> USE ReconcileAssumption DEF ReconcileInit, Policies
<1>1. LockTypeOK
  BY InitLockInv DEF LockInv
<1>2. policy \in Policies /\ manifest \in Policies /\ cache \in Policies
  OBVIOUS
<1>3. job \in [Procs -> Job]
  BY DEF Job
<1>4. check \in [OmpSessions -> PendingCheck]
  BY DEF PendingCheck, Idle
<1>5. fetch \in [OmpSessions -> Fetch]
  BY DEF Fetch, NoFetch
<1>6. models \in [OmpSessions -> Policies] /\ routes \in [OmpSessions -> Policies]
        /\ told \in [OmpSessions -> Policies]
  BY <1>2
<1>7. QED
  BY <1>1, <1>2, <1>3, <1>4, <1>5, <1>6 DEF ReconcileTypeOK

\* A process changes its job, the manifest and nothing else.
LEMMA ProcessTypes ==
    ASSUME ReconcileTypeOK, LockTypeOK', NEW c \in Procs, Process(c) \/ Killed(c)
    PROVE  ReconcileTypeOK'
<1> USE DEF ReconcileTypeOK
<1>1. /\ job[c] \in Job
      /\ \A j \in Job : Works(c, j) => job' \in [Procs -> Job]
  BY DEF Works
<1>2. \A outcome \in {"failed", "unchanged", "updated"} :
        Ends(c, outcome) => job' \in [Procs -> Job]
  <2>1. \A outcome \in {"failed", "unchanged", "updated"} :
          [job[c] EXCEPT !.step = "end", !.outcome = outcome] \in Job
    BY <1>1 DEF Job
  <2>2. QED
    BY <1>1, <2>1 DEF Ends
<1>3. job' \in [Procs -> Job] /\ manifest' \in Policies
  <2>1. CASE TakesLock(c) \/ ReleasesLock(c)
    BY <2>1 DEF TakesLock, ReleasesLock, Outside
  <2>2. CASE ReadManifest(c)
    <3>1. [job[c] EXCEPT !.step = "first", !.local = manifest] \in Job
      BY <1>1 DEF Job
    <3>2. QED
      BY <1>1, <2>2, <3>1 DEF ReadManifest
  <2>3. CASE FirstCapture(c)
    <3>1. [job[c] EXCEPT !.step = "second", !.first = policy] \in Job
      BY <1>1 DEF Job
    <3>2. QED
      BY <1>1, <1>2, <2>3, <3>1 DEF FirstCapture
  <2>4. CASE SecondCapture(c)
    <3>1. [job[c] EXCEPT !.step = "write"] \in Job
      BY <1>1 DEF Job
    <3>2. QED
      BY <1>1, <1>2, <2>4, <3>1 DEF SecondCapture
  <2>5. CASE WriteManifest(c)
    BY <1>1, <1>2, <2>5 DEF WriteManifest, Job
  <2>6. CASE Fails(c)
    BY <1>2, <2>6 DEF Fails
  <2>7. CASE Killed(c)
    <3>1. [job[c] EXCEPT !.outcome = "failed"] \in Job
      BY <1>1 DEF Job
    <3>2. job' = [job EXCEPT ![c] = [job[c] EXCEPT !.outcome = "failed"]]
      BY <2>7 DEF Killed
    <3>3. QED
      BY <2>7, <3>1, <3>2 DEF Killed, Outside
  <2>8. QED
    BY <2>1, <2>2, <2>3, <2>4, <2>5, <2>6, <2>7 DEF Process
<1>4. UNCHANGED <<policy, cache, sessionVars>>
  BY DEF Process, TakesLock, ReleasesLock, ReadManifest, FirstCapture, SecondCapture,
         WriteManifest, Fails, Killed, Ends, Works, Outside
<1>5. QED
  BY <1>3, <1>4 DEF sessionVars

\* A session that waits for a process knows which one.
ChildNamed == \A s \in OmpSessions : check[s].phase = "child" => check[s].child \in Procs

\* A session changes what it keeps itself and the cache.
LEMMA SessionTypes ==
    ASSUME ReconcileTypeOK, ChildNamed, LockTypeOK', NEW s \in OmpSessions, Session(s)
    PROVE  ReconcileTypeOK'
<1> USE DEF ReconcileTypeOK
<1>1. fetch[s] \in Fetch /\ NoFetch \in Fetch
  BY ReconcileAssumption DEF Fetch, NoFetch, Policies
<1>2. \A wanted \in BOOLEAN : JoinOrStart(s, wanted) => fetch' \in [OmpSessions -> Fetch]
  <2>1. \A wanted \in BOOLEAN : Started(wanted) \in Fetch
    BY Zenon DEF Started, Fetch
  <2>2. \A f \in Fetch : \A wanted \in BOOLEAN : Joined(f, wanted) \in Fetch
    BY DEF Joined, Fetch
  <2>3. QED
    BY <1>1, <2>1, <2>2 DEF JoinOrStart
<1>3. \A phase \in {"idle", "refresh", "waiting"} :
        Goes(s, phase) => check' \in [OmpSessions -> PendingCheck]
  BY DEF Goes, PendingCheck
<1>4. CASE Check(s)
  <2>1. check' \in [OmpSessions -> PendingCheck]
    BY <1>3, <1>4 DEF Check, PendingCheck
  <2>2. throttled' \subseteq OmpSessions
    BY <1>4 DEF Check
  <2>3. UNCHANGED <<policy, manifest, cache, job, needsRefresh, models, routes, fetch, told, joined>>
    BY <1>4 DEF Check, Files
  <2>4. QED
    BY <2>1, <2>2, <2>3
<1>5. CASE MinutePasses(s)
  BY <1>5 DEF MinutePasses, Files
<1>6. CASE Reply(s)
  <2>1. check' \in [OmpSessions -> PendingCheck]
    BY <1>3, <1>6 DEF Reply
  <2>2. needsRefresh' \subseteq OmpSessions /\ told' \in [OmpSessions -> Policies]
    <3>1. job[check[s].child].first \in Policies
      BY <1>6 DEF Reply, ChildNamed, Job
    <3>2. QED
      BY <1>6, <3>1 DEF Reply
  <2>3. QED
    BY <1>6, <2>1, <2>2 DEF Reply, Files
<1>7. ASSUME UseCache(s)
      PROVE  /\ models' \in [OmpSessions -> Policies] /\ routes' \in [OmpSessions -> Policies]
             /\ fetch' \in [OmpSessions -> Fetch] /\ joined' \subseteq OmpSessions
  BY <1>2, <1>7 DEF UseCache
<1>8. ASSUME AwaitFetch(s)
      PROVE  /\ models' \in [OmpSessions -> Policies] /\ routes' \in [OmpSessions -> Policies]
             /\ fetch' \in [OmpSessions -> Fetch] /\ joined' \subseteq OmpSessions
  BY <1>2, <1>8 DEF AwaitFetch
<1>9. CASE Refresh(s)
  <2>1. check' \in [OmpSessions -> PendingCheck] /\ needsRefresh' \subseteq OmpSessions
    BY <1>3, <1>9 DEF Refresh, Refreshed
  <2>2. QED
    BY <1>7, <1>8, <1>9, <2>1 DEF Refresh, Files
<1>10. CASE OmpRefresh(s)
  BY <1>7, <1>8, <1>10 DEF OmpRefresh, Files
<1>11. fetch[s].policy \in Policies /\ [fetch EXCEPT ![s] = NoFetch] \in [OmpSessions -> Fetch]
  BY <1>1 DEF Fetch
<1>12. CASE FetchEnds(s)
  <2>1. check' \in [OmpSessions -> PendingCheck] /\ needsRefresh' \subseteq OmpSessions
    BY <1>3, <1>12 DEF FetchEnds, Refreshed
  <2>2. /\ models' \in [OmpSessions -> Policies] /\ routes' \in [OmpSessions -> Policies]
        /\ cache' \in Policies /\ joined' \subseteq OmpSessions
    BY <1>11, <1>12 DEF FetchEnds
  <2>3. QED
    BY <1>11, <1>12, <2>1, <2>2 DEF FetchEnds, Files
<1>13. CASE FetchFails(s)
  <2>1. check' \in [OmpSessions -> PendingCheck]
    BY <1>3, <1>13 DEF FetchFails
  <2>2. routes' \in [OmpSessions -> Policies]
    BY <1>11, <1>13 DEF FetchFails
  <2>3. QED
    BY <1>11, <1>13, <2>1, <2>2 DEF FetchFails, Files
<1>14. QED
  BY <1>4, <1>5, <1>6, <1>9, <1>10, <1>12, <1>13 DEF Session

\* No step makes a session wait for a process it cannot name.
LEMMA ChildNamedStep ==
    ASSUME ReconcileTypeOK, ChildNamed, ReconcileNext
    PROVE  ChildNamed'
<1> USE DEF ReconcileTypeOK, ChildNamed
<1>1. CASE UNCHANGED check
  BY <1>1
<1>2. ASSUME NEW s \in OmpSessions, NEW phase \in {"idle", "refresh", "waiting"}, Goes(s, phase)
      PROVE  ChildNamed'
  BY <1>2 DEF Goes, PendingCheck
<1>3. ASSUME NEW s \in OmpSessions, Session(s)
      PROVE  ChildNamed'
  <2>1. CASE Check(s)
    BY <1>2, <2>1 DEF Check, PendingCheck
  <2>2. CASE Reply(s) \/ FetchFails(s)
    BY <1>1, <1>2, <2>2 DEF Reply, FetchFails
  <2>3. CASE Refresh(s) \/ FetchEnds(s)
    BY <1>1, <1>2, <2>3 DEF Refresh, FetchEnds, Refreshed
  <2>4. CASE MinutePasses(s) \/ OmpRefresh(s)
    BY <1>1, <2>4 DEF MinutePasses, OmpRefresh
  <2>5. QED
    BY <1>3, <2>1, <2>2, <2>3, <2>4 DEF Session
<1>4. ASSUME NEW c \in Procs, Process(c) \/ Killed(c)
      PROVE  UNCHANGED check
  BY <1>4 DEF Process, TakesLock, ReleasesLock, ReadManifest, FirstCapture, SecondCapture,
         WriteManifest, Fails, Killed, Ends, Works, Outside, sessionVars
<1>5. QED
  BY <1>1, <1>3, <1>4 DEF ReconcileNext, Edit, sessionVars


\* Every step keeps the types.
LEMMA TypeStep ==
    ASSUME ReconcileTypeOK, ChildNamed, LockTypeOK', [ReconcileNext]_reconcileVars
    PROVE  ReconcileTypeOK'
<1>1. CASE UNCHANGED reconcileVars
  BY <1>1 DEF reconcileVars, lockVars, sessionVars, ReconcileTypeOK
<1>2. CASE Edit
  <2>1. policy' \in Policies
    BY <1>2, ReconcileAssumption DEF Edit, ReconcileTypeOK, Policies
  <2>2. QED
    BY <1>2, <2>1 DEF Edit, sessionVars, ReconcileTypeOK
<1>3. QED
  BY <1>1, <1>2, ProcessTypes, SessionTypes DEF ReconcileNext

\* The variables keep their types.
THEOREM Types == ReconcileSpec => []ReconcileTypeOK
<1>1. ReconcileInit => ChildNamed
  BY DEF ReconcileInit, ChildNamed, Idle
<1>2. ReconcileTypeOK /\ ChildNamed /\ LockTypeOK' /\ [ReconcileNext]_reconcileVars => ReconcileTypeOK' /\ ChildNamed'
  <2>1. UNCHANGED reconcileVars /\ ChildNamed => ChildNamed'
    BY DEF reconcileVars, sessionVars, ChildNamed
  <2>2. QED
    BY <2>1, TypeStep, ChildNamedStep
<1>3. ReconcileSpec => []LockTypeOK
  BY ImplementsLock, LockTypes, PTL
<1>4. QED
  BY InitTypeOK, <1>1, <1>2, <1>3, PTL DEF ReconcileSpec

-----------------------------------------------------------------------------
\* Outside the lock a process has captured nothing yet.
EntersAfresh ==
    \A c \in Procs :
        pc[c] \in {"idle", "open", "found", "judge", "suspect", "breaking", "token"}
            => job[c].step = "read"

\* What the process inside the lock is about to write is no older than the
\* manifest.
CapturesAreNewer ==
    ~ stolen =>
        \A c \in Procs :
            pc[c] = "inside" /\ job[c].step \in {"second", "write"}
                => manifest <= job[c].first

\* No process has captured a policy that is yet to come.
CapturesArePast == \A c \in Procs : job[c].first <= policy

ManifestInv ==
    /\ manifest <= policy
    /\ CapturesArePast
    /\ EntersAfresh
    /\ CapturesAreNewer

\* Nothing is captured in the initial states.
LEMMA InitManifestInv == ReconcileInit => ManifestInv
BY DEF ReconcileInit, LockInit, ManifestInv, EntersAfresh, CapturesArePast, CapturesAreNewer

\* A process that ends its action keeps what it captured.
LEMMA EndsKeepsFirst ==
    ASSUME ReconcileTypeOK, NEW c \in Procs, NEW outcome, Ends(c, outcome)
    PROVE  /\ \A d \in Procs \ {c} : job'[d] = job[d]
           /\ job'[c].step = "end"
           /\ job'[c].first = job[c].first
           /\ UNCHANGED <<pc, stolen, policy>>
<1>1. job' = [job EXCEPT ![c] = [job[c] EXCEPT !.step = "end", !.outcome = outcome]]
  BY DEF Ends, Works
<1>2. job \in [Procs -> Job] /\ job[c] \in Job
  BY DEF ReconcileTypeOK
<1>3. QED
  BY <1>1, <1>2 DEF Job, Ends, Works, lockVars

\* A step of a process keeps the invariant, and does not set the manifest back.
LEMMA ManifestProcessStep ==
    ASSUME ReconcileTypeOK, LockInv, ManifestInv, NEW c \in Procs, Process(c) \/ Killed(c)
    PROVE  ManifestInv' /\ (~ stolen => manifest' >= manifest)
<1> USE DEF ReconcileTypeOK, LockTypeOK, Policies
<1>1. SerializedChecks
  BY HoldersSerialize
<1>2. job[c] \in Job /\ ReconcileAssumption
  BY ReconcileAssumption
<1>3. CASE TakesLock(c) \/ ReleasesLock(c)
  <2>1. UNCHANGED <<policy, manifest, job>> /\ (~ stolen' => ~ stolen)
    BY <1>3 DEF TakesLock, ReleasesLock, Outside, Acquire, OpenLock, ReadOwner, Judge,
                ReadAgain, BreakLock, WriteToken, Leave, Remove
  <2>2. EntersAfresh'
    BY <1>3, <2>1 DEF ManifestInv, EntersAfresh, TakesLock, ReleasesLock, Acquire, OpenLock,
                ReadOwner, Judge, ReadAgain, BreakLock, WriteToken, Leave, Remove, Becomes, Gives
  <2>3. \A d \in Procs : pc'[d] = "inside" => pc[d] = "inside" \/ job[d].step = "read"
    BY <1>3 DEF ManifestInv, EntersAfresh, TakesLock, ReleasesLock, Acquire, OpenLock,
                ReadOwner, Judge, ReadAgain, BreakLock, WriteToken, Leave, Remove, Becomes, Gives
  <2>4. CapturesAreNewer' /\ CapturesArePast'
    BY <2>1, <2>3 DEF ManifestInv, CapturesAreNewer, CapturesArePast
  <2>5. QED
    BY <1>2, <2>1, <2>2, <2>4 DEF ManifestInv
<1>4. CASE Killed(c)
  BY <1>2, <1>4 DEF Killed, Kill, Outside, Becomes, ManifestInv, EntersAfresh,
                    CapturesArePast, CapturesAreNewer, Job
<1>5. CASE ReadManifest(c)
  BY <1>2, <1>5 DEF ReadManifest, At, Works, lockVars, ManifestInv, EntersAfresh,
                    CapturesArePast, CapturesAreNewer, Job
<1>6. ASSUME NEW outcome, Ends(c, outcome), pc[c] = "inside", manifest' = manifest
      PROVE  ManifestInv' /\ manifest' >= manifest
  <2>1. UNCHANGED <<pc, stolen, policy, manifest>> /\ job'[c].step = "end"
    BY <1>6, EndsKeepsFirst
  <2>2. \A d \in Procs : d # c => job'[d] = job[d]
    BY <1>6, EndsKeepsFirst
  <2>3. job'[c].first = job[c].first
    BY <1>6, EndsKeepsFirst
  <2>4. QED
    BY <1>2, <1>6, <2>1, <2>2, <2>3
       DEF ManifestInv, EntersAfresh, CapturesArePast, CapturesAreNewer
<1>7. CASE FirstCapture(c)
  <2>1. CASE job[c].local = policy
    BY <1>6, <1>7, <2>1 DEF FirstCapture, At
  <2>2. CASE job[c].local # policy
    <3>1. /\ UNCHANGED <<pc, stolen, policy, manifest>>
          /\ job' = [job EXCEPT ![c] = [job[c] EXCEPT !.step = "second", !.first = policy]]
      BY <1>7, <2>2 DEF FirstCapture, Works, lockVars
    <3>2. job'[c].first = policy /\ \A d \in Procs : d # c => job'[d] = job[d]
      BY <1>2, <3>1 DEF Job
    <3>3. EntersAfresh' /\ CapturesArePast' /\ CapturesAreNewer'
      BY <1>2, <1>7, <3>1, <3>2 DEF FirstCapture, At, ManifestInv, EntersAfresh,
                    CapturesArePast, CapturesAreNewer
    <3>4. QED
      BY <1>2, <3>1, <3>3 DEF ManifestInv
  <2>3. QED
    BY <2>1, <2>2
<1>8. CASE SecondCapture(c)
  <2>1. CASE job[c].first = policy
    <3>1. /\ UNCHANGED <<pc, stolen, policy, manifest>>
          /\ job' = [job EXCEPT ![c] = [job[c] EXCEPT !.step = "write"]]
      BY <1>8, <2>1 DEF SecondCapture, Works, lockVars
    <3>2. job'[c].first = job[c].first /\ \A d \in Procs : d # c => job'[d] = job[d]
      BY <1>2, <3>1 DEF Job
    <3>3. EntersAfresh' /\ CapturesArePast' /\ CapturesAreNewer'
      BY <1>2, <1>8, <3>1, <3>2 DEF SecondCapture, At, ManifestInv, EntersAfresh,
                    CapturesArePast, CapturesAreNewer
    <3>4. QED
      BY <1>2, <3>1, <3>3 DEF ManifestInv
  <2>2. CASE job[c].first # policy
    BY <1>6, <1>8, <2>2 DEF SecondCapture, At
  <2>3. QED
    BY <2>1, <2>2
<1>9. CASE WriteManifest(c)
  <2>1. pc[c] = "inside" /\ job[c].step = "write" /\ manifest' = job[c].first
    BY <1>9 DEF WriteManifest, At
  <2>2. /\ UNCHANGED <<pc, stolen, policy>> /\ job'[c].step = "end"
        /\ job'[c].first = job[c].first
        /\ \A d \in Procs : d # c => job'[d] = job[d]
    BY <1>9, EndsKeepsFirst DEF WriteManifest
  <2>3. ~ stolen => \A d \in Procs : pc[d] = "inside" => d = c
    BY <1>1, <2>1 DEF SerializedChecks
  <2>4. manifest' <= policy' /\ (~ stolen => manifest' >= manifest)
    BY <1>2, <2>1, <2>2 DEF ManifestInv, CapturesArePast, CapturesAreNewer
  <2>5. EntersAfresh' /\ CapturesArePast'
    BY <2>1, <2>2 DEF ManifestInv, EntersAfresh, CapturesArePast
  <2>6. CapturesAreNewer'
    BY <2>2, <2>3 DEF CapturesAreNewer
  <2>7. QED
    BY <2>4, <2>5, <2>6 DEF ManifestInv
<1>10. CASE Fails(c)
  BY <1>6, <1>10 DEF Fails, At
<1>11. QED
  BY <1>3, <1>4, <1>5, <1>7, <1>8, <1>9, <1>10 DEF Process

\* Edits move the policy on; sessions touch neither it nor the manifest.
LEMMA ManifestOtherStep ==
    ASSUME ReconcileTypeOK, ManifestInv,
           UNCHANGED reconcileVars \/ Edit \/ \E s \in OmpSessions : Session(s)
    PROVE  ManifestInv' /\ manifest' >= manifest
<1> USE ReconcileAssumption DEF ReconcileTypeOK, LockTypeOK, Policies, ManifestInv, EntersAfresh,
                    CapturesArePast, CapturesAreNewer
<1>1. CASE UNCHANGED reconcileVars
  BY <1>1 DEF reconcileVars, lockVars
<1>2. CASE Edit
  BY <1>2 DEF Edit, lockVars, Job
<1>3. ASSUME NEW s \in OmpSessions, Session(s)
      PROVE  ManifestInv' /\ manifest' >= manifest
  <2>1. UNCHANGED <<policy, manifest, job, stolen>>
    BY <1>3 DEF Session, Check, Start, Reply, Refresh, OmpRefresh, FetchEnds, FetchFails,
                MinutePasses, Files, lockVars
  <2>2. EntersAfresh' /\ \A c \in Procs : pc'[c] = "inside" => pc[c] = "inside"
    BY <1>3, <2>1 DEF Session, Check, Start, Becomes, Reply, Refresh, OmpRefresh, FetchEnds,
                FetchFails, MinutePasses, lockVars
  <2>3. QED
    BY <2>1, <2>2
<1>4. QED
  BY <1>1, <1>2, <1>3

\* Until a lock is stolen the manifest is only replaced by one of a later
\* policy: both captures of a check and its write happen inside the lock.
THEOREM ManifestAdvances == ReconcileSpec => ManifestNeverRegresses
<1>1. ReconcileSpec => []LockInv
  BY ImplementsLock, LockInvariance, PTL
<1>2. ReconcileTypeOK /\ LockInv /\ ManifestInv /\ [ReconcileNext]_reconcileVars
        => ManifestInv' /\ (~ stolen => manifest' >= manifest)
  <2> SUFFICES ASSUME ReconcileTypeOK, LockInv, ManifestInv, [ReconcileNext]_reconcileVars
               PROVE  ManifestInv' /\ (~ stolen => manifest' >= manifest)
    OBVIOUS
  <2>1. CASE \E c \in Procs : Process(c) \/ Killed(c)
    BY <2>1, ManifestProcessStep
  <2>2. CASE UNCHANGED reconcileVars \/ Edit \/ \E s \in OmpSessions : Session(s)
    BY <2>2, ManifestOtherStep
  <2>3. QED
    BY <2>1, <2>2 DEF ReconcileNext
<1>3. ReconcileTypeOK /\ LockInv /\ ManifestInv /\ [ReconcileNext]_reconcileVars
        => ManifestInv' /\ [~ stolen => manifest' >= manifest]_reconcileVars
  BY <1>2
<1>4. QED
  BY Types, InitManifestInv, <1>1, <1>3, PTL DEF ReconcileSpec, ManifestNeverRegresses

-----------------------------------------------------------------------------
\* A reply of "updated" comes from an action that has ended.
RepliesAtEnd == \A c \in Procs : job[c].outcome = "updated" => job[c].step = "end"

\* What a process says it has written the manifest has not fallen behind.
RepliesWritten ==
    ~ stolen => \A c \in Procs : job[c].outcome = "updated" => job[c].first <= manifest

\* Nor has it fallen behind an update a session was told of.
UpdatesWritten == ~ stolen => \A s \in OmpSessions : told[s] <= manifest

\* A check that waits for a fetch is one of those that want its models.
WaitersAreServed == \A s \in OmpSessions : check[s].phase = "waiting" => fetch[s].wanted

\* A fetch whose models will be registered is for the last update the session
\* was told of, unless it was joined too late or the session has heard of the
\* update since; then another refresh is due.
FetchesAreNewer ==
    ~ stolen =>
        \A s \in OmpSessions :
            fetch[s].wanted /\ ~ fetch[s].late
                => \/ told[s] <= fetch[s].policy
                   \/ s \in needsRefresh /\ check[s].phase # "waiting"

UpdateInv ==
    /\ RepliesAtEnd /\ RepliesWritten /\ UpdatesWritten
    /\ WaitersAreServed /\ FetchesAreNewer
    /\ UpdateNotForgotten

\* Nobody has been told anything in the initial states.
LEMMA InitUpdateInv == ReconcileInit => UpdateInv
<1> SUFFICES ASSUME ReconcileInit PROVE UpdateInv
  OBVIOUS
<1>1. manifest \in Nat /\ \A s \in OmpSessions : told[s] = 0 /\ models[s] = manifest
  BY DEF ReconcileInit
<1>2. RepliesAtEnd /\ RepliesWritten
  BY DEF ReconcileInit, RepliesAtEnd, RepliesWritten
<1>3. UpdatesWritten /\ UpdateNotForgotten
  BY <1>1 DEF UpdatesWritten, UpdateNotForgotten
<1>4. WaitersAreServed /\ FetchesAreNewer
  BY DEF ReconcileInit, Idle, NoFetch, WaitersAreServed, FetchesAreNewer
<1>5. QED
  BY <1>2, <1>3, <1>4 DEF UpdateInv

\* A lock that was stolen stays so.
LEMMA StolenForever ==
    ASSUME [ReconcileNext]_reconcileVars
    PROVE  ~ stolen' => ~ stolen
<1>1. [LockNext]_lockVars
  BY StepImplementsLock
<1>2. CASE UNCHANGED lockVars
  BY <1>2 DEF lockVars
<1>3. CASE LockNext
  BY <1>3 DEF LockNext, Start, Acquire, OpenLock, ReadOwner, Judge, ReadAgain, BreakLock, WriteToken,
              Leave, Remove, Kill
<1>4. QED
  BY <1>1, <1>2, <1>3

\* A step of a process: its reply is what it has just written.
LEMMA UpdateProcessStep ==
    ASSUME ReconcileTypeOK, LockInv, ManifestInv, UpdateInv, [ReconcileNext]_reconcileVars,
           NEW c \in Procs, Process(c) \/ Killed(c)
    PROVE  UpdateInv'
<1> USE DEF ReconcileTypeOK, LockTypeOK, Policies
<1>1. job[c] \in Job /\ ReconcileAssumption
  BY ReconcileAssumption
<1>2. (~ stolen => manifest' >= manifest) /\ (~ stolen' => ~ stolen)
  BY ManifestProcessStep, StolenForever
<1>3. UNCHANGED <<check, needsRefresh, models, fetch, told, joined>> /\ manifest' \in Nat
  <2>1. UNCHANGED sessionVars
    BY DEF Process, TakesLock, ReleasesLock, ReadManifest, FirstCapture, SecondCapture,
           WriteManifest, Fails, Killed, Ends, Works, Outside
  <2>2. manifest' \in {manifest, job[c].first}
    BY DEF Process, TakesLock, ReleasesLock, ReadManifest, FirstCapture, SecondCapture,
           WriteManifest, Fails, Killed, Outside
  <2>3. QED
    BY <1>1, <2>1, <2>2 DEF sessionVars, Job
<1>4. /\ UpdatesWritten' /\ WaitersAreServed' /\ FetchesAreNewer' /\ UpdateNotForgotten'
  <2>1. \A s \in OmpSessions : told[s] \in Nat
    OBVIOUS
  <2>2. UpdatesWritten'
    BY <1>2, <1>3, <2>1 DEF UpdateInv, UpdatesWritten
  <2>3. WaitersAreServed'
    BY <1>3 DEF UpdateInv, WaitersAreServed
  <2>4. FetchesAreNewer'
    BY <1>2, <1>3 DEF UpdateInv, FetchesAreNewer
  <2>5. UpdateNotForgotten'
    BY <1>2, <1>3 DEF UpdateInv, UpdateNotForgotten
  <2>6. QED
    BY <2>2, <2>3, <2>4, <2>5
<1>5. ASSUME \A d \in Procs : job'[d].outcome = "updated" =>
                 /\ job'[d].step = "end"
                 /\ \/ job[d].outcome = "updated" /\ job'[d].first = job[d].first
                    \/ job'[d].first = manifest'
      PROVE  UpdateInv'
  <2>1. RepliesAtEnd'
    BY <1>5 DEF RepliesAtEnd
  <2>2. \A d \in Procs : job[d].first \in Nat
    BY DEF Job
  <2>3. RepliesWritten'
    BY <1>2, <1>3, <1>5, <2>2 DEF UpdateInv, RepliesWritten
  <2>4. QED
    BY <1>4, <2>1, <2>3 DEF UpdateInv
<1>6. CASE TakesLock(c) \/ ReleasesLock(c)
  BY <1>5, <1>6 DEF TakesLock, ReleasesLock, UpdateInv, RepliesAtEnd
<1>7. ASSUME NEW j, job' = [job EXCEPT ![c] = j],
             j.outcome = "updated" =>
                 /\ j.step = "end"
                 /\ \/ job[c].outcome = "updated" /\ j.first = job[c].first
                    \/ j.first = manifest'
      PROVE  UpdateInv'
  <2>1. job'[c] = j /\ \A d \in Procs : d # c => job'[d] = job[d]
    BY <1>7
  <2>2. QED
    BY <1>5, <1>7, <2>1 DEF UpdateInv, RepliesAtEnd
<1>8. \A outcome : Ends(c, outcome) =>
          job' = [job EXCEPT ![c] = [job[c] EXCEPT !.step = "end", !.outcome = outcome]]
  BY DEF Ends, Works
<1>9. \A outcome \in {"failed", "unchanged", "updated"} :
          /\ [job[c] EXCEPT !.step = "end", !.outcome = outcome].outcome = outcome
          /\ [job[c] EXCEPT !.step = "end", !.outcome = outcome].step = "end"
          /\ [job[c] EXCEPT !.step = "end", !.outcome = outcome].first = job[c].first
  BY <1>1 DEF Job
<1>10. \A outcome \in {"failed", "unchanged"} : Ends(c, outcome) => UpdateInv'
  <2> SUFFICES ASSUME NEW outcome \in {"failed", "unchanged"}, Ends(c, outcome)
               PROVE  UpdateInv'
    OBVIOUS
  <2> DEFINE j == [job[c] EXCEPT !.step = "end", !.outcome = outcome]
  <2>1. job' = [job EXCEPT ![c] = j]
    BY <1>8
  <2>2. j.outcome # "updated"
    BY <1>9
  <2> HIDE DEF j
  <2>3. QED
    BY <1>7, <2>1, <2>2
<1>11. job[c].step # "end" => job[c].outcome # "updated"
  BY DEF UpdateInv, RepliesAtEnd
<1>12. CASE ReadManifest(c)
  <2>1. job' = [job EXCEPT ![c] = [job[c] EXCEPT !.step = "first", !.local = manifest]]
    BY <1>12 DEF ReadManifest, Works
  <2>2. [job[c] EXCEPT !.step = "first", !.local = manifest].outcome # "updated"
    BY <1>1, <1>11, <1>12 DEF ReadManifest, At, Job
  <2>3. QED
    BY <1>7, <2>1, <2>2
<1>13. CASE FirstCapture(c)
  <2>1. CASE job[c].local = policy
    BY <1>10, <1>13, <2>1 DEF FirstCapture
  <2>2. CASE job[c].local # policy
    <3>1. job' = [job EXCEPT ![c] = [job[c] EXCEPT !.step = "second", !.first = policy]]
      BY <1>13, <2>2 DEF FirstCapture, Works
    <3>2. [job[c] EXCEPT !.step = "second", !.first = policy].outcome # "updated"
      BY <1>1, <1>11, <1>13 DEF FirstCapture, At, Job
    <3>3. QED
      BY <1>7, <3>1, <3>2
  <2>3. QED
    BY <2>1, <2>2
<1>14. CASE SecondCapture(c)
  <2>1. CASE job[c].first = policy
    <3>1. job' = [job EXCEPT ![c] = [job[c] EXCEPT !.step = "write"]]
      BY <1>14, <2>1 DEF SecondCapture, Works
    <3>2. [job[c] EXCEPT !.step = "write"].outcome # "updated"
      BY <1>1, <1>11, <1>14 DEF SecondCapture, At, Job
    <3>3. QED
      BY <1>7, <3>1, <3>2
  <2>2. CASE job[c].first # policy
    BY <1>10, <1>14, <2>2 DEF SecondCapture
  <2>3. QED
    BY <2>1, <2>2
<1>15. CASE WriteManifest(c)
  <2>1. manifest' = job[c].first /\ Ends(c, "updated")
    BY <1>15 DEF WriteManifest
  <2>2. QED
    BY <1>7, <1>8, <1>9, <2>1
<1>16. CASE Fails(c)
  BY <1>10, <1>16 DEF Fails
<1>17. CASE Killed(c)
  <2>1. job' = [job EXCEPT ![c] = [job[c] EXCEPT !.outcome = "failed"]]
    BY <1>17 DEF Killed
  <2>2. [job[c] EXCEPT !.outcome = "failed"].outcome = "failed"
    BY <1>1 DEF Job
  <2>3. QED
    BY <1>7, <2>1, <2>2
<1>18. QED
  BY <1>6, <1>12, <1>13, <1>14, <1>15, <1>16, <1>17 DEF Process

\* A step of a session: what it has read or been told of, and what is due.
LEMMA UpdateSessionStep ==
    ASSUME ReconcileTypeOK, ChildNamed, UpdateInv, NEW s \in OmpSessions, Session(s)
    PROVE  UpdateInv'
<1> USE DEF ReconcileTypeOK, LockTypeOK, Policies
<1>1. /\ UNCHANGED <<manifest, job, stolen>>
      /\ \A x \in OmpSessions \ {s} :
            /\ check'[x] = check[x] /\ fetch'[x] = fetch[x] /\ models'[x] = models[x]
            /\ told'[x] = told[x]
            /\ (x \in needsRefresh' <=> x \in needsRefresh)
            /\ (x \in joined' <=> x \in joined)
  <2>1. UNCHANGED <<manifest, job, stolen>>
    BY DEF Session, Check, Start, Reply, Refresh, OmpRefresh, FetchEnds, FetchFails,
           MinutePasses, Files, lockVars
  <2>2. \A x \in OmpSessions \ {s} :
            check'[x] = check[x] /\ (x \in needsRefresh' <=> x \in needsRefresh)
    BY DEF Session, Check, Reply, Refresh, OmpRefresh, FetchEnds, FetchFails,
           MinutePasses, Goes, Refreshed
  <2>3. \A x \in OmpSessions \ {s} :
            fetch'[x] = fetch[x] /\ models'[x] = models[x] /\ told'[x] = told[x]
    BY DEF Session, Check, Reply, Refresh, OmpRefresh, FetchEnds, FetchFails,
           MinutePasses, UseCache, AwaitFetch, JoinOrStart
  <2>4. \A x \in OmpSessions \ {s} : x \in joined' <=> x \in joined
    BY DEF Session, Check, Reply, Refresh, OmpRefresh, FetchEnds, FetchFails,
           MinutePasses, UseCache, AwaitFetch
  <2>5. QED
    BY <2>1, <2>2, <2>3, <2>4
<1> DEFINE Due == s \in needsRefresh /\ check[s].phase # "waiting"
<1>2. ASSUME ~ stolen => told'[s] <= manifest,
             check'[s].phase = "waiting" => fetch'[s].wanted,
             ~ stolen /\ fetch'[s].wanted /\ ~ fetch'[s].late => told'[s] <= fetch'[s].policy \/ Due',
             ~ stolen /\ models'[s] < told'[s] => s \in needsRefresh' \cup joined'
      PROVE  UpdateInv'
  <2>1. RepliesAtEnd' /\ RepliesWritten'
    BY <1>1 DEF UpdateInv, RepliesAtEnd, RepliesWritten
  <2>2. UpdatesWritten'
    BY <1>1, <1>2 DEF UpdateInv, UpdatesWritten
  <2>3. WaitersAreServed'
    BY <1>1, <1>2 DEF UpdateInv, WaitersAreServed
  <2>4. FetchesAreNewer'
    BY <1>1, <1>2 DEF UpdateInv, FetchesAreNewer
  <2>5. UpdateNotForgotten'
    BY <1>1, <1>2 DEF UpdateInv, UpdateNotForgotten
  <2>6. QED
    BY <2>1, <2>2, <2>3, <2>4, <2>5 DEF UpdateInv
\* What the invariant says of this session.
<1>3. /\ ~ stolen => told[s] <= manifest
      /\ check[s].phase = "waiting" => fetch[s].wanted
      /\ ~ stolen /\ fetch[s].wanted /\ ~ fetch[s].late => told[s] <= fetch[s].policy \/ Due
      /\ ~ stolen /\ models[s] < told[s] => s \in needsRefresh \cup joined
  BY DEF UpdateInv, UpdatesWritten, WaitersAreServed, FetchesAreNewer, UpdateNotForgotten
<1>4. /\ check[s] \in PendingCheck /\ fetch[s] \in Fetch
      /\ told[s] \in Nat /\ models[s] \in Nat /\ manifest \in Nat
  OBVIOUS
<1>5. \A phase : Goes(s, phase) => check'[s].phase = phase
  BY DEF Goes
\* What becomes of the fetch when a caller joins it or starts one.
<1>6. ASSUME NEW wanted \in BOOLEAN, JoinOrStart(s, wanted), ~ fetch[s].wanted
      PROVE  /\ fetch'[s].wanted = wanted
             /\ ~ stolen /\ wanted /\ ~ fetch'[s].late => told[s] <= fetch'[s].policy
  <2>1. CASE fetch[s].running
    <3>1. fetch'[s] = Joined(fetch[s], wanted)
      BY <1>6, <2>1 DEF JoinOrStart
    <3>2. /\ Joined(fetch[s], wanted).wanted = (fetch[s].wanted \/ wanted)
          /\ Joined(fetch[s], wanted).policy = fetch[s].policy
          /\ Joined(fetch[s], wanted).late
                = (fetch[s].late \/ (wanted /\ fetch[s].policy # manifest))
      BY <1>4 DEF Joined, Fetch
    <3>3. fetch[s].wanted \in BOOLEAN
      BY <1>4 DEF Fetch
    <3>4. fetch'[s].wanted = wanted
      BY <1>6, <3>1, <3>2, <3>3
    <3>5. ~ fetch'[s].late /\ wanted => fetch'[s].policy = manifest
      BY <3>1, <3>2
    <3>6. QED
      BY <1>3, <3>4, <3>5
  <2>2. CASE ~ fetch[s].running
    <3>1. fetch'[s] = Started(wanted)
      BY <1>6, <2>2 DEF JoinOrStart
    <3>2. QED
      BY <1>3, <3>1 DEF Started
  <2>3. QED
    BY <2>1, <2>2
\* The cached models are those of the manifest.
<1>7. ASSUME UseCache(s), ~ fetch[s].wanted
      PROVE  models'[s] = manifest /\ ~ fetch'[s].wanted
  <2>1. models'[s] = manifest
    BY <1>7 DEF UseCache
  <2>2. CASE JoinOrStart(s, FALSE)
    <3>1. fetch'[s].wanted = FALSE
      BY <1>6, <1>7, <2>2
    <3>2. QED
      BY <2>1, <3>1
  <2>3. QED
    BY <1>7, <2>1, <2>2 DEF UseCache
<1>8. ASSUME AwaitFetch(s), ~ fetch[s].wanted
      PROVE  /\ fetch'[s].wanted
             /\ ~ stolen /\ ~ fetch'[s].late => told[s] <= fetch'[s].policy
             /\ UNCHANGED <<models, joined>>
  BY <1>6, <1>8 DEF AwaitFetch
<1>9. CASE Check(s)
  <2>1. UNCHANGED <<needsRefresh, models, fetch, told, joined>>
    BY <1>9 DEF Check
  <2>2. check'[s].phase \in {"refresh", "child"} /\ check[s].phase = "idle"
    BY <1>5, <1>9 DEF Check, Idle
  <2>3. QED
    BY <1>2, <1>3, <2>1, <2>2
<1>10. CASE MinutePasses(s)
  <2>1. UNCHANGED <<check, needsRefresh, models, fetch, told, joined>>
    BY <1>10 DEF MinutePasses
  <2>2. QED
    BY <1>2, <1>3, <2>1
<1>11. CASE Reply(s)
  <2>1. UNCHANGED <<models, fetch, joined>> /\ check[s].phase = "child"
    BY <1>11 DEF Reply
  <2>2. CASE job[check[s].child].outcome = "updated"
    <3>1. /\ told'[s] = job[check[s].child].first /\ s \in needsRefresh'
          /\ check'[s].phase = "refresh"
      BY <1>5, <1>11, <2>2 DEF Reply
    <3>2. ~ stolen => told'[s] <= manifest
      BY <2>1, <2>2, <3>1 DEF ChildNamed, UpdateInv, RepliesWritten
    <3>3. QED
      BY <1>2, <2>1, <3>1, <3>2
  <2>3. CASE job[check[s].child].outcome # "updated"
    <3>1. UNCHANGED <<told, needsRefresh>> /\ check'[s].phase = "idle"
      BY <1>5, <1>11, <2>3 DEF Reply
    <3>2. QED
      BY <1>2, <1>3, <2>1, <3>1
  <2>4. QED
    BY <2>2, <2>3
<1>12. CASE Refresh(s)
  <2>1. check[s].phase = "refresh" /\ ~ fetch[s].wanted /\ UNCHANGED told
    BY <1>12 DEF Refresh
  <2>2. CASE UseCache(s) /\ Refreshed(s)
    <3>1. check'[s].phase = "idle"
      BY <1>5, <2>2 DEF Refreshed
    <3>2. models'[s] = manifest /\ ~ fetch'[s].wanted
      BY <1>7, <2>1, <2>2
    <3>3. QED
      BY <1>2, <1>3, <1>4, <2>1, <3>1, <3>2
  <2>3. CASE AwaitFetch(s) /\ Goes(s, "waiting") /\ UNCHANGED needsRefresh
    <3>1. /\ fetch'[s].wanted
          /\ ~ stolen /\ ~ fetch'[s].late => told[s] <= fetch'[s].policy
          /\ UNCHANGED <<models, joined>>
      BY <1>8, <2>1, <2>3
    <3>2. QED
      BY <1>2, <1>3, <2>1, <2>3, <3>1
  <2>4. QED
    BY <1>12, <2>2, <2>3 DEF Refresh
<1>13. CASE OmpRefresh(s)
  <2>1. ~ fetch[s].wanted /\ UNCHANGED <<check, needsRefresh, told>>
    BY <1>13 DEF OmpRefresh
  <2>2. check'[s].phase # "waiting"
    BY <1>3, <2>1
  <2>3. CASE UseCache(s)
    <3>1. models'[s] = manifest /\ ~ fetch'[s].wanted
      BY <1>7, <2>1, <2>3
    <3>2. QED
      BY <1>2, <1>3, <1>4, <2>1, <2>2, <3>1
  <2>4. CASE AwaitFetch(s)
    <3>1. /\ fetch'[s].wanted
          /\ ~ stolen /\ ~ fetch'[s].late => told[s] <= fetch'[s].policy
          /\ UNCHANGED <<models, joined>>
      BY <1>8, <2>1, <2>4
    <3>2. QED
      BY <1>2, <1>3, <2>1, <2>2, <3>1
  <2>5. QED
    BY <1>13, <2>3, <2>4 DEF OmpRefresh
<1>14. ASSUME fetch' = [fetch EXCEPT ![s] = NoFetch]
       PROVE  ~ fetch'[s].wanted
  BY <1>14 DEF NoFetch
<1>15. CASE FetchEnds(s)
  <2>1. UNCHANGED told /\ ~ fetch'[s].wanted
    BY <1>14, <1>15 DEF FetchEnds
  <2>2. check'[s].phase # "waiting"
    <3>1. CASE check[s].phase = "waiting"
      BY <1>5, <1>15, <3>1 DEF FetchEnds, Refreshed
    <3>2. CASE check[s].phase # "waiting"
      BY <1>15, <3>2 DEF FetchEnds
    <3>3. QED
      BY <3>1, <3>2
  <2>3. check[s].phase # "waiting" => UNCHANGED needsRefresh
    BY <1>15 DEF FetchEnds
  <2>4. ~ stolen /\ models'[s] < told'[s] => s \in needsRefresh' \cup joined'
    <3>1. CASE ~ fetch[s].wanted
      <4>1. UNCHANGED <<models, joined>>
        BY <1>15, <3>1 DEF FetchEnds
      <4>2. QED
        BY <1>3, <2>1, <2>3, <3>1, <4>1
    <3>2. CASE fetch[s].wanted /\ fetch[s].late
      BY <1>15, <3>2 DEF FetchEnds
    <3>3. CASE fetch[s].wanted /\ ~ fetch[s].late
      <4>1. models'[s] = fetch[s].policy /\ fetch[s].policy \in Nat
        BY <1>4, <1>15, <3>3 DEF FetchEnds, Fetch
      <4>2. QED
        BY <1>3, <1>4, <2>1, <2>3, <3>3, <4>1
    <3>4. QED
      BY <3>1, <3>2, <3>3
  <2>5. QED
    BY <1>2, <1>3, <2>1, <2>2, <2>4
<1>16. CASE FetchFails(s)
  <2>1. UNCHANGED <<needsRefresh, models, told, joined>> /\ ~ fetch'[s].wanted
    BY <1>14, <1>16 DEF FetchFails
  <2>2. check'[s].phase # "waiting"
    <3>1. CASE check[s].phase = "waiting"
      BY <1>5, <1>16, <3>1 DEF FetchFails
    <3>2. CASE check[s].phase # "waiting"
      BY <1>16, <3>2 DEF FetchFails
    <3>3. QED
      BY <3>1, <3>2
  <2>3. QED
    BY <1>2, <1>3, <2>1, <2>2
<1>17. QED
  BY <1>9, <1>10, <1>11, <1>12, <1>13, <1>15, <1>16 DEF Session

\* Nothing else touches what the invariant speaks of.
LEMMA UpdateStep ==
    ASSUME ReconcileTypeOK, ChildNamed, LockInv, ManifestInv, UpdateInv, [ReconcileNext]_reconcileVars
    PROVE  UpdateInv'
<1>1. CASE UNCHANGED reconcileVars \/ Edit
  <2>1. UNCHANGED <<manifest, job, stolen, check, needsRefresh, models, fetch, told, joined>>
    BY <1>1 DEF reconcileVars, lockVars, sessionVars, Edit
  <2>2. QED
    BY <2>1 DEF UpdateInv, RepliesAtEnd, RepliesWritten, UpdatesWritten, WaitersAreServed,
                FetchesAreNewer, UpdateNotForgotten
<1>2. CASE \E c \in Procs : Process(c) \/ Killed(c)
  BY <1>2, UpdateProcessStep
<1>3. CASE \E s \in OmpSessions : Session(s)
  BY <1>3, UpdateSessionStep
<1>4. QED
  BY <1>1, <1>2, <1>3 DEF ReconcileNext

\* An update a session was told of is not forgotten: its models are of that
\* policy or a later one, or a refresh is due, for any sessions and processes
\* and wherever one of them fails or is killed, while no lock is stolen.
THEOREM UpdatesAreKept == ReconcileSpec => []UpdateNotForgotten
<1>1. ReconcileSpec => []LockInv
  BY ImplementsLock, LockInvariance, PTL
<1>2. ReconcileInit => ChildNamed
  BY DEF ReconcileInit, ChildNamed, Idle
<1>3. ReconcileTypeOK /\ ChildNamed /\ [ReconcileNext]_reconcileVars => ChildNamed'
  <2>1. UNCHANGED reconcileVars /\ ChildNamed => ChildNamed'
    BY DEF reconcileVars, sessionVars, ChildNamed
  <2>2. QED
    BY <2>1, ChildNamedStep
<1>4. ReconcileTypeOK /\ LockInv /\ ManifestInv /\ [ReconcileNext]_reconcileVars => ManifestInv'
  <2>1. ASSUME ReconcileTypeOK, LockInv, ManifestInv, [ReconcileNext]_reconcileVars
        PROVE  ManifestInv'
    <3>1. CASE \E c \in Procs : Process(c) \/ Killed(c)
      BY <2>1, <3>1, ManifestProcessStep
    <3>2. CASE UNCHANGED reconcileVars \/ Edit \/ \E s \in OmpSessions : Session(s)
      BY <2>1, <3>2, ManifestOtherStep
    <3>3. QED
      BY <2>1, <3>1, <3>2 DEF ReconcileNext
  <2>2. QED
    BY <2>1
<1>5. ReconcileTypeOK /\ ChildNamed /\ LockInv /\ ManifestInv /\ UpdateInv /\ [ReconcileNext]_reconcileVars => UpdateInv'
  BY UpdateStep
<1>6. UpdateInv => UpdateNotForgotten
  BY DEF UpdateInv
<1>7. QED
  BY Types, InitManifestInv, InitUpdateInv, <1>1, <1>2, <1>3, <1>4, <1>5, <1>6, PTL DEF ReconcileSpec

=============================================================================
