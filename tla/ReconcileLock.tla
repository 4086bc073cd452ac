---------------------------- MODULE ReconcileLock ----------------------------
(***************************************************************************)
(* withReconcileLock of route-reconcile.mjs: the lock file that keeps two  *)
(* route checks from running at once.  Every process takes the lock at     *)
(* most once, so the pid and nonce of its token are the process itself.    *)
(* Each system call is a step of its own; a process may be killed between  *)
(* any two of them.                                                        *)
(***************************************************************************)
EXTENDS Naturals, FiniteSets

CONSTANTS
    Procs,      \* `pifrost routes reconcile` processes
    Nobody,     \* the owner of a file that does not exist
    MaxKills    \* bound: processes killed

ASSUME LockAssumption == Nobody \notin Procs /\ MaxKills \in Nat

VARIABLES
    lock,       \* route-reconcile.lock: who created it, whether the token is written
    pc,         \* where each process is
    saw,        \* owner: the token each process read from an existing lock
    tries,      \* attempt, the loop counter
    kills,      \* how many of MaxKills are spent
    stolen      \* history: a lock other than the one judged dead was unlinked

lockVars == <<lock, pc, saw, tries, kills, stolen>>

NoLock == [owner |-> Nobody, written |-> FALSE]

LockTypeOK ==
    /\ lock \in [owner : Procs \cup {Nobody}, written : BOOLEAN]
    /\ pc \in [Procs -> {"idle", "open", "found", "judge", "suspect", "breaking",
                         "token", "inside", "leaving", "gone"}]
    /\ saw \in [Procs -> Procs \cup {Nobody}]
    /\ tries \in [Procs -> 0 .. 2]
    /\ kills \in 0 .. MaxKills
    /\ stolen \in BOOLEAN

Becomes(p, place) == pc' = [pc EXCEPT ![p] = place]
Gives(p, ok, place) == Becomes(p, IF ok THEN place ELSE "gone")

\* process.kill(pid, 0); a pid is not reused.
alive(p) == pc[p] # "gone"

LockInit ==
    /\ lock = NoLock
    /\ pc = [p \in Procs |-> "idle"]
    /\ saw = [p \in Procs |-> Nobody]
    /\ tries = [p \in Procs |-> 0]
    /\ kills = 0
    /\ stolen = FALSE

Start(p) ==
    /\ pc[p] = "idle"
    /\ Becomes(p, "open")
    /\ UNCHANGED <<lock, saw, tries, kills, stolen>>

\* openSync(path, "wx")
OpenLock(p) ==
    /\ pc[p] = "open"
    /\ IF lock = NoLock
       THEN lock' = [owner |-> p, written |-> FALSE] /\ Becomes(p, "token")
       ELSE Becomes(p, "found") /\ UNCHANGED lock
    /\ UNCHANGED <<saw, tries, kills, stolen>>

\* The file exists: an unreadable one means that a check is in progress.
ReadOwner(p) ==
    /\ pc[p] = "found"
    /\ saw' = [saw EXCEPT ![p] = lock.owner]
    /\ Gives(p, lock.written, "judge")
    /\ UNCHANGED <<lock, tries, kills, stolen>>

\* Mutation: every lock is taken for a dead process's.
JudgeDead(p) ==
    /\ pc[p] = "judge"
    /\ Becomes(p, "suspect")
    /\ UNCHANGED <<lock, saw, tries, kills, stolen>>

Judge(p) ==
    /\ pc[p] = "judge"
    /\ Gives(p, ~ alive(saw[p]), "suspect")
    /\ UNCHANGED <<lock, saw, tries, kills, stolen>>

\* again.pid = owner.pid and again.nonce = owner.nonce
ReadAgain(p) ==
    /\ pc[p] = "suspect"
    /\ Gives(p, lock.written /\ lock.owner = saw[p], "breaking")
    /\ UNCHANGED <<lock, saw, tries, kills, stolen>>

\* unlinkSync removes whatever file has the name now; on ENOENT it throws.
\* After the second attempt the loop is over.
BreakLock(p) ==
    /\ pc[p] = "breaking"
    /\ lock' = NoLock
    /\ stolen' = (stolen \/ lock.owner \notin {saw[p], Nobody})
    /\ tries' = [tries EXCEPT ![p] = tries[p] + 1]
    /\ Gives(p, lock # NoLock /\ tries[p] = 0, "open")
    /\ UNCHANGED <<saw, kills>>

\* The token goes to the descriptor, wherever that file is by now.
WriteToken(p) ==
    /\ pc[p] = "token"
    /\ lock' = IF lock.owner = p THEN [lock EXCEPT !.written = TRUE] ELSE lock
    /\ Becomes(p, "inside")
    /\ UNCHANGED <<saw, tries, kills, stolen>>

\* The finally block: unlink the file if its token is one's own.
Leave(p) ==
    /\ pc[p] = "inside"
    /\ Gives(p, lock.written /\ lock.owner = p, "leaving")
    /\ UNCHANGED <<lock, saw, tries, kills, stolen>>

Remove(p) ==
    /\ pc[p] = "leaving"
    /\ lock' = NoLock
    /\ stolen' = (stolen \/ lock.owner \notin {p, Nobody})
    /\ Becomes(p, "gone")
    /\ UNCHANGED <<saw, tries, kills>>

\* A crash, or the timeout of pi.exec.
Kill(p) ==
    /\ kills < MaxKills
    /\ pc[p] \notin {"idle", "gone"}
    /\ Becomes(p, "gone")
    /\ kills' = kills + 1
    /\ UNCHANGED <<lock, saw, tries, stolen>>

Acquire(p) ==
    \/ OpenLock(p) \/ ReadOwner(p) \/ Judge(p) \/ ReadAgain(p) \/ BreakLock(p) \/ WriteToken(p)

LockNext ==
    \E p \in Procs : Start(p) \/ Acquire(p) \/ Leave(p) \/ Remove(p) \/ Kill(p)

LockSpec == LockInit /\ [][LockNext]_lockVars

-----------------------------------------------------------------------------
(* Properties.                                                             *)

\* As long as no lock was stolen, at most one process is between writing its
\* token and removing it ("concurrent checks serialize through a short-lived
\* process lock", test/route-reconcile.test.mjs), whoever was killed when.
SerializedChecks ==
    ~ stolen =>
        \A p, q \in Procs :
            pc[p] \in {"inside", "leaving"} /\ pc[q] \in {"inside", "leaving"} => p = q

\* route-reconcile.mjs, of the cleanup of a dead process's lock: "Never steal
\* a lock if its recorded owner changed before deletion."
LockNeverStolen == ~ stolen

=============================================================================
