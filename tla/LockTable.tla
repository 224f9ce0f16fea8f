------------------------------ MODULE LockTable ------------------------------
(***************************************************************************)
(* The global lock table (src/tx/concurrency/lock_table.go) driven by the *)
(* per-transaction concurrency managers (src/tx/concurrency/manager.go).   *)
(*                                                                         *)
(* Every LockTable method runs under lt.mu, so one pass of its loop is one *)
(* step.  A caller that finds the lock unavailable blocks in cond.Wait;    *)
(* a Broadcast (from Unlock, or from the 10 s context.AfterFunc callback)  *)
(* moves every blocked caller to "woken", and a woken caller first checks  *)
(* ctx.Err() and then the lock predicate again.  The deadline itself is    *)
(* the flag expired[t]: it can fire at any moment while t waits.           *)
(*                                                                         *)
(* The transaction side: a read calls Manager.SLock, a write Manager.XLock *)
(* (SLock first, then LockTable.XLock: two separate calls), and commit or  *)
(* rollback calls Manager.Release, which unlocks the recorded blocks one   *)
(* LockTable.Unlock call at a time.  After a "lock abort" the transaction  *)
(* can only roll back.                                                     *)
(***************************************************************************)
EXTENDS Integers, FiniteSetsExt

CONSTANTS Tx,      \* transactions using the table concurrently
          Blocks,  \* lockable blocks (a file's EOF marker is just another block)
          NoBlock  \* no pending request

VARIABLES locks,    \* LockTable.locks; 0 stands for "absent from the map"
          modes,    \* modes[t]: Manager.locks of t, "none" for absent
          pc,       \* where transaction t is
          req       \* t's pending request: its block, whether it is the first
                    \* half of Manager.XLock, and whether the context deadline
                    \* of the current LockTable call has fired

vars == <<locks, modes, pc, req>>

Modes == {"none", "s", "x"}
PCs == {"idle", "sBlocked", "sWoken", "xCall", "xBlocked", "xWoken",
        "failed", "releasing"}
Waiting == {"sBlocked", "sWoken", "xBlocked", "xWoken"}
Request == [blk : Blocks, intent : {"s", "x"}, expired : BOOLEAN]
NoReq == [blk |-> NoBlock, intent |-> "s", expired |-> FALSE]

TypeOK ==
    /\ locks \in [Blocks -> {-1} \cup 0..Cardinality(Tx)]
    /\ modes \in [Tx -> [Blocks -> Modes]]
    /\ pc \in [Tx -> PCs]
    /\ req \in [Tx -> Request \cup {NoReq}]

Init ==
    /\ locks = [b \in Blocks |-> 0]
    /\ modes = [t \in Tx |-> [b \in Blocks |-> "none"]]
    /\ pc = [t \in Tx |-> "idle"]
    /\ req = [t \in Tx |-> NoReq]

-----------------------------------------------------------------------------
(* LockTable helpers *)

getLockVal(b) == locks[b]

hasXLock(b) == getLockVal(b) < 0

hasOtherSLocks(b) == getLockVal(b) > 1

\* cond.Broadcast: every goroutine blocked in cond.Wait wakes up.
WakeUp == [sBlocked |-> "sWoken", xBlocked |-> "xWoken"]

Broadcast(p) == [u \in Tx |-> IF p[u] \in DOMAIN WakeUp THEN WakeUp[p[u]] ELSE p[u]]

\* t's call returns to "to"; the request is over unless Manager.XLock goes on.
Return(t, to, r) ==
    /\ pc' = [pc EXCEPT ![t] = to]
    /\ req' = [req EXCEPT ![t] = IF to = "xCall" THEN r ELSE NoReq]

(* One pass of LockTable.SLock's loop for request r: grant (and record "s"  *)
(* in the manager, then return, or go on to LockTable.XLock if this is     *)
(* Manager.XLock), or block in cond.Wait.                                  *)
SLockPass(t, r) ==
    \/ /\ ~hasXLock(r.blk)
       /\ locks' = [locks EXCEPT ![r.blk] = getLockVal(r.blk) + 1]
       /\ modes' = [modes EXCEPT ![t][r.blk] = "s"]
       /\ Return(t, IF r.intent = "x" THEN "xCall" ELSE "idle", r)
    \/ /\ hasXLock(r.blk)
       /\ pc' = [pc EXCEPT ![t] = "sBlocked"]
       /\ req' = [req EXCEPT ![t] = r]
       /\ UNCHANGED <<locks, modes>>

(* One pass of LockTable.XLock's loop (the caller holds "s" on the block), *)
(* with Manager.XLock recording "x" on success.                            *)
XLockPass(t, r) ==
    \/ /\ ~hasOtherSLocks(r.blk)
       /\ locks' = [locks EXCEPT ![r.blk] = -1]
       /\ modes' = [modes EXCEPT ![t][r.blk] = "x"]
       /\ Return(t, "idle", r)
    \/ /\ hasOtherSLocks(r.blk)
       /\ pc' = [pc EXCEPT ![t] = "xBlocked"]
       /\ req' = [req EXCEPT ![t] = r]
       /\ UNCHANGED <<locks, modes>>

\* ctx.Err() after cond.Wait: "lock abort".
LockAbort(t) ==
    /\ req[t].expired
    /\ Return(t, "failed", req[t])
    /\ UNCHANGED <<locks, modes>>

-----------------------------------------------------------------------------
(* Transaction operations *)

\* Transaction.GetInt & co: Manager.SLock, which calls LockTable.SLock
\* only when t records no lock on b.
SLock(t, b) ==
    /\ pc[t] = "idle"
    /\ modes[t][b] = "none"
    /\ SLockPass(t, [blk |-> b, intent |-> "s", expired |-> FALSE])

\* Mutation-testing variant: Manager.XLock calling LockTable.XLock without
\* first taking the shared lock that XLock assumes (spec.md 9).
XLockWithoutSLock(t, b) ==
    /\ pc[t] = "idle"
    /\ modes[t][b] # "x"
    /\ XLockPass(t, [blk |-> b, intent |-> "x", expired |-> FALSE])

\* Transaction.SetInt & co: Manager.XLock, unless t already records "x".
\* With no lock yet it starts with LockTable.SLock; holding "s" it calls
\* LockTable.XLock directly.
XLock(t, b) ==
    /\ pc[t] = "idle"
    /\ LET r == [blk |-> b, intent |-> "x", expired |-> FALSE]
       IN  \/ modes[t][b] = "none" /\ SLockPass(t, r)
           \/ modes[t][b] = "s" /\ XLockPass(t, r)

\* Manager.XLock's second call, LockTable.XLock, with a fresh deadline.
CallXLock(t) ==
    /\ pc[t] = "xCall"
    /\ XLockPass(t, [req[t] EXCEPT !.expired = FALSE])

\* The context.AfterFunc callback: the deadline fires, takes lt.mu and
\* broadcasts.
Deadline(t) ==
    /\ pc[t] \in Waiting
    /\ ~req[t].expired
    /\ req' = [req EXCEPT ![t].expired = TRUE]
    /\ pc' = Broadcast(pc)
    /\ UNCHANGED <<locks, modes>>

\* A woken caller reacquires lt.mu: ctx.Err() first, then the loop's
\* predicate again.
WokenSLock(t) ==
    /\ pc[t] = "sWoken"
    /\ \/ LockAbort(t)
       \/ ~req[t].expired /\ SLockPass(t, req[t])

\* Mutation-testing variant: the loop goes back to its predicate without
\* checking ctx.Err() after cond.Wait.
WokenXLockIgnoringDeadline(t) ==
    /\ pc[t] = "xWoken"
    /\ XLockPass(t, req[t])

WokenXLock(t) ==
    /\ pc[t] = "xWoken"
    /\ \/ LockAbort(t)
       \/ ~req[t].expired /\ XLockPass(t, req[t])

\* Commit or Rollback reaches Manager.Release (after a lock abort only
\* Rollback is left).
Release(t) ==
    /\ pc[t] \in {"idle", "failed"}
    /\ pc' = [pc EXCEPT ![t] = "releasing"]
    /\ UNCHANGED <<locks, modes, req>>

\* Mutation-testing variant: Unlock decrements every entry, the exclusive
\* marker -1 included.
UnlockAlwaysDecrements(t, b) ==
    /\ pc[t] = "releasing"
    /\ modes[t][b] # "none"
    /\ modes' = [modes EXCEPT ![t][b] = "none"]
    /\ locks' = [locks EXCEPT ![b] = getLockVal(b) - 1]
    /\ pc' = IF locks'[b] = 0 THEN Broadcast(pc) ELSE pc
    /\ UNCHANGED req

\* One iteration of Release's loop: LockTable.Unlock(b).  The manager's
\* entry is dropped with it (Release clears its map when the loop ends;
\* nothing reads the map in between).
Unlock(t, b) ==
    /\ pc[t] = "releasing"
    /\ modes[t][b] # "none"
    /\ modes' = [modes EXCEPT ![t][b] = "none"]
    /\ \/ /\ getLockVal(b) > 1
          /\ locks' = [locks EXCEPT ![b] = getLockVal(b) - 1]
          /\ UNCHANGED pc
       \/ /\ getLockVal(b) <= 1
          /\ locks' = [locks EXCEPT ![b] = 0]
          /\ pc' = Broadcast(pc)
    /\ UNCHANGED req

\* Release has returned: the transaction is over and its goroutine starts
\* a new one with an empty manager.
Finished(t) ==
    /\ pc[t] = "releasing"
    /\ \A b \in Blocks : modes[t][b] = "none"
    /\ pc' = [pc EXCEPT ![t] = "idle"]
    /\ UNCHANGED <<locks, modes, req>>

Next ==
    \E t \in Tx :
        \/ CallXLock(t)
        \/ Deadline(t)
        \/ WokenSLock(t)
        \/ WokenXLock(t)
        \/ Release(t)
        \/ Finished(t)
        \/ \E b \in Blocks : SLock(t, b) \/ XLock(t, b) \/ Unlock(t, b)

\* The deadline timer always fires, and a woken or returning goroutine is
\* rescheduled: both are the runtime's doing, not the application's.
Fairness ==
    \A t \in Tx :
        /\ WF_vars(Deadline(t))
        /\ WF_vars(WokenSLock(t))
        /\ WF_vars(WokenXLock(t))
        /\ WF_vars(CallXLock(t))

Spec == Init /\ [][Next]_vars /\ Fairness

-----------------------------------------------------------------------------
(* Properties *)

\* The table agrees with the managers: locks[b] is -1 exactly when one
\* transaction records "x" on b and no other records anything, and
\* otherwise counts the transactions recording "s".  Broken by an XLock
\* granted to a caller that does not hold "s", or by an Unlock that drops
\* the wrong count.
TableMatchesHolders ==
    \A b \in Blocks :
        LET sHolders == Quantify(Tx, LAMBDA t : modes[t][b] = "s")
            xHolders == Quantify(Tx, LAMBDA t : modes[t][b] = "x")
        IN  IF locks[b] = -1 THEN xHolders = 1 /\ sHolders = 0
                             ELSE xHolders = 0 /\ locks[b] = sHolders

\* Every LockTable.SLock/XLock call that blocks returns: the lock is
\* granted or the 10 s deadline turns it into a lock abort.  This is what
\* resolves the upgrade deadlock of two writers holding "s" on one block.
RequestsReturn == \A t \in Tx : (pc[t] \in Waiting) ~> (pc[t] \notin Waiting)

\* No waiter is left asleep in cond.Wait while the condition it waits for
\* holds: an upgrade waiting for the other shared holders to leave must be
\* woken when they have.
NoStrandedWaiter ==
    \A t \in Tx :
        /\ pc[t] = "sBlocked" => hasXLock(req[t].blk)
        /\ pc[t] = "xBlocked" => hasOtherSLocks(req[t].blk)
=============================================================================
