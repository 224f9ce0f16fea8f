------------------------------ MODULE Recovery ------------------------------
(***************************************************************************)
(* Undo-only logging and restart recovery of mydb, across process crashes. *)
(*                                                                         *)
(* Models tx/recovery_manager.go (Commit, Rollback, Recover, doRollback,   *)
(* doRecover), the Transaction wrappers of src/unnamed/part_005, the       *)
(* dirty-frame flush of buffer/buffer.go (Buffer.flush, Manager.FlushAll,  *)
(* eviction through assignToBlock) and the LSN bookkeeping of              *)
(* log/manager.go (Append, Flush, Iterator, flush).                        *)
(*                                                                         *)
(* The data of a block is one integer slot; a frame is abstracted to the   *)
(* block it holds.  The log is the sequence of every record appended since *)
(* the database was created; its durable part is the prefix of length      *)
(* sessBase + lastSavedLSN, and a crash truncates the log to it.  LSNs are *)
(* per process (latestLSN starts at 0 in log.NewManager), as are           *)
(* transaction numbers (nextTxNum starts at 0 in each process).  Records   *)
(* are decoded the way the 32-bit build decodes them (utils.IntSize = 4),  *)
(* the build in which the log layout is consistent; see LogLayout.tla for  *)
(* the 64-bit build.                                                       *)
(***************************************************************************)
EXTENDS Integers, Sequences, FiniteSets

CONSTANTS
    Blocks,       \* data blocks
    Vals,         \* values written by transactions
    NoBlock,      \* the block field of records that name none
    MaxTx,        \* transaction numbers handed out per process
    MaxSessions,  \* processes: the first run and the restarts after crashes
    MaxLog,       \* bound on the length of the log
    Readers       \* transactions whose reads the seen history records

ASSUME MaxTx >= 1 /\ MaxSessions >= 1 /\ MaxLog >= 1 /\ Readers \subseteq 1 .. MaxTx

TxNums == 1 .. MaxTx
\* The transaction the boot protocol creates first: nextTxNumber() returns 1.
RecoveryTx == 1
\* A newly appended block reads as zeros (file.Manager.Read at EOF).
InitVal == 0
AllVals == Vals \cup {InitVal}
\* The seen entry of a block the transaction has not read.
NotRead == -1
\* LogRecordType codes, tx/log_record.go:11-22.
RollbackTag == 3

Ops == {"Checkpoint", "Start", "Commit", "Rollback", "SetInt"}
\* A log record.  sess and new are history only: no code reads them.
Records == [op : Ops, tx : TxNums \cup {-1}, blk : Blocks \cup {NoBlock},
            old : AllVals, new : AllVals, sess : 1 .. MaxSessions]

TxStates == {"unused", "active", "committing", "rollingBack", "aborted",
             "done", "recovering"}

VARIABLES
    log,          \* every record appended, oldest first
    sessBase,     \* length of the log when this process started
    lastSavedLSN, \* log.Manager.lastSavedLSN
    disk,         \* block contents on disk
    diskRec,      \* history: index of the last logged update the disk image holds
    buf,          \* buffer frames, per block
    owner,        \* holder of the exclusive lock on each block, 0 if none
    st,           \* state of each transaction of this process
    cursor,       \* index of the next record a log iterator returns
    finished,     \* doRecover's finishedTransactions
    nextTxNum,    \* the package counter of tx.nextTxNumber
    session,      \* history: number of the running process
    phase,        \* "recovering" until the boot recovery returns
    slocks,       \* per block, the transactions whose concurrency.Manager holds "s"
    seen          \* history: the value each reader last read of each block

vars == <<log, sessBase, lastSavedLSN, disk, diskRec, buf, owner, st, cursor,
          finished, nextTxNum, session, phase, slocks, seen>>

Frames == [cached : BOOLEAN, val : AllVals, txnum : TxNums \cup {-1},
           lsn : Int, rec : Nat]
NotCached == [cached |-> FALSE, val |-> InitVal, txnum |-> -1, lsn |-> -1, rec |-> 0]

TypeOK ==
    /\ log \in Seq(Records) /\ Len(log) <= MaxLog
    /\ sessBase \in 0 .. Len(log)
    /\ lastSavedLSN \in 0 .. Len(log) - sessBase
    /\ disk \in [Blocks -> AllVals]
    /\ diskRec \in [Blocks -> 0 .. Len(log)]
    /\ buf \in [Blocks -> Frames]
    /\ owner \in [Blocks -> {0} \cup TxNums]
    /\ st \in [TxNums -> TxStates]
    /\ cursor \in [TxNums -> 0 .. Len(log)]
    /\ finished \subseteq TxNums \cup {RollbackTag, -1}
    /\ nextTxNum \in 0 .. MaxTx
    /\ session \in 1 .. MaxSessions
    /\ phase \in {"recovering", "normal"}
    /\ slocks \in [Blocks -> SUBSET TxNums]
    /\ seen \in [Readers -> [Blocks -> AllVals \cup {NotRead}]]

-----------------------------------------------------------------------------
(* Log manager *)

\* log.Manager.latestLSN: records appended by this process.
LatestLSN == Len(log) - sessBase

\* Number of records on disk.
Durable == sessBase + lastSavedLSN

\* Manager.Flush(lsn): write the log page only if lsn is not known saved.
SavedAfterFlush(lsn) ==
    IF lsn >= lastSavedLSN THEN LatestLSN ELSE lastSavedLSN

\* Decoding of the transaction number: CheckpointRecord.TxNumber is -1, and
\* NewRollbackRecord reads it at operationPos * IntSize = 0, the tag.
DecodedTx(r) ==
    CASE r.op = "Checkpoint" -> -1
      [] r.op = "Rollback"   -> RollbackTag
      [] OTHER               -> r.tx

TxRecord(op, n) ==
    [op |-> op, tx |-> n, blk |-> NoBlock, old |-> InitVal, new |-> InitVal,
     sess |-> session]

-----------------------------------------------------------------------------
(* Buffer pool *)

\* The frame holding b, read from disk by assignToBlock if b is not cached.
Page(b) ==
    IF buf[b].cached THEN buf[b]
    ELSE [cached |-> TRUE, val |-> disk[b], txnum |-> -1, lsn |-> -1,
          rec |-> diskRec[b]]

Visible(b) == Page(b).val

\* Manager.FlushAll(n) flushes the frames whose modifyingTxn is n.
DirtyBy(n) == {b \in Blocks : buf[b].cached /\ buf[b].txnum = n}

\* Mutant: the frames are written without forcing the log first.
FlushAllLogSavedNoForce(n) == lastSavedLSN

\* Buffer.flush forces the log up to the frame's lsn before the page write.
FlushAllLogSaved(n) ==
    IF \E b \in DirtyBy(n) : buf[b].lsn >= lastSavedLSN
    THEN LatestLSN ELSE lastSavedLSN

\* Buffer.SetModified: the frame records the modifying transaction, and the
\* lsn only when the update was logged (lsn >= 0).
SetModified(p, txnNum, lsn) ==
    [p EXCEPT !.txnum = txnNum, !.lsn = IF lsn >= 0 THEN lsn ELSE @]

FlushAll(n) ==
    /\ disk' = [b \in Blocks |-> IF b \in DirtyBy(n) THEN buf[b].val ELSE disk[b]]
    /\ diskRec' = [b \in Blocks |-> IF b \in DirtyBy(n) THEN buf[b].rec ELSE diskRec[b]]
    /\ buf' = [b \in Blocks |-> IF b \in DirtyBy(n)
                                THEN [buf[b] EXCEPT !.txnum = -1] ELSE buf[b]]

Unlocked(n) == [b \in Blocks |-> IF owner[b] = n THEN 0 ELSE owner[b]]

\* concurrency.Manager.Release also gives up n's shared locks.
Released(n) == [b \in Blocks |-> slocks[b] \ {n}]

\* History: a finished transaction's reads are no longer compared.
Forgotten(n) == IF n \in Readers THEN [seen EXCEPT ![n] = [b \in Blocks |-> NotRead]]
                ELSE seen

\* History: n read v from b.
Saw(n, b, v) == IF n \in Readers THEN [seen EXCEPT ![n][b] = v] ELSE seen

\* concurrency.Manager.XLock: SLock first (LockTable.SLock waits while
\* another transaction holds the exclusive lock), then LockTable.XLock,
\* which waits while hasOtherSLocks: anyone but n holding a shared lock.
XLockGrantable(n, b) == owner[b] \in {0, n} /\ slocks[b] \subseteq {n}

-----------------------------------------------------------------------------
(* Initial state: the boot protocol has created the recovery transaction  *)
(* on an empty database and called its Recover.                          *)
Init ==
    /\ log = << >>
    /\ sessBase = 0
    /\ lastSavedLSN = 0
    /\ disk = [b \in Blocks |-> InitVal]
    /\ diskRec = [b \in Blocks |-> 0]
    /\ buf = [b \in Blocks |-> NotCached]
    /\ owner = [b \in Blocks |-> 0]
    /\ st = [n \in TxNums |-> IF n = RecoveryTx THEN "recovering" ELSE "unused"]
    /\ cursor = [n \in TxNums |-> 0]
    /\ finished = {}
    /\ nextTxNum = RecoveryTx
    /\ session = 1
    /\ phase = "recovering"
    /\ slocks = [b \in Blocks |-> {}]
    /\ seen = [n \in Readers |-> [b \in Blocks |-> NotRead]]

\* NewTransaction: takes the next number; no Start record is written.
Begin(n) ==
    /\ phase = "normal"
    /\ n = nextTxNum + 1
    /\ nextTxNum' = n
    /\ st' = [st EXCEPT ![n] = "active"]
    /\ UNCHANGED <<log, sessBase, lastSavedLSN, disk, diskRec, buf, owner,
                   cursor, finished, session, phase, slocks, seen>>

\* Mutant: GetInt reads the buffer without calling SLock.
GetIntNoSLock(n, b) ==
    /\ phase = "normal"
    /\ st[n] = "active"
    /\ seen' = Saw(n, b, Visible(b))
    /\ UNCHANGED <<log, sessBase, lastSavedLSN, disk, diskRec, buf, owner, st,
                   cursor, finished, nextTxNum, session, phase, slocks>>

\* Transaction.GetInt: concurrency.Manager.SLock (which asks the lock
\* table only if n holds no lock on b yet; LockTable.SLock waits while
\* another transaction holds the exclusive lock), pin, and the read.
GetInt(n, b) ==
    /\ phase = "normal"
    /\ st[n] = "active"
    /\ owner[b] \in {0, n}
    /\ slocks' = IF owner[b] = n THEN slocks ELSE [slocks EXCEPT ![b] = @ \cup {n}]
    /\ seen' = Saw(n, b, Visible(b))
    /\ UNCHANGED <<log, sessBase, lastSavedLSN, disk, diskRec, buf, owner, st,
                   cursor, finished, nextTxNum, session, phase>>

\* Mutant: the value logged is read after the page is written.
PreImageAfterWrite(b, v) == v

\* RecoveryManager.SetInt logs the value at the offset before the write.
PreImage(b, v) == Visible(b)

\* Transaction.SetInt with logIt: XLock, RecoveryManager.SetInt logs the
\* pre-image (Append may first flush a full log page), then the page is
\* written and the frame stamped with (txNum, lsn) by SetModified.
SetInt(n, b, v) ==
    /\ phase = "normal"
    /\ st[n] = "active"
    /\ XLockGrantable(n, b)
    /\ Len(log) < MaxLog
    /\ \E pageFull \in BOOLEAN :
         /\ log' = Append(log, [op |-> "SetInt", tx |-> n, blk |-> b,
                                old |-> PreImage(b, v), new |-> v,
                                sess |-> session])
         /\ lastSavedLSN' = IF pageFull THEN LatestLSN ELSE lastSavedLSN
    /\ buf' = [buf EXCEPT ![b] = [SetModified(Page(b), n, LatestLSN + 1)
                                      EXCEPT !.val = v, !.rec = Len(log) + 1]]
    /\ owner' = [owner EXCEPT ![b] = n]
    /\ slocks' = [slocks EXCEPT ![b] = @ \ {n}]
    /\ UNCHANGED <<sessBase, disk, diskRec, st, cursor, finished, nextTxNum,
                   session, phase, seen>>

\* A frame is reassigned to another block (tryToPin -> assignToBlock): if
\* dirty it is flushed, log first.
Evict(b) ==
    /\ buf[b].cached
    /\ IF buf[b].txnum >= 0
       THEN /\ lastSavedLSN' = SavedAfterFlush(buf[b].lsn)
            /\ disk' = [disk EXCEPT ![b] = buf[b].val]
            /\ diskRec' = [diskRec EXCEPT ![b] = buf[b].rec]
       ELSE UNCHANGED <<lastSavedLSN, disk, diskRec>>
    /\ buf' = [buf EXCEPT ![b] = NotCached]
    /\ UNCHANGED <<log, sessBase, owner, st, cursor, finished, nextTxNum,
                   session, phase, slocks, seen>>

\* Mutant: Commit does not flush the transaction's frames.
CommitFlushAllNoForce(n) ==
    /\ phase = "normal"
    /\ st[n] = "active"
    /\ st' = [st EXCEPT ![n] = "committing"]
    /\ UNCHANGED <<log, sessBase, lastSavedLSN, disk, diskRec, buf, owner,
                   cursor, finished, nextTxNum, session, phase, slocks, seen>>

\* RecoveryManager.Commit, first step: FlushAll(txNum).
CommitFlushAll(n) ==
    /\ phase = "normal"
    /\ st[n] = "active"
    /\ FlushAll(n)
    /\ lastSavedLSN' = FlushAllLogSaved(n)
    /\ st' = [st EXCEPT ![n] = "committing"]
    /\ UNCHANGED <<log, sessBase, owner, cursor, finished, nextTxNum,
                   session, phase, slocks, seen>>

\* WriteCommitToLog and Flush(lsn); then Transaction.Commit releases the
\* locks and unpins.
CommitRecord(n) ==
    /\ st[n] = "committing"
    /\ Len(log) < MaxLog
    /\ log' = Append(log, TxRecord("Commit", n))
    /\ lastSavedLSN' = LatestLSN + 1
    /\ owner' = Unlocked(n)
    /\ slocks' = Released(n)
    /\ seen' = Forgotten(n)
    /\ st' = [st EXCEPT ![n] = "done"]
    /\ UNCHANGED <<sessBase, disk, diskRec, buf, cursor, finished, nextTxNum,
                   session, phase>>

\* Mutant: the iterator starts one record past the newest.
RollbackBeginPastEnd(n) ==
    /\ phase = "normal"
    /\ st[n] = "active"
    /\ lastSavedLSN' = LatestLSN
    /\ cursor' = [cursor EXCEPT ![n] = Len(log) + 1]
    /\ st' = [st EXCEPT ![n] = "rollingBack"]
    /\ UNCHANGED <<log, sessBase, disk, diskRec, buf, owner, finished,
                   nextTxNum, session, phase, slocks, seen>>

\* doRollback opens an iterator: Iterator() flushes the log page and
\* starts at the newest record.
RollbackBegin(n) ==
    /\ phase = "normal"
    /\ st[n] = "active"
    /\ lastSavedLSN' = LatestLSN
    /\ cursor' = [cursor EXCEPT ![n] = Len(log)]
    /\ st' = [st EXCEPT ![n] = "rollingBack"]
    /\ UNCHANGED <<log, sessBase, disk, diskRec, buf, owner, finished,
                   nextTxNum, session, phase, slocks, seen>>

\* SetIntRecord.Undo(tx): tx.Pin, tx.SetInt(blk, off, old, false) -- which
\* takes the XLock and stamps the frame without an lsn -- and tx.Unpin.
Undo(n, r) ==
    /\ buf' = [buf EXCEPT ![r.blk] = [SetModified(Page(r.blk), n, -1) EXCEPT !.val = r.old]]
    /\ owner' = [owner EXCEPT ![r.blk] = n]
    /\ slocks' = [slocks EXCEPT ![r.blk] = @ \ {n}]

\* One iteration of doRollback's loop over a record it does not undo.
RollbackSkip(n) ==
    /\ st[n] = "rollingBack"
    /\ cursor[n] > 0
    /\ LET r == log[cursor[n]] IN
         /\ ~(DecodedTx(r) = n /\ r.op = "SetInt")
         /\ cursor' = [cursor EXCEPT ![n] = IF DecodedTx(r) = n /\ r.op = "Start"
                                           THEN 0 ELSE @ - 1]
    /\ UNCHANGED <<log, sessBase, lastSavedLSN, disk, diskRec, buf, owner, st,
                   finished, nextTxNum, session, phase, slocks, seen>>

\* One iteration of doRollback's loop that undoes an update of txNum.
RollbackUndo(n) ==
    /\ st[n] = "rollingBack"
    /\ cursor[n] > 0
    /\ LET r == log[cursor[n]] IN
         /\ DecodedTx(r) = n /\ r.op = "SetInt"
         /\ XLockGrantable(n, r.blk)
         /\ Undo(n, r)
    /\ cursor' = [cursor EXCEPT ![n] = @ - 1]
    /\ UNCHANGED <<log, sessBase, lastSavedLSN, disk, diskRec, st, finished,
                   nextTxNum, session, phase, seen>>

\* The undo's XLock times out ("lock abort"): Rollback returns the error
\* before Release, so the transaction keeps its locks.
RollbackAbort(n) ==
    /\ st[n] = "rollingBack"
    /\ cursor[n] > 0
    /\ LET r == log[cursor[n]] IN
         /\ DecodedTx(r) = n /\ r.op = "SetInt"
         /\ ~XLockGrantable(n, r.blk)
    /\ st' = [st EXCEPT ![n] = "aborted"]
    /\ UNCHANGED <<log, sessBase, lastSavedLSN, disk, diskRec, buf, owner,
                   cursor, finished, nextTxNum, session, phase, slocks, seen>>

\* The undo's tx.Pin times out ("buffer abort") because other transactions
\* hold every frame, which this model does not bound: any undo may fail so.
\* doRollback returns the error, and Rollback returns before Release.
RollbackPinAbort(n) ==
    /\ st[n] = "rollingBack"
    /\ cursor[n] > 0
    /\ DecodedTx(log[cursor[n]]) = n /\ log[cursor[n]].op = "SetInt"
    /\ st' = [st EXCEPT ![n] = "aborted"]
    /\ UNCHANGED <<log, sessBase, lastSavedLSN, disk, diskRec, buf, owner,
                   cursor, finished, nextTxNum, session, phase, slocks, seen>>

\* The rest of RecoveryManager.Rollback: FlushAll, WriteRollbackToLog,
\* Flush(lsn); then Transaction.Rollback releases the locks and unpins.
RollbackEnd(n) ==
    /\ st[n] = "rollingBack"
    /\ cursor[n] = 0
    /\ Len(log) < MaxLog
    /\ FlushAll(n)
    /\ log' = Append(log, TxRecord("Rollback", n))
    /\ lastSavedLSN' = LatestLSN + 1
    /\ owner' = Unlocked(n)
    /\ slocks' = Released(n)
    /\ seen' = Forgotten(n)
    /\ st' = [st EXCEPT ![n] = "done"]
    /\ UNCHANGED <<sessBase, cursor, finished, nextTxNum, session, phase>>

-----------------------------------------------------------------------------
(* Boot recovery: Transaction.Recover on the recovery transaction, which *)
(* runs alone.  Its FlushAll and the Iterator's flush find nothing to     *)
(* write at startup, so the scan starts at the newest durable record.     *)

\* doRecover reaches a Checkpoint record and returns.
RecoverStop ==
    /\ st[RecoveryTx] = "recovering"
    /\ cursor[RecoveryTx] > 0
    /\ log[cursor[RecoveryTx]].op = "Checkpoint"
    /\ cursor' = [cursor EXCEPT ![RecoveryTx] = 0]
    /\ UNCHANGED <<log, sessBase, lastSavedLSN, disk, diskRec, buf, owner, st,
                   finished, nextTxNum, session, phase, slocks, seen>>

\* A Commit or Rollback record: its decoded number joins finishedTransactions.
RecoverFinished ==
    /\ st[RecoveryTx] = "recovering"
    /\ cursor[RecoveryTx] > 0
    /\ log[cursor[RecoveryTx]].op \in {"Commit", "Rollback"}
    /\ finished' = finished \cup {DecodedTx(log[cursor[RecoveryTx]])}
    /\ cursor' = [cursor EXCEPT ![RecoveryTx] = @ - 1]
    /\ UNCHANGED <<log, sessBase, lastSavedLSN, disk, diskRec, buf, owner, st,
                   nextTxNum, session, phase, slocks, seen>>

\* Mutant: the finishedTransactions check is dropped.
RecoverUndoAll ==
    /\ st[RecoveryTx] = "recovering"
    /\ cursor[RecoveryTx] > 0
    /\ LET r == log[cursor[RecoveryTx]] IN
         /\ r.op \in {"Start", "SetInt"}
         /\ IF r.op = "SetInt" THEN Undo(RecoveryTx, r) ELSE UNCHANGED <<buf, owner, slocks>>
    /\ cursor' = [cursor EXCEPT ![RecoveryTx] = @ - 1]
    /\ UNCHANGED <<log, sessBase, lastSavedLSN, disk, diskRec, st, finished,
                   nextTxNum, session, phase, seen>>

\* Any other record: undone unless its transaction is finished.
RecoverUndo ==
    /\ st[RecoveryTx] = "recovering"
    /\ cursor[RecoveryTx] > 0
    /\ LET r == log[cursor[RecoveryTx]] IN
         /\ r.op \in {"Start", "SetInt"}
         /\ IF r.op = "SetInt" /\ DecodedTx(r) \notin finished
            THEN Undo(RecoveryTx, r)
            ELSE UNCHANGED <<buf, owner, slocks>>
    /\ cursor' = [cursor EXCEPT ![RecoveryTx] = @ - 1]
    /\ UNCHANGED <<log, sessBase, lastSavedLSN, disk, diskRec, st, finished,
                   nextTxNum, session, phase, seen>>

\* The rest of RecoveryManager.Recover: FlushAll, WriteCheckpointToLog and
\* Flush(lsn).  The application transactions may begin after it returns;
\* the recovery transaction itself stays active, holding its locks.
RecoverEnd ==
    /\ st[RecoveryTx] = "recovering"
    /\ cursor[RecoveryTx] = 0
    /\ Len(log) < MaxLog
    /\ FlushAll(RecoveryTx)
    /\ log' = Append(log, TxRecord("Checkpoint", -1))
    /\ lastSavedLSN' = LatestLSN + 1
    /\ st' = [st EXCEPT ![RecoveryTx] = "active"]
    /\ finished' = {}
    /\ phase' = "normal"
    /\ UNCHANGED <<sessBase, owner, cursor, nextTxNum, session, slocks, seen>>

\* The process dies.  Only the durable prefix of the log and the disk
\* survive; the restarted process gets a new log manager (LSNs from 0), a
\* new buffer pool and lock table, nextTxNum from 0, and runs the boot
\* recovery from the newest durable record.
Crash ==
    /\ session < MaxSessions
    /\ log' = SubSeq(log, 1, Durable)
    /\ sessBase' = Durable
    /\ lastSavedLSN' = 0
    /\ buf' = [b \in Blocks |-> NotCached]
    /\ owner' = [b \in Blocks |-> 0]
    /\ st' = [n \in TxNums |-> IF n = RecoveryTx THEN "recovering" ELSE "unused"]
    /\ cursor' = [n \in TxNums |-> IF n = RecoveryTx THEN Durable ELSE 0]
    /\ finished' = {}
    /\ nextTxNum' = RecoveryTx
    /\ session' = session + 1
    /\ phase' = "recovering"
    /\ slocks' = [b \in Blocks |-> {}]
    /\ seen' = [n \in Readers |-> [b \in Blocks |-> NotRead]]
    /\ UNCHANGED <<disk, diskRec>>

Next ==
    \/ \E n \in TxNums :
         \/ Begin(n) \/ CommitFlushAll(n) \/ CommitRecord(n)
         \/ RollbackBegin(n) \/ RollbackSkip(n) \/ RollbackUndo(n)
         \/ RollbackAbort(n) \/ RollbackPinAbort(n) \/ RollbackEnd(n)
         \/ \E b \in Blocks : GetInt(n, b)
         \/ \E b \in Blocks, v \in Vals : SetInt(n, b, v)
    \/ \E b \in Blocks : Evict(b)
    \/ RecoverStop \/ RecoverFinished \/ RecoverUndo \/ RecoverEnd
    \/ Crash

Spec == Init /\ [][Next]_vars

-----------------------------------------------------------------------------
(* Properties *)

\* A transaction's work is committed once its Commit record is in the log
\* (every Commit record in the log is durable: it is flushed when appended).
IsCommitted(s, n) ==
    \E i \in 1 .. Len(log) : log[i].op = "Commit" /\ log[i].tx = n /\ log[i].sess = s

\* The value of b that committed transactions leave: the newest logged
\* update of b by a committed transaction (exclusive locks held to commit
\* order the updates of a block as the log does).
CommittedVal(b) ==
    LET W == {i \in 1 .. Len(log) : log[i].op = "SetInt" /\ log[i].blk = b
                                    /\ IsCommitted(log[i].sess, log[i].tx)}
    IN IF W = {} THEN InitVal
       ELSE log[CHOOSE i \in W : \A j \in W : j <= i].new

\* Write-ahead logging: Buffer.flush (on eviction and in FlushAll) forces
\* the log before writing a page, so the disk never holds an update whose
\* log record (the pre-image recovery needs) could be lost in a crash.
WAL == \A b \in Blocks : diskRec[b] <= Durable

\* No redo is needed: Commit's FlushAll writes the transaction's frames
\* before its Commit record is appended, so when that record is appended
\* the disk already holds every block the transaction holds exclusively
\* (its own updates, and its undo writes if it is the recovery
\* transaction) with the value the transaction leaves there.
CommitForcesData ==
    [][\A n \in TxNums :
         (st[n] = "committing" /\ st'[n] = "done")
             => \A b \in Blocks : owner[b] = n => disk[b] = Visible(b)]_vars

\* Isolation and atomicity as seen by the next transaction: once recovery
\* has returned, every block no transaction holds an exclusive lock on
\* reads the value its committed writers left (rolled-back and aborted
\* work undone by Rollback or by the boot recovery).
ConsistentUnlocked ==
    phase = "normal" =>
        \A b \in Blocks : owner[b] = 0 => Visible(b) = CommittedVal(b)

\* Restart recovery (doRecover) leaves every block, locked by the recovery
\* transaction or not, with its committed value when Recover returns.
RecoveryRestoresCommitted ==
    [][phase = "recovering" /\ phase' = "normal"
         => (\A b \in Blocks : Visible(b) = CommittedVal(b))']_vars

\* Repeatable reads under strict two-phase locking: GetInt takes a shared
\* lock that keeps every other writer (SetInt, an undo by Rollback or by a
\* reused transaction number) off the block until the reader's Release, so
\* while a transaction is active, a block it has read and not written since
\* still reads as the value it read -- through evictions, other
\* transactions' commits and rollbacks, and the boot recovery's locks.
RepeatableRead ==
    \A n \in Readers, b \in Blocks :
        (st[n] \in {"active", "committing"} /\ seen[n][b] # NotRead /\ owner[b] # n)
            => Visible(b) = seen[n][b]

====
