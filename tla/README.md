# TLA+ models of the mydb storage core

This directory holds TLA+ models of the transactional storage core in `src/`. Each model has TLC configurations that check it. PROJECT.json lists:
- the components;
- the runs, with the properties each checks;
- the mutants that show each property can fail;
- the map from every definition to the source lines it translates;
- the findings and the hazards.

## 1. The system

| Part | Source | State | Operations |
|---|---|---|---|
| File manager | `src/unnamed/part_003` | block files | Read (zeros past EOF), Write+Sync, Append |
| Page | `src/unnamed/part_002` | byte array | Get/Set of ints (`utils.IntSize` bytes), bytes and strings (length prefix of `IntSize` bytes) |
| Log manager | `src/log/manager.go`, iterator in `src/unnamed/part_000` | log page, current block, `latestLSN`, `lastSavedLSN` | Append (records grow backwards from the end of the page), Flush(lsn), Iterator (flushes first, then reads newest to oldest) |
| Buffer pool | `src/buffer/buffer.go`, `src/utils/int_type.go` (naive strategy) | frames (block, contents, pins, txnNum, lsn), `numAvailable` | Pin (waits up to 10 s for a free frame), Unpin, FlushAll(tx). A dirty frame is written log-first when it is flushed or replaced |
| Lock table | `src/tx/concurrency/lock_table.go` | block → count (-1 = exclusive) | SLock, XLock (cond-var wait, 10 s deadline), Unlock |
| Concurrency manager | `src/tx/concurrency/manager.go` | per-tx block → "s"/"x" | SLock, XLock (SLock, then the table's XLock), Release |
| Buffer list | `src/unnamed/part_006` | per-tx block → (frame, refCount) | Pin, Unpin, UnpinAll |
| Transaction | `src/unnamed/part_005` | txNum from a process-wide counter | Get/Set of each width, Commit, Rollback, Recover, Pin, Unpin |
| Recovery manager | `src/tx/recovery_manager.go` | per tx | logged SetX, Commit, Rollback (doRollback), Recover (doRecover) |
| Log records | `src/tx/*.go`, `src/unnamed/part_003`, `src/unnamed/part_004` | tag + fields | serialise, decode, undo |

### How the parts interact

- A transaction's write does three things in order:
  1. it takes an exclusive lock, going through shared to exclusive;
  2. it appends an update record holding the old value;
  3. it changes the page and stamps the frame with its transaction number and the record's lsn.
- A frame is written to disk only after the log has been forced up to its lsn (write-ahead logging, WAL). This happens on replacement (`assignToBlock`) and in `FlushAll`.
- Commit does four things in order:
  1. flushes the transaction's frames;
  2. appends a Commit record and forces the log;
  3. releases its locks;
  4. unpins its buffers.
- Rollback walks the log backwards and undoes the transaction's updates without logging them. Then it flushes, appends a Rollback record, releases its locks and unpins.
- At boot a recovery transaction walks the log back to the last checkpoint. It undoes the updates of every transaction with no Commit or Rollback record, flushes, and writes a quiescent checkpoint.

### What is hard in this code

These are the hazards, each listed at its source line in PROJECT.json:
- **Lock table wake-ups.** Waiters sleep in `cond.Wait`, so whether they wake depends on who broadcasts, and when.
- **The two-call XLock upgrade.** Other transactions can run between its two calls.
- **Reads between writers.** Between two reads of a block by one transaction, only its shared lock keeps other transactions' writes and undos away.
- **Deadline against grant.** The 10 s deadline can fire just as the lock is granted.
- **Crossing deadlocks.** Each waiter has its own deadline. When the first to abort releases before the second's deadline fires, the second gets the lock and commits. Spec scenario 3 and `TestDeadlockDetection` say both abort. `LockTable` reaches that state, but no run is spent on the disagreement.
- **Failed rollback.** A lock or buffer abort inside an undo leaves a partial undo and no Rollback record; after a crash, the next recovery must finish it.
- **Crashes.** A crash can happen between any two steps of commit or rollback, or during recovery itself.
- **WAL order.** Each frame must be forced log-first.
- **Record decoding.** Recovery depends on decoding each record's transaction number correctly.
- **Transaction numbers.** They restart in every process, and no Start record is ever written.
- **The unlocked flush.** `Iterator` flushes the log without holding the log mutex.
- **Record layout.** Append computes its sizes with 4-byte ints, but the page uses `IntSize` bytes.
- **UnpinAll.** It unpins a frame as many times as the local reference count, though the list holds one pool pin per block.
- **Oversized records.** `Append` checks the fit only against the old page, so a record longer than `BlockSize - 8` bytes overwrites the boundary header of a fresh block.
- **Unlocked `Length`.** `Transaction.Size` calls `file.Manager.Length` without the file manager's mutex. Its map access races the locked operations (not modelled: file I/O).

## 2. Modules

| Module | Models | Kind |
|---|---|---|
| `LockTable` | `LockTable.SLock/XLock/Unlock` and `Manager.SLock/XLock/Release`, one loop pass per step | detailed |
| `MC_LockTable` | three transactions, two blocks | TLC instance |
| `Recovery` | log (Append/Flush/Iterator, LSNs), frames (flush, FlushAll, eviction), shared and exclusive locks (`concurrency.Manager`), `Transaction.GetInt/SetInt/Commit/Rollback/Recover`, `doRollback`, `doRecover`, process crash and restart | detailed |
| `MC_Recovery` | two blocks | TLC instance |
| `BufferPool` | `buffer.Manager.Pin/tryToPin/findExistingBuffer/Unpin`, the naive strategy, `BufferList.Pin/Unpin/UnpinAll` | detailed |
| `MC_BufferPool` | up to three transactions, three blocks | TLC instance |
| `LogManager` | `log.Manager.Append/Flush` under `m.mu`, and `Iterator`'s flush without it, in three steps | detailed |
| `MC_LogManager` | one appending transaction, one iterating | TLC instance |
| `LogLayout` | the bytes of the log: `Page.GetInt/SetInt/GetBytes/SetBytes` at `utils.IntSize`, every `Write*ToLog` and `New*Record`, `CreateLogRecord`, `Manager.Append` with `appendNewBlock`, and the `Iterator` walk | detailed |
| `MC_LogLayout` | the record fields, for `IntSize` 4 and 8 | TLC instance |

### LockTable

- **State.** `locks[b]` is `LockTable.locks`, with 0 meaning the block has no entry. `modes[t][b]` is the manager's map. `pc[t]` says where the goroutine is: idle, blocked in or woken from the SLock or XLock wait, between the two calls of `Manager.XLock`, failed after a lock abort, or releasing. `req[t]` is the pending call: its block, its intent and whether its deadline has fired.
- **Steps.** Every table method holds `lt.mu`, so one pass of its loop is one step. `Broadcast` moves every blocked goroutine to "woken". A woken goroutine checks `ctx.Err()` first, as the code does, and then the loop predicate again.
- **Deadline.** The deadline is an action that may fire while a call waits. It broadcasts, as the `context.AfterFunc` callback does.
- **Release.** `Release` unlocks one block per step, in any order. This is Go's map iteration order.

### Recovery

- **State.**
  - `log` holds every record appended since the database was created. Its durable prefix has length `sessBase + lastSavedLSN`, and `latestLSN` is `Len(log) - sessBase`.
  - `disk` holds the block contents.
  - `buf[b]` is the frame holding `b`: its value, `txnNum` and `lsn`.
  - `owner[b]` is the holder of the exclusive lock.
  - `slocks[b]` is the set of transactions whose `concurrency.Manager` map holds "s" for `b`. `XLockGrantable` is `Manager.XLock` as a guard: nobody else holds x, and nobody but the caller holds s (`hasOtherSLocks`, given that `XLock` takes the caller's s first). An `XLock` turns only the caller's own "s" into "x". `Release` drops both kinds.
  - `st[n]` is the state of transaction `n` in this process.
  - `cursor[n]` is the position of its log iterator.
  - `finished` is `doRecover`'s list.
  - `nextTxNum` is the package counter.
  - `phase` is "recovering" until the boot recovery returns.
  - Four history variables feed the properties and are read by no action: `diskRec` (the newest logged update the disk image holds, used by `WAL`; an undo does not move it), `session`, the `sess`/`new` fields of records, and `seen[n][b]`, the value transaction `n` last read from `b`. `seen` is kept only for the transactions in the constant `Readers`, and it is cleared when the transaction commits or rolls back.
- **Steps.**
  - Each iteration of `doRollback` or `doRecover` is one step. So is each of `Begin`, `GetInt` (its `SLock`; the value read is `Visible(b)`), `SetInt`, `Evict`, `CommitFlushAll`, `CommitRecord` and `RollbackEnd`.
  - A rollback fails at an undo in two ways, and either way `Rollback` returns before `Release` and writes no Rollback record. In `RollbackAbort` the undo's `XLock` times out (a lock abort) because another transaction holds the block. In `RollbackPinAbort` the undo's `tx.Pin` times out (a buffer abort). That happens when other transactions hold every frame; `Recovery` does not bound the frames, so any undo may fail this way.
  - `Crash` may happen between any two steps. It truncates the log to its durable prefix, resets the LSNs and the transaction counter, clears the frames and the locks, and starts the boot recovery.
- **Decoding.** Records decode as the code decodes them. A Checkpoint reports -1. A Rollback record reports 3, because `NewRollbackRecord` reads offset 0. This is the 32-bit build, in which the log layout is self-consistent (run `log_layout`; on 64-bit builds it is not, finding 6).
- **Frames.** `SetModified` stamps the frame with the transaction, and with the lsn only for a logged update; an undo (`logIt` false) leaves the lsn as it was.
- **Steal.** A frame may be evicted at any time. A transaction can always unpin a block after writing it, so every eviction the model takes is one the code can make.

### BufferPool

- **State.** `blockOf[i]` and `pins[i]` are frame `i`'s `Buffer.block` and `Buffer.pins`, with frames in `bufferPool` order. `numAvailable` is the manager's counter. `refs[t][b]` and `frameOf[t][b]` are transaction `t`'s `BufferList` entry for `b`: its `refCount` and its buffer. `pc[t]` is idle, blocked in `cond.Wait`, woken, or inside `UnpinAll`. `req[t]` is the pending `Manager.Pin` with whether its deadline has fired. `calls[t]` counts Pin calls, to bound the workload.
- **Steps.** Every `Manager` method holds `m.mu`, so one pass of Pin's loop (`PinPass`: `tryToPin`, then wait if it found nothing) and one `Manager.Unpin` are one step each. `BufferList.Pin` of a block already in the list only increments `refCount`. The deadline is the `context.AfterFunc` callback: it broadcasts. A woken Pin checks `ctx.Err()` before it retries, as the code does.
- **UnpinAll.** One step per inner-loop iteration (`refCount--` and `Manager.Unpin`), then a step that clears the map, as the code does.
- **Page contents** and the log-first write on replacement are left to `Recovery`, where frames carry values and lsns.

### LogManager

- **State.** `page` is the set of lsns on `m.logPage`. `disk[k]` is the set on log block `k`. `currentBlock`, `latestLSN` and `lastSavedLSN` are the manager's fields. Clients are transactions: `cpc` and `myLSN` track one Append followed by `Flush` of its lsn, as `RecoveryManager.SetInt` and then `Buffer.flush` do. Iterators are transactions opening a log iterator in `doRollback`.
- **Steps.**
  - `Append` (including the page-full flush and `appendNewBlock`) and `Flush` hold `m.mu`, so each is one step.
  - `Iterator` calls the unexported `flush` without the mutex. Its three parts are steps of their own: evaluating `m.currentBlock`, writing the page, and setting `lastSavedLSN` from `latestLSN`.
- **Abstraction.** The boundary arithmetic is a capacity of `BlockCap` records per block; `LogLayout` models it on bytes. The page write is treated as atomic. A torn write (a data race on the page bytes) only adds outcomes.

### LogLayout

- **Pages.** A page is a sequence of bytes, and offset `o` is index `o + 1`. `IntSize` is a constant: 4 on 386 and arm, 8 elsewhere, as in `utils/int_type.go`.
  - `PageSetInt`/`GetInt` write and read `IntSize` big-endian bytes.
  - `Put` is the bounds check of `PutUintN` and of `buffer[offset] = ...`. A write that does not fit is `Panic`.
  - `PageSetBytes` writes an `IntSize` length and then `copy`s, which stops silently at the end of the buffer.
  - `GetBytes` panics when the slice end passes the buffer.
  - Every number written is below 2^24. A read whose bytes above the lowest three are not all zero is a number of 2^24 or more, written `HugeInt`, which is never a valid length, position or field.
- **Records.**
  - Each `Write*ToLog` is an operator that builds its record's bytes in the code's order of `SetInt`/`SetString`/`Set*` calls, so later writes overwrite earlier ones where they overlap.
  - Each `New*Record` reads the fields back at the code's offsets. A panic or an error is a status of the result.
  - `CreateLogRecord` dispatches on `GetInt(0)`.
  - Every byte written is below `0x80`, so the UTF-8 checks of `SetString`/`GetString` always pass.
- **Append.** `LogAppend` is `Manager.Append`: if `boundary - (len + 4) < 4` it writes the page to the current block and calls `appendNewBlock`. That function sets the boundary to the block size and keeps the old bytes, and the page is appended as a new block. Then `SetBytes` at `boundary - (len + 4)` and `SetInt(0, position)`.
- **Iterator.** `IterRecords` is `NewIterator` plus `HasNext`/`Next`. It starts at the current block's boundary, steps `4 + len`, and at the block size moves to the previous block and reads from its boundary. It reads the log as `Iterator` leaves it, with the page flushed to the current block.
- **State.** `page`, `disk` (the log blocks), `written` (the records handed to the log) and `halted` (a write panicked and the process is gone). The one action, `WriteRecord(r)`, is what each `RecoveryManager` method does: it calls a writer and then `Append`. Its input `r` ranges over the ten record kinds, with transaction 1, block 1, offset 0, file name `"d"` and a value of 0 or 1.

## 3. Runs

| Run | Config | Expect | Checks |
|---|---|---|---|
| lock_table | `MC_LockTable.cfg` | pass | `TypeOK`, `TableMatchesHolders` (the count equals the managers' holders), `RequestsReturn` (every blocked call returns) |
| lock_stranded_upgrade | `MC_LockTable_stranded.cfg` | violation | `NoStrandedWaiter`: an XLock upgrader sleeps on a lock nobody else holds |
| recovery | `MC_Recovery.cfg` | pass | `TypeOK`, `ConsistentUnlocked` (in one process, every unlocked block holds its committed value) |
| recovery_crash | `MC_Recovery_crash.cfg` | pass | `TypeOK` and `WAL` across a crash at any step and recovery. `RepeatableRead`: while a transaction is active, a block it read and has not written since still reads as the value it read. `RecoveryRestoresCommitted`: every recovery that returns, including one after a failed rollback, leaves each block with its committed value. `CommitForcesData`: when a Commit record is appended, every block the transaction holds exclusively already has its value on disk (no redo is needed) |
| rollback_record_decode | `MC_Recovery_rollback_decode.cfg` | violation | `RecoveryRestoresCommitted`: recovery leaves an uncommitted update of transaction 3 on disk |
| reused_txnum_rollback | `MC_Recovery_reused_txnum.cfg` | violation | `ConsistentUnlocked`: a rollback after a restart undoes the previous process's committed update |
| buffer_pool | `MC_BufferPool.cfg` | pass | `NoStrandedPinner` (no Pin waits while a frame is free for it), `PinReturns` (every waiting Pin returns) |
| buffer_pool_single_pin | `MC_BufferPool_single.cfg` | pass | `TypeOK`, `HeldFramesKeepBlock` (a held frame is never replaced), `PinsMatchLists` (pin counts and `numAvailable` agree with the buffer lists), when no block is pinned twice by one transaction |
| unpin_all_steals_pin | `MC_BufferPool_unpin_all.cfg` | violation | `HeldFramesKeepBlock`: `UnpinAll` over-unpins and another transaction's frame is replaced |
| iterator_unlocked_flush | `MC_LogManager_overwrite.cfg` | violation | `FlushedIsDurable`: because of the iterator's unlocked flush, a client's `Flush(lsn)` returns while its record is in no log block |
| log_layout | `MC_LogLayout.cfg` | pass | `TypeOK`, `LogRecovers` (the iterator, then `CreateLogRecord`, give back every record written, newest first), `BoundaryInvariant` (every block's boundary lies in 4..block size and a chain of length-prefixed records runs from it to the end), with `IntSize = 4` |
| log_layout_64bit | `MC_LogLayout_64bit.cfg` | violation | `LogRecovers` with `IntSize = 8`: the log does not read back |

### Findings

1. **Stranded upgrade.** `lock_table.go:118`. `Unlock` broadcasts only when it deletes the entry. Trace:
   1. Transactions A and B hold "s" on a block.
   2. B calls XLock and waits, because the count is 2.
   3. A releases, and the count drops to 1 without a broadcast.
   4. B sleeps until its 10 s deadline and gets a lock abort, although the lock is free.

   `TestConcurrencySuccess` depends on the Go map iteration order of `Release` to avoid this.
2. **Rollback records decode as transaction 3.** `rollback.go:17`. Trace:
   1. Transaction 3 writes, and its frame is flushed.
   2. Another transaction rolls back. Its Rollback record is appended after transaction 3's update (the rollback may begin before that update), and it decodes as transaction 3.
   3. The process crashes before transaction 3's Commit record.
   4. Recovery reads newest first. It meets the Rollback record first, counts 3 as finished, and does not undo 3's write.

   The converse also happens: a rolled-back transaction counts as unfinished, so its updates are undone again. That wipes a later committed value of the same block.
3. **Rollback crosses process boundaries.** `part_005:44` and `recovery_manager.go:146`. Trace:
   1. Transaction 1 of the first process commits a write.
   2. The process crashes and restarts. Recovery stops at the checkpoint.
   3. Transaction 1 of the new process rolls back. With no Start record to stop at, it walks the whole log and restores the old value over the committed one.
4. **UnpinAll over-unpins.** `part_006:80`. `BufferList.Pin` takes one pool pin per block and counts repeats locally, but `UnpinAll` calls `Manager.Unpin` once per reference. Trace:
   1. t1 pins b1 twice: one pool pin, `refCount` 2.
   2. t1 commits. `UnpinAll` unpins the frame twice: its pins become -1 and `numAvailable` exceeds the pool size.
   3. t2 pins b1. The frame is found but not pinned, so it ends with 0 pins while t2 holds it.
   4. t3 pins b2. The naive strategy picks that frame and reassigns it to b2 under t2.

   The passing run `buffer_pool_single_pin` shows the pool is sound when each block is pinned once per transaction.
5. **Iterator's unlocked flush.** `log/manager.go:128`, `:71`. `FlushedIsDurable` says that once a client's `Flush(lsn)` returns, its record is in the log file. `Buffer.flush` relies on this for write-ahead logging, and `Commit` for durability. `Flush` returns without writing when `lsn < lastSavedLSN`, and the unlocked flush breaks the property two ways.
   - **Stale `lastSavedLSN`** (TLC's shortest trace, two clients):
     1. The iterator reads block 1 and writes the empty page.
     2. Client 1 appends record 1, and client 2 appends record 2.
     3. The iterator sets `lastSavedLSN = 2`.
     4. Client 1's `Flush(1)` returns without writing (1 < 2). Record 1 is in no block.
   - **Overwrite.** With the stale update removed, TLC still finds this trace:
     1. Records 1 and 2 are flushed to block 1.
     2. The iterator evaluates `m.currentBlock` (block 1).
     3. An `Append` finds the page full, flushes it, and moves to block 2.
     4. The iterator writes the new page, holding record 3, over block 1. The flushed records 1 and 2 are gone.

6. **The log does not read back on 64-bit builds.** `checkpoint.go:44`, `log/manager.go:88`, `start.go:47`, `rollback.go:52`. With `IntSize = 8`, TLC's shortest trace is the first `WriteCheckpointToLog`: `SetInt` on its 4-byte record panics, so every `Transaction.Recover` panics. Without checkpoints it still fails:
   - `Append` reserves 4 bytes for the length but `SetBytes` writes 8. Each record's last 4 bytes land on the high half of the older record's length, and the first record of a block runs past the page and is cut off by `copy`, so `GetBytes` panics on it.
   - Start and Rollback records put the transaction number at offset 4, inside the 8-byte tag, and decode as Checkpoint records.

   The spec's round-trip law says the iterator yields the appended records in reverse. Its wire format, and `CreateLogRecord`'s comment, give a 4-byte tag. With `IntSize = 4` (run `log_layout`) the layout is consistent, apart from the Rollback transaction number of finding 2.

## 4. Bounds and why they suffice

- **LockTable.**
  - Three transactions are needed: two to share a lock while a third waits, and two upgraders at once.
  - Two blocks let `Release` order matter.
  - The state space is finite without counters: a transaction that finishes starts over from an empty manager.
- **Recovery.** Every configuration has two blocks and one written value (the initial value is 0), which is enough to tell a restored value from a committed one.
  - **One process** (`recovery`): `MaxTx = 3`, i.e. the recovery transaction and two application transactions. `MaxLog = 5` leaves room for two writes and a commit or rollback after the boot checkpoint. That is 2.1 million distinct states, in about 1 minute.
  - **Crash run** (`recovery_crash`): two processes, `MaxTx = 2`, `MaxLog = 5`. A crash can fall between any two steps, including inside recovery. A rollback can fail part-way (`RollbackPinAbort`) in the first process, and a crash may follow it. The next recovery must then finish the undo from the pre-images (spec section 7), which `RecoveryRestoresCommitted` checks. A third process is not a passing bound: a recovery transaction that rolls back after its checkpoint reapplies a pre-image of the previous process's transaction with the same number, and the next recovery stops at that checkpoint (finding 3 again). These bounds also stop just short of finding 2: it needs transaction 3, and its converse needs six records. `Readers = {1, 2}`: the recovery transaction (active after the boot recovery, holding its locks) and the application transaction both read, so `RepeatableRead` pits each reader against the other's writes and undos, including the undo of a reused transaction number. That is 2.0 million distinct states, in about 1 minute.
  - **Violation runs**: the shortest traces need 5–6 records.
  - Blocks are symmetric: no definition names one.

- **BufferPool.**
  - Three blocks and two frames make a Pin wait; with fewer blocks than frames nobody ever blocks.
  - `MaxPins` bounds the Pin calls of each transaction. Without it the over-unpin of `UnpinAll` drives the counters without limit. `MaxRef` bounds the local reference count.
  - The liveness run uses two transactions and `MaxPins = 3`, enough for one to wait while the other holds both frames. The safety run uses three, which the stolen-frame trace needs, with `MaxRef = 1`. The violation run uses `MaxRef = 2`.
  - Transactions and blocks are symmetric in the safety runs. The liveness run has no symmetry.

- **LogManager.** `BlockCap = 2` records per block and `MaxLSN = 4`: the overwrite trace needs three records, the stale-`lastSavedLSN` one two. Two appending transactions and one iterating transaction suffice, because each race needs only one unlocked flush.
- **LogLayout.**
  - 64-byte blocks and three records of any of the ten kinds, with values 0 or 1: 4369 states.
  - With 4-byte ints a record takes 8 to 36 bytes with its length, so some pairs of records fill a block. A third record then starts a new block, and the iterator has to cross blocks and stop exactly at a block's end.
  - The value 1 makes the tail bytes of Commit and SetInt records nonzero, which is where overlapping records show on 64-bit builds.
  - `IterRecords` reads at most one record more than were written: enough to tell the log from a longer one, and it ends the walk when a length of 0 would loop forever.

## 5. Fairness

- **LockTable: weak fairness**, for four steps:
  - the deadline firing, which the runtime timer guarantees;
  - a woken goroutine re-running its loop;
  - a goroutine making its second XLock call.

  The runtime schedules woken goroutines. Nothing obliges an application transaction to start, write or commit, so those steps have no fairness.
- **Recovery: no liveness is claimed**, so it assumes no fairness.
- **LogManager and LogLayout: no liveness is claimed**, so they assume no fairness.
- **BufferPool: weak fairness** for the deadline (the runtime timer) and for a woken Pin re-running its loop (the scheduler). No transaction is obliged to unpin, so `PinReturns` holds through the deadline alone.

## 6. Not modelled, and what comes next

- **Planned modules**, in order:
  - A composed model in which blocked writers wait on the recovery transaction's locks.
  - Each remaining fault hazard needs a violation run of its own: the failed `Read` in `assignToBlock`, `doRecover`'s silent return on a `Next` error, the unlocked `Length`, and the crossing-deadlock claim of spec scenario 3. Each of the six existing violation runs shows a confirmed code bug, so none is dropped to make room.
  - The project has twelve runs, so a new question will replace or merge with an existing run rather than add one.
- **Out of reach:**
  - the records' `Undo` for the other value widths (they behave like `SetInt`'s, which `Recovery` models);
  - string and date conversion beyond their byte widths (`time.Unix`, UTF-8 decoding of non-ASCII bytes);
  - OS errors other than the ones named as hazards;
  - the test files (their crossing-deadlock scenario is discussed under the hazards);
  - the file manager beyond block contents, including the race of the unlocked `Length` on the `openFiles` map (file I/O; a Go map race ends the process);
  - a failed read in `assignToBlock`, which leaves a frame claiming the new block with old contents (I/O).
