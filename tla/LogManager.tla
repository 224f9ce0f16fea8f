----------------------------- MODULE LogManager -----------------------------
(***************************************************************************)
(* The log manager of mydb (src/log/manager.go) with the goroutines that   *)
(* use it at once: clients that Append a record and then Flush up to its   *)
(* lsn, as RecoveryManager.SetInt followed by Buffer.flush does, and       *)
(* iterators, as doRollback and doRecover open one.                        *)
(*                                                                         *)
(* Append and Flush hold m.mu and are one step each.  Iterator calls the   *)
(* unexported flush without the mutex, so its three parts (read            *)
(* m.currentBlock, write the page there, set lastSavedLSN from latestLSN)  *)
(* are separate steps that any locked call may fall between.  A record is  *)
(* its lsn; a page is the set of lsns on it; the boundary arithmetic is    *)
(* abstracted to a page capacity counted in records.                       *)
(***************************************************************************)
EXTENDS Integers, Sequences, FiniteSets

CONSTANTS
    Clients,    \* goroutines that append and flush
    Iterators,  \* goroutines that open a log iterator
    BlockCap,   \* records that fit in one log block
    MaxLSN      \* bound on the records appended

ASSUME BlockCap >= 1 /\ MaxLSN >= 1

VARIABLES
    page,          \* m.logPage: the lsns on the page in memory
    currentBlock,  \* m.currentBlock, an index into disk
    disk,          \* the log file: disk[k] is the set of lsns in block k
    latestLSN,     \* m.latestLSN
    lastSavedLSN,  \* m.lastSavedLSN
    cpc,           \* where each client is
    myLSN,         \* the lsn Append returned to a client
    ipc,           \* where each iterator is in its unlocked flush
    iterBlock      \* the m.currentBlock an iterator read

vars == <<page, currentBlock, disk, latestLSN, lastSavedLSN, cpc, myLSN, ipc, iterBlock>>

LSNs == 1 .. MaxLSN

\* The records on disk, in any block.
Durable == UNION {disk[k] : k \in DOMAIN disk}

TypeOK ==
    /\ page \in SUBSET LSNs
    /\ disk \in Seq(SUBSET LSNs)
    /\ currentBlock \in DOMAIN disk
    /\ latestLSN \in 0 .. MaxLSN
    /\ lastSavedLSN \in 0 .. MaxLSN
    /\ cpc \in [Clients -> {"idle", "appended", "flushed"}]
    /\ myLSN \in [Clients -> 0 .. MaxLSN]
    /\ ipc \in [Iterators -> {"idle", "readBlock", "wrote"}]
    /\ iterBlock \in [Iterators -> {0} \cup DOMAIN disk]

\* NewManager on an empty log file: appendNewBlock writes an empty block 1.
Init ==
    /\ page = {}
    /\ disk = <<{}>>
    /\ currentBlock = 1
    /\ latestLSN = 0
    /\ lastSavedLSN = 0
    /\ cpc = [c \in Clients |-> "idle"]
    /\ myLSN = [c \in Clients |-> 0]
    /\ ipc = [i \in Iterators |-> "idle"]
    /\ iterBlock = [i \in Iterators |-> 0]

-----------------------------------------------------------------------------
(* Locked operations *)

(* Manager.Append: when the record does not fit, flush the page to the     *)
(* current block, then appendNewBlock (a new block holding an empty page,  *)
(* written at once); then put the record on the page and bump latestLSN.   *)
(* The client then holds the lsn for its Flush.                            *)
LogAppend(c) ==
    /\ cpc[c] = "idle"
    /\ latestLSN < MaxLSN
    /\ IF Cardinality(page) = BlockCap
       THEN /\ disk' = Append([disk EXCEPT ![currentBlock] = page], {})
            /\ currentBlock' = Len(disk) + 1
            /\ lastSavedLSN' = latestLSN
            /\ page' = {latestLSN + 1}
       ELSE /\ page' = page \cup {latestLSN + 1}
            /\ UNCHANGED <<disk, currentBlock, lastSavedLSN>>
    /\ latestLSN' = latestLSN + 1
    /\ cpc' = [cpc EXCEPT ![c] = "appended"]
    /\ myLSN' = [myLSN EXCEPT ![c] = latestLSN + 1]
    /\ UNCHANGED <<ipc, iterBlock>>

\* Manager.Flush(lsn): write the page unless lastSavedLSN is already past lsn.
LogFlush(c) ==
    /\ cpc[c] = "appended"
    /\ IF myLSN[c] >= lastSavedLSN
       THEN /\ disk' = [disk EXCEPT ![currentBlock] = page]
            /\ lastSavedLSN' = latestLSN
       ELSE UNCHANGED <<disk, lastSavedLSN>>
    /\ cpc' = [cpc EXCEPT ![c] = "flushed"]
    /\ UNCHANGED <<page, currentBlock, latestLSN, myLSN, ipc, iterBlock>>

\* The caller writes its data page and goes on to its next record.
Proceed(c) ==
    /\ cpc[c] = "flushed"
    /\ cpc' = [cpc EXCEPT ![c] = "idle"]
    /\ UNCHANGED <<page, currentBlock, disk, latestLSN, lastSavedLSN, myLSN, ipc, iterBlock>>

-----------------------------------------------------------------------------
(* Manager.Iterator's flush, without m.mu *)

\* m.fileManager.Write(m.currentBlock, ...) evaluates m.currentBlock.
IterReadBlock(i) ==
    /\ ipc[i] = "idle"
    /\ iterBlock' = [iterBlock EXCEPT ![i] = currentBlock]
    /\ ipc' = [ipc EXCEPT ![i] = "readBlock"]
    /\ UNCHANGED <<page, currentBlock, disk, latestLSN, lastSavedLSN, cpc, myLSN>>

\* ... and writes the page as it is now to that block.
IterWrite(i) ==
    /\ ipc[i] = "readBlock"
    /\ disk' = [disk EXCEPT ![iterBlock[i]] = page]
    /\ ipc' = [ipc EXCEPT ![i] = "wrote"]
    /\ UNCHANGED <<page, currentBlock, latestLSN, lastSavedLSN, cpc, myLSN, iterBlock>>

\* m.lastSavedLSN = m.latestLSN, with latestLSN read now; then NewIterator.
IterSetSaved(i) ==
    /\ ipc[i] = "wrote"
    /\ lastSavedLSN' = latestLSN
    /\ ipc' = [ipc EXCEPT ![i] = "idle"]
    /\ UNCHANGED <<page, currentBlock, disk, latestLSN, cpc, myLSN, iterBlock>>

Next ==
    \/ \E c \in Clients : LogAppend(c) \/ LogFlush(c) \/ Proceed(c)
    \/ \E i \in Iterators : IterReadBlock(i) \/ IterWrite(i) \/ IterSetSaved(i)

Spec == Init /\ [][Next]_vars

-----------------------------------------------------------------------------
(* Properties *)

\* A record whose Flush(lsn) has returned is in the log file: this is what
\* Buffer.flush relies on before it writes a data page (write-ahead
\* logging) and Commit relies on for durability.  Flush returns without
\* writing when lsn < lastSavedLSN, so an iterator's unlocked flush that
\* sets lastSavedLSN past a record it did not write, or that writes a later
\* page over the block it read (erasing flushed records), breaks it.
FlushedIsDurable == \A c \in Clients : cpc[c] = "flushed" => myLSN[c] \in Durable

====
