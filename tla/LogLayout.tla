----------------------------- MODULE LogLayout ------------------------------
(***************************************************************************)
(* The bytes of the log: the page accessors (src/unnamed/part_002), the    *)
(* log records' writers and CreateLogRecord's decoders (src/tx/*.go,       *)
(* part_003, part_004), Manager.Append and appendNewBlock                  *)
(* (src/log/manager.go), and the log Iterator (part_000).                  *)
(*                                                                         *)
(* A page is a sequence of bytes; offset o is index o + 1.  IntSize is     *)
(* utils.IntSize: 4 on 386 and arm, 8 elsewhere.  Every number the model   *)
(* writes is below 2^24, so a big-endian int has at most three nonzero     *)
(* bytes; a read with a nonzero byte above those is a value of 2^24 or     *)
(* more, which is HugeInt here.  Every byte written is below 0x80, so the  *)
(* UTF-8 checks of SetString and GetString always pass.                    *)
(***************************************************************************)
EXTENDS Integers, Sequences, SequencesExt

CONSTANTS
    IntSize,     \* utils.IntSize
    BlockSize,   \* the file manager's block size
    MaxRecords,  \* bound on the records written
    TxNum,       \* the transaction number in the records
    BlockNum,    \* the block number in update records
    FileName,    \* the file name in update records, as bytes
    Values       \* the pre-images in update records

ASSUME /\ IntSize \in {4, 8}
       /\ BlockSize \in 16 .. 127
       /\ {TxNum, BlockNum} \cup Values \subseteq 0 .. 127
       /\ FileName \in Seq(1 .. 127)

\* LogRecordType and FromCode.
Checkpoint == 0
Start      == 1
Commit     == 2
Rollback   == 3
SetInt     == 4
SetString  == 5
SetBool    == 6
SetLong    == 7
SetShort   == 8
SetDate    == 9
UpdateOps  == {SetInt, SetString, SetBool, SetLong, SetShort, SetDate}

Bytes == 0 .. 255
HugeInt == 2^30
Zeros(n) == [i \in 1 .. n |-> 0]

\* A Go panic (an index out of range) in place of the bytes an operation
\* returns; -1 is no byte.
Panic == <<-1>>

-----------------------------------------------------------------------------
(* file.Page *)

\* binary.BigEndian.PutUint{16,32,64}: w bytes, most significant first.
BigEndian(n, w) ==
    [k \in 1 .. w |-> IF w - k >= 3 THEN 0 ELSE (n \div 256^(w - k)) % 256]

\* binary.BigEndian.Uint{16,32,64}.
FromBigEndian(bs) ==
    IF \E k \in 1 .. Len(bs) - 3 : bs[k] # 0 THEN HugeInt
    ELSE FoldLeft(LAMBDA acc, b : 256 * acc + b, 0, bs)

\* w bytes at offset o are inside buf (otherwise the access panics).
Fits(buf, o, w) == o >= 0 /\ o + w <= Len(buf)

\* Writing bytes at offset o: PutUintN and buffer[offset] = ... panic when
\* they do not fit.
Put(buf, o, bs) ==
    IF buf = Panic \/ ~Fits(buf, o, Len(bs)) THEN Panic
    ELSE [i \in 1 .. Len(buf) |-> IF i > o /\ i <= o + Len(bs) THEN bs[i - o] ELSE buf[i]]

\* Page.GetInt, where the offset fits.
GetInt(buf, o) == FromBigEndian(SubSeq(buf, o + 1, o + IntSize))

\* Page.SetInt.
PageSetInt(buf, o, n) == Put(buf, o, BigEndian(n, IntSize))

\* Mutant: SetBytes appends to buffer[:start] instead of copying into it.
PageSetBytesAppend(buf, o, b) ==
    LET p == PageSetInt(buf, o, Len(b))
    IN  IF p = Panic \/ o + IntSize > Len(p) THEN Panic
        ELSE SubSeq(p, 1, o + IntSize) \o b

\* Page.SetBytes (and SetString): an IntSize length, then copy, which stops
\* at the end of the buffer.
PageSetBytes(buf, o, b) ==
    LET p     == PageSetInt(buf, o, Len(b))
        start == o + IntSize
    IN  IF p = Panic \/ start > Len(p) THEN Panic
        ELSE [i \in 1 .. Len(p) |->
                IF i > start /\ i <= start + Len(b) THEN b[i - start] ELSE p[i]]

\* Page.GetBytes (and GetString) at offset o: the bytes, or Panic when the
\* length or the slice buffer[start:end] is out of range.
GetBytes(buf, o) ==
    IF ~Fits(buf, o, IntSize) THEN Panic
    ELSE LET start == o + IntSize
             end   == start + GetInt(buf, o)
         IN  IF end > Len(buf) THEN Panic ELSE SubSeq(buf, start + 1, end)

\* file.MaxLength.
MaxLength(strlen) == IntSize + strlen * 4

-----------------------------------------------------------------------------
(* Writing records: the Write*ToLog functions build the record's bytes. *)

\* A record as the transaction layer means it.
Rec(op, tx, fname, blk, off, val) ==
    [op |-> op, tx |-> tx, fname |-> fname, blk |-> blk, off |-> off, val |-> val]

\* The field offsets of an update record whose file name has fnLen bytes.
UpdatePositions(fnLen) ==
    LET fn  == 2 * IntSize
        blk == fn + MaxLength(fnLen)
    IN  [tx |-> IntSize, fn |-> fn, blk |-> blk, off |-> blk + IntSize,
         val |-> blk + 2 * IntSize]

WriterPos == UpdatePositions(Len(FileName))

\* The common part of WriteSet*ToLog: a record of valLen value bytes with
\* the tag, tx number, file name, block number and offset set in order.
UpdateHeader(r, valLen) ==
    LET b0 == Zeros(WriterPos.val + valLen)
        b1 == PageSetInt(PageSetInt(b0, 0, r.op), WriterPos.tx, r.tx)
    IN  PageSetInt(PageSetInt(PageSetBytes(b1, WriterPos.fn, r.fname),
                              WriterPos.blk, r.blk), WriterPos.off, r.off)

WriteSetIntToLog(r)    == PageSetInt(UpdateHeader(r, IntSize), WriterPos.val, r.val)
WriteSetStringToLog(r) == PageSetBytes(UpdateHeader(r, MaxLength(1)), WriterPos.val, <<r.val>>)
WriteSetBoolToLog(r)   == Put(UpdateHeader(r, 1), WriterPos.val, <<IF r.val # 0 THEN 1 ELSE 0>>)
WriteSetLongToLog(r)   == Put(UpdateHeader(r, 8), WriterPos.val, BigEndian(r.val, 8))
WriteSetShortToLog(r)  == Put(UpdateHeader(r, 2), WriterPos.val, BigEndian(r.val, 2))
WriteSetDateToLog(r)   == Put(UpdateHeader(r, 8), WriterPos.val, BigEndian(r.val, 8))

\* A 4-byte record whose tag is written with SetInt.
WriteCheckpointToLog == PageSetInt(Zeros(4), 0, Checkpoint)

\* 2 * IntSize bytes: the tag, then the transaction number at offset 4.
WriteStartToLog(r) == PageSetInt(PageSetInt(Zeros(2 * IntSize), 0, Start), 4, r.tx)

\* 2 * IntSize bytes: the tag, then the transaction number at IntSize.
WriteCommitToLog(r) == PageSetInt(PageSetInt(Zeros(2 * IntSize), 0, Commit), IntSize, r.tx)

\* 2 * IntSize bytes: the tag, then the transaction number at offset 4.
WriteRollbackToLog(r) == PageSetInt(PageSetInt(Zeros(2 * IntSize), 0, Rollback), 4, r.tx)

\* The bytes the transaction layer hands to Manager.Append for record r.
Encode(r) ==
    CASE r.op = Checkpoint -> WriteCheckpointToLog
      [] r.op = Start      -> WriteStartToLog(r)
      [] r.op = Commit     -> WriteCommitToLog(r)
      [] r.op = Rollback   -> WriteRollbackToLog(r)
      [] r.op = SetInt     -> WriteSetIntToLog(r)
      [] r.op = SetString  -> WriteSetStringToLog(r)
      [] r.op = SetBool    -> WriteSetBoolToLog(r)
      [] r.op = SetLong    -> WriteSetLongToLog(r)
      [] r.op = SetShort   -> WriteSetShortToLog(r)
      [] r.op = SetDate    -> WriteSetDateToLog(r)

-----------------------------------------------------------------------------
(* Reading records: CreateLogRecord and the New*Record constructors read  *)
(* the bytes of one record through a page of exactly that size.           *)

\* A record read back; status "panic" is an index out of range and
\* "error" an error returned.
Decoded(op, tx, fname, blk, off, val) ==
    [status |-> "ok"] @@ Rec(op, tx, fname, blk, off, val)
PanicRec == [status |-> "panic"]
ErrorRec == [status |-> "error"]

NewCheckpointRecord == Decoded(Checkpoint, -1, <<>>, 0, 0, 0)

NewStartRecord(bs) ==
    IF Fits(bs, IntSize, IntSize) THEN Decoded(Start, GetInt(bs, IntSize), <<>>, 0, 0, 0)
    ELSE PanicRec

NewCommitRecord(bs) ==
    IF Fits(bs, IntSize, IntSize) THEN Decoded(Commit, GetInt(bs, IntSize), <<>>, 0, 0, 0)
    ELSE PanicRec

\* The transaction number is read at 0 * IntSize, the tag's offset.
NewRollbackRecord(bs) == Decoded(Rollback, GetInt(bs, 0 * IntSize), <<>>, 0, 0, 0)

\* The fields every NewSet*Record reads before its value: the tx number,
\* the file name (GetString), the block number and the offset, with the
\* offset of the value; ok is FALSE where one of these reads panics.
ReadUpdate(bs) ==
    LET fname == GetBytes(bs, 2 * IntSize)
        pos   == UpdatePositions(Len(fname))
    IN  IF ~Fits(bs, IntSize, IntSize) \/ fname = Panic
           \/ ~Fits(bs, pos.blk, IntSize) \/ ~Fits(bs, pos.off, IntSize)
        THEN [ok |-> FALSE]
        ELSE [ok |-> TRUE, tx |-> GetInt(bs, IntSize), fname |-> fname,
              blk |-> GetInt(bs, pos.blk), off |-> GetInt(bs, pos.off), valPos |-> pos.val]

\* An update record with the value val read at u.valPos, if it fits.
DecodedUpdate(op, u, fits, val) ==
    IF u.ok /\ fits THEN Decoded(op, u.tx, u.fname, u.blk, u.off, val) ELSE PanicRec

\* The value of a one-character string; any other string is none of Values.
StrVal(s) == IF Len(s) = 1 THEN s[1] ELSE HugeInt

NewSetIntRecord(bs) ==
    LET u == ReadUpdate(bs) IN
    DecodedUpdate(SetInt, u, u.ok /\ Fits(bs, u.valPos, IntSize), GetInt(bs, u.valPos))
NewSetStringRecord(bs) ==
    LET u == ReadUpdate(bs) IN
    DecodedUpdate(SetString, u, u.ok /\ GetBytes(bs, u.valPos) # Panic,
                  StrVal(GetBytes(bs, u.valPos)))
NewSetBoolRecord(bs) ==
    LET u == ReadUpdate(bs) IN
    DecodedUpdate(SetBool, u, u.ok /\ Fits(bs, u.valPos, 1),
                  IF bs[u.valPos + 1] # 0 THEN 1 ELSE 0)
NewSetLongRecord(bs) ==
    LET u == ReadUpdate(bs) IN
    DecodedUpdate(SetLong, u, u.ok /\ Fits(bs, u.valPos, 8),
                  FromBigEndian(SubSeq(bs, u.valPos + 1, u.valPos + 8)))
NewSetShortRecord(bs) ==
    LET u == ReadUpdate(bs) IN
    DecodedUpdate(SetShort, u, u.ok /\ Fits(bs, u.valPos, 2),
                  FromBigEndian(SubSeq(bs, u.valPos + 1, u.valPos + 2)))
NewSetDateRecord(bs) ==
    LET u == ReadUpdate(bs) IN
    DecodedUpdate(SetDate, u, u.ok /\ Fits(bs, u.valPos, 8),
                  FromBigEndian(SubSeq(bs, u.valPos + 1, u.valPos + 8)))

\* CreateLogRecord: the tag is GetInt(0); FromCode rejects unknown codes.
CreateLogRecord(bs) ==
    IF ~Fits(bs, 0, IntSize) THEN PanicRec
    ELSE LET code == GetInt(bs, 0) IN
         CASE code = Checkpoint -> NewCheckpointRecord
           [] code = Start      -> NewStartRecord(bs)
           [] code = Commit     -> NewCommitRecord(bs)
           [] code = Rollback   -> NewRollbackRecord(bs)
           [] code = SetInt     -> NewSetIntRecord(bs)
           [] code = SetString  -> NewSetStringRecord(bs)
           [] code = SetBool    -> NewSetBoolRecord(bs)
           [] code = SetLong    -> NewSetLongRecord(bs)
           [] code = SetShort   -> NewSetShortRecord(bs)
           [] code = SetDate    -> NewSetDateRecord(bs)
           [] OTHER             -> ErrorRec

-----------------------------------------------------------------------------
(* The log file: Manager.Append and the Iterator *)

\* Mutant: the test forgets the 4 bytes of the boundary itself.
IsFullNoHeader(boundary, needed) == boundary - needed < 0

\* Append's test that the record and its 4-byte length do not fit above
\* the 4-byte boundary.
IsFull(boundary, needed) == boundary - needed < 4

\* appendNewBlock: SetInt(0, blockSize) on the log page, which keeps its
\* old bytes, and the page written as a new block at the end of the file.
AppendNewBlock(pg, dk) ==
    LET p == PageSetInt(pg, 0, BlockSize) IN [page |-> p, disk |-> Append(dk, p)]

\* Manager.Append(rec) on log page pg with the file dk (the last block being
\* the current one): when full, flush the page and start a new block; put
\* the record below the boundary with SetBytes and store its position as
\* the new boundary.  The result is the new page and file; its page is
\* Panic where a write panics.
LogAppend(pg, dk, rec) ==
    LET needed == Len(rec) + 4
        full   == IsFull(GetInt(pg, 0), needed)
        nb     == AppendNewBlock(pg, [dk EXCEPT ![Len(dk)] = pg])
        pg1    == IF full THEN nb.page ELSE pg
        dk1    == IF full THEN nb.disk ELSE dk
        pos    == GetInt(pg1, 0) - needed
        pg2    == PageSetInt(PageSetBytes(pg1, pos, rec), 0, pos)
    IN  [page |-> pg2, disk |-> dk1]

\* Mutant: the step forgets the record's length prefix.
NextPositionNoPrefix(pos, record) == pos + Len(record)

\* Iterator.Next's step past a record.
NextPosition(pos, record) == pos + 4 + Len(record)

\* The first n records an Iterator returns from position pos of block k on
\* (block k is block number k - 1), until HasNext fails; a Panic ends
\* them.  When pos is the block size, Next moves to the previous block
\* and reads at its boundary.
RECURSIVE IterRecords(_, _, _, _)
IterRecords(blocks, k, pos, n) ==
    IF n = 0 \/ ~(pos < BlockSize \/ k > 1) THEN <<>>
    ELSE LET move   == pos = BlockSize
             k2     == IF move THEN k - 1 ELSE k
             pos2   == IF move THEN GetInt(blocks[k2], 0) ELSE pos
             record == GetBytes(blocks[k2], pos2)
         IN  IF record = Panic THEN <<Panic>>
             ELSE <<record>> \o IterRecords(blocks, k2, NextPosition(pos2, record), n - 1)

-----------------------------------------------------------------------------
(* The transaction layer writing records to the log, one at a time *)

VARIABLES
    page,     \* the log manager's page
    disk,     \* the log file, block by block; the last is the current block
    written,  \* the records handed to the log, in order
    halted    \* a write panicked: the process is gone

vars == <<page, disk, written, halted>>

\* The records the transaction layer writes.
Inputs ==
    {Rec(Checkpoint, -1, <<>>, 0, 0, 0)}
    \cup {Rec(op, TxNum, <<>>, 0, 0, 0) : op \in {Start, Commit, Rollback}}
    \cup {Rec(op, TxNum, FileName, BlockNum, 0, v) : op \in UpdateOps, v \in Values}

TypeOK ==
    /\ page \in [1 .. BlockSize -> Bytes]
    /\ disk \in Seq([1 .. BlockSize -> Bytes])
    /\ written \in Seq(Inputs)
    /\ halted \in BOOLEAN

\* NewManager on an empty log file: appendNewBlock on a zero page.
Init ==
    /\ page = PageSetInt(Zeros(BlockSize), 0, BlockSize)
    /\ disk = <<page>>
    /\ written = <<>>
    /\ halted = FALSE

\* Write*ToLog(r) followed by Manager.Append; a panic in either stops the
\* process.
WriteRecord(r) ==
    /\ ~halted
    /\ Len(written) < MaxRecords
    /\ written' = Append(written, r)
    /\ LET bs  == Encode(r)
           res == LogAppend(page, disk, bs)
       IN  IF bs = Panic \/ res.page = Panic
           THEN /\ halted' = TRUE
                /\ UNCHANGED <<page, disk>>
           ELSE /\ page' = res.page
                /\ disk' = res.disk
                /\ UNCHANGED halted

Next == \E r \in Inputs : WriteRecord(r)

Spec == Init /\ [][Next]_vars

-----------------------------------------------------------------------------
(* Properties *)

\* The log as Manager.Iterator reads it: the page flushed to the current
\* block, read from its boundary backwards; one record more than were
\* written is enough to tell the whole log from a longer one.
LogContents == [disk EXCEPT ![Len(disk)] = page]
ReadBack == IterRecords(LogContents, Len(LogContents), GetInt(page, 0), Len(written) + 1)

\* r is what a record read back as d says, apart from a rollback's
\* transaction number (the Recovery model's rollback_record_decode run).
Recovers(d, r) ==
    /\ d.status = "ok"
    /\ d.op = r.op
    /\ r.op # Rollback => d.tx = r.tx
    /\ d.fname = r.fname /\ d.blk = r.blk /\ d.off = r.off /\ d.val = r.val

\* The round trip recovery depends on: iterating over the log from its end
\* and decoding each record with CreateLogRecord gives back every record
\* the transaction layer wrote, newest first, and nothing else.
LogRecovers ==
    LET got == ReadBack IN
    /\ Len(got) = Len(written)
    /\ \A i \in 1 .. Len(got) :
          Recovers(CreateLogRecord(got[i]), written[Len(written) + 1 - i])

\* The records of a page from position pos to the block size, each a
\* length and the bytes it counts, end exactly at the block size.
RECURSIVE Chained(_, _)
Chained(pg, pos) ==
    \/ pos = BlockSize
    \/ /\ pos < BlockSize
       /\ Fits(pg, pos, IntSize)
       /\ pos + 4 + GetInt(pg, pos) <= BlockSize
       /\ Chained(pg, pos + 4 + GetInt(pg, pos))

\* The log boundary invariant of Manager.Append: in every block of the
\* log the boundary lies between the 4 bytes that hold it and the block
\* size, and the bytes from it to the end are a chain of records.
BoundaryInvariant ==
    \A k \in DOMAIN LogContents :
        LET b == GetInt(LogContents[k], 0) IN
        /\ 4 <= b /\ b <= BlockSize
        /\ Chained(LogContents[k], b)

====
