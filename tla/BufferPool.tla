----------------------------- MODULE BufferPool -----------------------------
(***************************************************************************)
(* The buffer pool of mydb (buffer/buffer.go: Manager.Pin, tryToPin,       *)
(* findExistingBuffer, Unpin; Buffer.assignToBlock, pin, unpin), its naive *)
(* replacement strategy (utils/int_type.go) and the per-transaction        *)
(* BufferList (src/unnamed/part_006: Pin, Unpin, UnpinAll).                *)
(*                                                                         *)
(* Every Manager method runs under m.mu, so one pass of Pin's loop and one *)
(* Unpin call are one step each.  A Pin that finds no frame blocks in      *)
(* cond.Wait until a Broadcast from Unpin or from its 10 s deadline.       *)
(* Page contents and the dirty-frame flush of assignToBlock are in         *)
(* Recovery.tla; here a frame is the block it holds and its pin count.     *)
(***************************************************************************)
EXTENDS Integers, FiniteSetsExt

CONSTANTS
    Tx,          \* transactions, each with its own BufferList
    Blocks,      \* blocks that can be pinned
    NumBuffers,  \* frames in the pool
    MaxRef,      \* bound on the times a transaction pins one block
    MaxPins,     \* bound on the Pin calls of each transaction (the workload)
    NoBlock      \* block of a frame never assigned

ASSUME NumBuffers >= 1 /\ MaxRef >= 1 /\ MaxPins >= 1

\* The pool, in the order bufferPool lists it.
Frames == 1 .. NumBuffers

VARIABLES
    blockOf,      \* Buffer.block of each frame
    pins,         \* Buffer.pins of each frame
    numAvailable, \* Manager.numAvailable
    refs,         \* refs[t][b]: refCount of t's BufferList entry for b, 0 if none
    frameOf,      \* frameOf[t][b]: the frame of that entry, 0 if none
    pc,           \* where transaction t is
    req,          \* t's pending Manager.Pin: its block and whether its deadline fired
    calls         \* Pin calls t has made so far

vars == <<blockOf, pins, numAvailable, refs, frameOf, pc, req, calls>>

NoReq == [blk |-> NoBlock, expired |-> FALSE]

TypeOK ==
    /\ blockOf \in [Frames -> Blocks \cup {NoBlock}]
    /\ pins \in [Frames -> 0 .. Cardinality(Tx)]
    /\ numAvailable \in 0 .. NumBuffers
    /\ refs \in [Tx -> [Blocks -> 0 .. MaxRef]]
    /\ frameOf \in [Tx -> [Blocks -> {0} \cup Frames]]
    /\ pc \in [Tx -> {"idle", "blocked", "woken", "unpinningAll"}]
    /\ req \in [Tx -> [blk : Blocks, expired : BOOLEAN] \cup {NoReq}]
    /\ calls \in [Tx -> 0 .. MaxPins]

\* NewManagerWithReplacementStrategy and NewBuffer: all frames free.
Init ==
    /\ blockOf = [i \in Frames |-> NoBlock]
    /\ pins = [i \in Frames |-> 0]
    /\ numAvailable = NumBuffers
    /\ refs = [t \in Tx |-> [b \in Blocks |-> 0]]
    /\ frameOf = [t \in Tx |-> [b \in Blocks |-> 0]]
    /\ pc = [t \in Tx |-> "idle"]
    /\ req = [t \in Tx |-> NoReq]
    /\ calls = [t \in Tx |-> 0]

-----------------------------------------------------------------------------
(* Manager *)

\* Mutant: a frame counts as pinned only with two pins.
isPinnedOffByOne(i) == pins[i] > 1

\* Buffer.isPinned.
isPinned(i) == pins[i] > 0

\* findExistingBuffer: the frame assigned to b, if any.
Existing(b) == {i \in Frames : blockOf[i] = b}

\* NaiveStrategy.chooseUnpinnedBuffer: the first frame not pinned.
Unpinned == {i \in Frames : ~isPinned(i)}

\* cond.Broadcast wakes every goroutine blocked in cond.Wait.
Broadcast(p) == [u \in Tx |-> IF p[u] = "blocked" THEN "woken" ELSE p[u]]

(* One pass of Manager.Pin's loop for t's request r: tryToPin finds the    *)
(* block's frame or replaces the first unpinned one (assignToBlock resets  *)
(* its pins to 0), then pins it; BufferList.Pin records the entry with     *)
(* refCount 1.  If no frame is free, t waits.                              *)
PinPass(t, r) ==
    \/ /\ Existing(r.blk) # {} \/ Unpinned # {}
       /\ LET i    == IF Existing(r.blk) # {} THEN Min(Existing(r.blk)) ELSE Min(Unpinned)
              held == IF Existing(r.blk) # {} THEN pins[i] ELSE 0
          IN  /\ blockOf' = [blockOf EXCEPT ![i] = r.blk]
              /\ pins' = [pins EXCEPT ![i] = held + 1]
              /\ numAvailable' = IF held > 0 THEN numAvailable ELSE numAvailable - 1
              /\ refs' = [refs EXCEPT ![t][r.blk] = 1]
              /\ frameOf' = [frameOf EXCEPT ![t][r.blk] = i]
       /\ pc' = [pc EXCEPT ![t] = "idle"]
       /\ req' = [req EXCEPT ![t] = NoReq]
    \/ /\ Existing(r.blk) = {} /\ Unpinned = {}
       /\ pc' = [pc EXCEPT ![t] = "blocked"]
       /\ req' = [req EXCEPT ![t] = r]
       /\ UNCHANGED <<blockOf, pins, numAvailable, refs, frameOf>>

\* Mutant: Manager.Unpin does not wake the waiters.
PoolUnpinNoBroadcast(i) ==
    /\ pins' = [pins EXCEPT ![i] = @ - 1]
    /\ numAvailable' = IF pins[i] - 1 > 0 THEN numAvailable ELSE numAvailable + 1
    /\ UNCHANGED pc

\* Manager.Unpin: one pin less; a frame that is no longer pinned is
\* available again and the waiters are woken.
PoolUnpin(i) ==
    /\ pins' = [pins EXCEPT ![i] = @ - 1]
    /\ IF pins[i] - 1 > 0
       THEN UNCHANGED <<numAvailable, pc>>
       ELSE /\ numAvailable' = numAvailable + 1
            /\ pc' = Broadcast(pc)

-----------------------------------------------------------------------------
(* Transaction operations *)

\* BufferList.Pin: a block t already pinned only gains a reference;
\* otherwise Manager.Pin runs its first pass with a fresh deadline.
Pin(t, b) ==
    /\ pc[t] = "idle"
    /\ calls[t] < MaxPins
    /\ calls' = [calls EXCEPT ![t] = @ + 1]
    /\ \/ /\ refs[t][b] > 0
          /\ refs[t][b] < MaxRef
          /\ refs' = [refs EXCEPT ![t][b] = @ + 1]
          /\ UNCHANGED <<blockOf, pins, numAvailable, frameOf, pc, req>>
       \/ /\ refs[t][b] = 0
          /\ PinPass(t, [blk |-> b, expired |-> FALSE])

\* The context.AfterFunc callback: the deadline fires and broadcasts.
Deadline(t) ==
    /\ pc[t] \in {"blocked", "woken"}
    /\ ~req[t].expired
    /\ req' = [req EXCEPT ![t].expired = TRUE]
    /\ pc' = Broadcast(pc)
    /\ UNCHANGED <<blockOf, pins, numAvailable, refs, frameOf, calls>>

\* Mutant: the loop retries without checking ctx.Err().
WokenIgnoringDeadline(t) ==
    /\ pc[t] = "woken"
    /\ PinPass(t, req[t])
    /\ UNCHANGED calls

\* A woken Pin checks ctx.Err() ("buffer abort": BufferList.Pin returns
\* the error and records nothing), then tries again.
Woken(t) ==
    /\ pc[t] = "woken"
    /\ \/ /\ req[t].expired
          /\ pc' = [pc EXCEPT ![t] = "idle"]
          /\ req' = [req EXCEPT ![t] = NoReq]
          /\ UNCHANGED <<blockOf, pins, numAvailable, refs, frameOf>>
       \/ ~req[t].expired /\ PinPass(t, req[t])
    /\ UNCHANGED calls

\* BufferList.Unpin: the last reference unpins the frame and drops the entry.
Unpin(t, b) ==
    /\ pc[t] = "idle"
    /\ refs[t][b] > 0
    /\ refs' = [refs EXCEPT ![t][b] = @ - 1]
    /\ IF refs[t][b] = 1
       THEN /\ PoolUnpin(frameOf[t][b])
            /\ frameOf' = [frameOf EXCEPT ![t][b] = 0]
       ELSE UNCHANGED <<pins, numAvailable, frameOf, pc>>
    /\ UNCHANGED <<blockOf, req, calls>>

\* Commit and Rollback end with BufferList.UnpinAll.
BeginUnpinAll(t) ==
    /\ pc[t] = "idle"
    /\ pc' = [pc EXCEPT ![t] = "unpinningAll"]
    /\ UNCHANGED <<blockOf, pins, numAvailable, refs, frameOf, req, calls>>

\* One iteration of UnpinAll's inner loop: refCount-- and Manager.Unpin,
\* as many times as the entry's refCount.
UnpinAllStep(t, b) ==
    /\ pc[t] = "unpinningAll"
    /\ refs[t][b] > 0
    /\ refs' = [refs EXCEPT ![t][b] = @ - 1]
    /\ PoolUnpin(frameOf[t][b])
    /\ UNCHANGED <<blockOf, frameOf, req, calls>>

\* UnpinAll clears the map.
EndUnpinAll(t) ==
    /\ pc[t] = "unpinningAll"
    /\ \A b \in Blocks : refs[t][b] = 0
    /\ frameOf' = [frameOf EXCEPT ![t] = [b \in Blocks |-> 0]]
    /\ pc' = [pc EXCEPT ![t] = "idle"]
    /\ UNCHANGED <<blockOf, pins, numAvailable, refs, req, calls>>

Next ==
    \E t \in Tx :
        \/ Deadline(t) \/ Woken(t) \/ BeginUnpinAll(t) \/ EndUnpinAll(t)
        \/ \E b \in Blocks : Pin(t, b) \/ Unpin(t, b) \/ UnpinAllStep(t, b)

\* The runtime fires the deadline timer and reschedules woken goroutines;
\* no transaction is obliged to unpin.
Fairness == \A t \in Tx : WF_vars(Deadline(t)) /\ WF_vars(Woken(t))

Spec == Init /\ [][Next]_vars /\ Fairness

-----------------------------------------------------------------------------
(* Properties *)

\* A transaction's pinned buffer keeps holding the block it pinned: the
\* pool never replaces a frame some BufferList entry still refers to,
\* except one its owner is giving up in UnpinAll.  This is what the
\* callers of BufferList.GetBuffer (Transaction.GetInt, SetInt) rely on
\* when they read or write the page.
HeldFramesKeepBlock ==
    \A t \in Tx, b \in Blocks :
        (refs[t][b] > 0 /\ pc[t] # "unpinningAll") => blockOf[frameOf[t][b]] = b

\* numAvailable, which Available() reports, counts the frames that are not
\* pinned, and each frame's pin count is the number of BufferList entries
\* on it (one pool pin per entry, whatever its refCount).
PinsMatchLists ==
    /\ numAvailable = Cardinality(Unpinned)
    /\ \A i \in Frames :
         pins[i] = Cardinality({tb \in Tx \X Blocks :
                                   refs[tb[1]][tb[2]] > 0 /\ frameOf[tb[1]][tb[2]] = i})

\* No Pin sleeps in cond.Wait while a frame for it exists: every Unpin
\* that frees a frame broadcasts.
NoStrandedPinner ==
    \A t \in Tx :
        pc[t] = "blocked" => Existing(req[t].blk) = {} /\ Unpinned = {}

\* Every Pin that waits returns, with a frame or a buffer abort after the
\* 10 s deadline, even if no transaction ever unpins.
PinReturns == \A t \in Tx : pc[t] \in {"blocked", "woken"} ~> pc[t] = "idle"

====
