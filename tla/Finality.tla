------------------------------ MODULE Finality ------------------------------
(***************************************************************************)
(* is_epoch_finalized (src/src/finality.rs): whether what Arbitrum did in  *)
(* an epoch can still change.  It is final when the batch that holds it is *)
(* in a final block of L1.  The function finds the batch, then the block   *)
(* of the batch, page by page, then the final block: a request for each,   *)
(* while both chains grow and the end of L1 is reorganised.                *)
(***************************************************************************)
EXTENDS Integers, Sequences

CONSTANTS
    SearchRange,     \* SEARCH_RANGE_BLOCKS
    MaxIterations,   \* MAX_SEARCH_ITERATIONS
    ReorgDepth,      \* no more blocks than this are ever replaced
    Slack,           \* blocks that come while one request is awaited
    Depth,           \* final blocks have this many blocks above them
    MaxBlocks,       \* bound: blocks of L1
    MaxBatches       \* bound: batches of L2

(* The last conjunct is what the comparison of two answers rests on: what  *)
(* may still be replaced cannot become final within one request.           *)
ASSUME FinalityAssumption ==
    /\ SearchRange \in Nat /\ MaxIterations \in Nat
    /\ ReorgDepth \in Nat /\ Slack \in Nat \ {0} /\ Depth \in Nat
    /\ MaxBlocks \in Nat /\ MaxBatches \in Nat
    /\ ReorgDepth + Slack <= Depth

VARIABLES
    l1,        \* the blocks of L1: the batch each has delivered, or 0
    top,       \* the highest block L1 ever had
    final,     \* the last final block, 0 if there is none
    l2,        \* the batches' worth of blocks L2 has produced
    l1End,     \* first block of L1 at or after the end of the epoch
    l2End,     \* the batch of the first block of L2 at or after it
    asked,     \* history: final and l2 when the question was asked
    phase,     \* the request awaited, or how the last question ended
    batch,     \* the batch found on L2
    latest, start, from, pages,   \* get_l1_block_for_batch
    found,     \* the block of the batch, 0 for None
    seen       \* history: top when the batch was found

chains == <<l1, top, final, l2, l1End, l2End>>
search == <<batch, latest, start, from, pages, found, seen>>
vars == <<chains, search, asked, phase>>

Tip == Len(l1)
Least(a, b) == IF a <= b THEN a ELSE b

Answers == {"idle", "yes", "no", "error", "panicked"}
Requests == {"l2 block", "batch", "latest", "start", "logs", "finalized"}

Init ==
    /\ l1 = <<0>> /\ top = 1 /\ final = 0 /\ l2 = 1
    /\ l1End \in 1 .. MaxBlocks /\ l2End \in 1 .. MaxBatches
    /\ asked = [final |-> 0, l2 |-> 0] /\ phase = "idle"
    /\ batch = 0 /\ latest = 0 /\ start = 0 /\ from = 0 /\ pages = 0
    /\ found = 0 /\ seen = 0

-----------------------------------------------------------------------------
(* The chains.                                                             *)

Delivered(k) == \E n \in 1 .. Tip : l1[n] = k

(* Batches are delivered in order, one to a block.                         *)
MayDeliver(k) ==
    \/ k = 0
    \/ /\ k \in 1 .. l2 /\ ~Delivered(k)
       /\ \A j \in 1 .. k - 1 : Delivered(j)

Mine ==
    /\ Tip < MaxBlocks
    /\ phase = "finalized" => Tip < seen + Slack
    /\ \E k \in 0 .. l2 : MayDeliver(k) /\ l1' = Append(l1, k)
    /\ top' = IF Tip + 1 > top THEN Tip + 1 ELSE top
    /\ UNCHANGED <<final, l2, l1End, l2End, search, asked, phase>>

Reorg ==
    /\ \E n \in 1 .. Tip - 1 :
          n >= top - ReorgDepth /\ l1' = SubSeq(l1, 1, n)
    /\ UNCHANGED <<top, final, l2, l1End, l2End, search, asked, phase>>

Finalise ==
    /\ \E n \in final + 1 .. Tip : n <= top - Depth /\ final' = n
    /\ UNCHANGED <<l1, top, l2, l1End, l2End, search, asked, phase>>

Produce ==
    /\ l2 < MaxBatches /\ l2' = l2 + 1
    /\ UNCHANGED <<l1, top, final, l1End, l2End, search, asked, phase>>

Chain == Mine \/ Reorg \/ Finalise \/ Produce

-----------------------------------------------------------------------------
(* is_epoch_finalized and the two functions it calls.                      *)

Ask ==
    /\ phase \in Answers \ {"panicked"}
    /\ phase' = "l2 block" /\ asked' = [final |-> final, l2 |-> l2]
    /\ batch' = 0 /\ latest' = 0 /\ start' = 0 /\ from' = 0 /\ pages' = 0
    /\ found' = 0 /\ seen' = 0
    /\ UNCHANGED chains

(* find_block_by_timestamp answers the latest block if no block is late    *)
(* enough.                                                                 *)
FindL2Block ==
    /\ phase = "l2 block"
    /\ phase' = "batch" /\ batch' = Least(l2End, l2)
    /\ UNCHANGED <<chains, asked, latest, start, from, pages, found, seen>>

FindBatch ==
    /\ phase = "batch"
    /\ phase' = IF Delivered(batch) THEN "latest" ELSE "error"
    /\ UNCHANGED <<chains, asked, search>>

ReadLatest ==
    /\ phase = "latest"
    /\ phase' = "start" /\ latest' = Tip
    /\ UNCHANGED <<chains, asked, batch, start, from, pages, found, seen>>

(* Seeded fault: one page more than the iterations allow.                  *)
PageOneMore(n, i) ==
    /\ from' = n /\ pages' = i
    /\ phase' = IF n < latest /\ i <= MaxIterations THEN "logs" ELSE "no"

(* The loop's condition.                                                   *)
Page(n, i) ==
    /\ from' = n /\ pages' = i
    /\ phase' = IF n < latest /\ i < MaxIterations THEN "logs" ELSE "no"

FindStart ==
    /\ phase = "start"
    /\ start' = Least(l1End, Tip)
    /\ Page(Least(l1End, Tip), 0)
    /\ UNCHANGED <<chains, asked, batch, latest, found, seen>>

PageEnd == Least(from + SearchRange, latest)

InPage == {n \in from .. Least(PageEnd, Tip) : l1[n] = batch}

Found ==
    /\ found' \in InPage /\ seen' = top
    /\ phase' = "finalized"
    /\ UNCHANGED <<from, pages>>

(* Seeded fault: pages do not overlap, and do not meet either.             *)
GetLogsWithGaps ==
    /\ phase = "logs"
    /\ \/ Found
       \/ /\ InPage = {} /\ UNCHANGED <<found, seen>>
          /\ Page(PageEnd + 2, pages + 1)
    /\ UNCHANGED <<chains, asked, batch, latest, start>>

GetLogs ==
    /\ phase = "logs"
    /\ \/ Found
       \/ /\ InPage = {} /\ UNCHANGED <<found, seen>>
          /\ Page(PageEnd + 1, pages + 1)
    /\ UNCHANGED <<chains, asked, batch, latest, start>>

(* Seeded fault: a block has ReorgDepth blocks above it and is final.      *)
ReadFinalizedByDepth ==
    /\ phase = "finalized"
    /\ phase' = IF Tip - ReorgDepth >= found THEN "yes" ELSE "no"
    /\ UNCHANGED <<chains, asked, search>>

ReadFinalized ==
    /\ phase = "finalized"
    /\ phase' = IF final >= found THEN "yes" ELSE "no"
    /\ UNCHANGED <<chains, asked, search>>

(* A search for a block panics after its last attempt, every other request *)
(* returns its error.                                                      *)
RequestFails ==
    /\ phase \in Requests
    /\ phase' = IF phase \in {"l2 block", "start"} THEN "panicked" ELSE "error"
    /\ UNCHANGED <<chains, asked, search>>

Request ==
    \/ FindL2Block \/ FindBatch \/ ReadLatest \/ FindStart
    \/ GetLogs \/ ReadFinalized \/ RequestFails

Next == Chain \/ Ask \/ Request

Spec == Init /\ [][Next]_vars

-----------------------------------------------------------------------------
TypeOK ==
    /\ l1 \in Seq(Nat) /\ l1 # <<>> /\ top \in Nat /\ final \in Nat
    /\ l2 \in Nat \ {0} /\ l1End \in Nat \ {0} /\ l2End \in Nat \ {0}
    /\ asked \in [final : Nat, l2 : Nat]
    /\ phase \in Answers \cup Requests
    /\ batch \in Nat /\ latest \in Nat /\ start \in Nat /\ from \in Nat
    /\ pages \in 0 .. MaxIterations /\ found \in Nat /\ seen \in Nat

(* An epoch is called final only if all that L2 had of it when the question *)
(* was asked is in a final block: for good, although the block of the batch *)
(* and the final block were read one after the other, on an L1 whose end    *)
(* may be replaced in between.                                              *)
YesIsFinal ==
    phase = "yes" =>
        \E n \in 1 .. final : n <= Tip /\ l1[n] >= Least(l2End, asked.l2)

(* A batch that was final when the question was asked is not overlooked,   *)
(* wherever the pages of the search begin and end: only a batch that is    *)
(* older than the epoch's end is, or one beyond the last page allowed      *)
(* (what the design says of those is AnyDelayHandled).                     *)
Reach == start .. start + MaxIterations * (SearchRange + 1) - 1

NoIsRight ==
    phase = "no" =>
        ~ \E n \in Reach : n <= asked.final /\ l1[n] = batch

(* "Paginate forward in 2000-block chunks [...] until we find the event or *)
(* reach L1's latest block", which "handles arbitrary batch posting delays" *)
(* (DESIGN_AND_RATIONALE.md:185, 188): no batch is too late to be found.   *)
AnyDelayHandled ==
    phase = "no" =>
        ~ \E n \in start .. asked.final : l1[n] = batch
=============================================================================
