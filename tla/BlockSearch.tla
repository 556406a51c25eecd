---------------------------- MODULE BlockSearch -----------------------------
(***************************************************************************)
(* find_block_by_timestamp (src/src/lib.rs): where the indexer starts and  *)
(* how far it may scan, and where the finality check looks.  A bisection   *)
(* with a request for each block it looks at, while blocks are mined and   *)
(* requests fail.                                                          *)
(***************************************************************************)
EXTENDS Integers, Sequences

CONSTANTS
    Targets,     \* the timestamps asked for
    Attempts,    \* RPC_RETRY_DELAYS.len()
    MaxBlocks,   \* bound: blocks of the chain
    MaxTime      \* bound: timestamp of the last block

ASSUME SearchAssumption ==
    /\ Targets \subseteq Nat /\ Attempts \in Nat \ {0}
    /\ MaxBlocks \in Nat /\ MaxTime \in Nat

VARIABLES
    chain,     \* the timestamps of the blocks; block n is chain[n + 1]
    phase,     \* the request awaited, or how the last search ended
    target,    \* target_ts
    lo, hi,    \* the bracket; the answer is lo
    attempt    \* requests that failed in get_block_with_retry

vars == <<chain, phase, target, lo, hi, attempt>>

Time(n) == chain[n + 1]
Latest == Len(chain) - 1

Phases == {"idle", "latest", "probe", "done", "panicked"}

Init ==
    /\ \E t \in 0 .. MaxTime : chain = <<t>>
    /\ phase = "idle" /\ target = 0
    /\ lo = 0 /\ hi = 0 /\ attempt = 0

(* Timestamps do not decrease; several blocks may have the same.           *)
Mine ==
    /\ Len(chain) < MaxBlocks
    /\ \E t \in Time(Latest) .. MaxTime : chain' = Append(chain, t)
    /\ UNCHANGED <<phase, target, lo, hi, attempt>>

Ask ==
    /\ phase \in {"idle", "done"}
    /\ phase' = "latest" /\ \E t \in Targets : target' = t
    /\ lo' = 0 /\ hi' = 0 /\ attempt' = 0
    /\ UNCHANGED chain

(* The loop's condition, after lo and hi have been set.                    *)
Loop(l, h) ==
    /\ lo' = l /\ hi' = h /\ attempt' = 0
    /\ phase' = IF l < h THEN "probe" ELSE "done"
    /\ UNCHANGED <<chain, target>>

(* Seeded fault: the latest block is answered for the time just before it. *)
ReadLatestLoosely ==
    /\ phase = "latest"
    /\ IF target + 1 >= Time(Latest) THEN Loop(Latest, Latest) ELSE Loop(0, Latest)

ReadLatest ==
    /\ phase = "latest"
    /\ IF target >= Time(Latest) THEN Loop(Latest, Latest) ELSE Loop(0, Latest)

Mid == lo + (hi - lo) \div 2

(* Seeded fault: the block that is too early stays in the bracket.         *)
ProbeStuck ==
    /\ phase = "probe"
    /\ IF Time(Mid) < target THEN Loop(Mid, hi) ELSE Loop(lo, Mid)

(* Seeded fault: a block of exactly the target's time is too early.        *)
ProbeBeyond ==
    /\ phase = "probe"
    /\ IF Time(Mid) <= target THEN Loop(Mid + 1, hi) ELSE Loop(lo, Mid)

Probe ==
    /\ phase = "probe"
    /\ IF Time(Mid) < target THEN Loop(Mid + 1, hi) ELSE Loop(lo, Mid)

Searching == phase \in {"latest", "probe"}

GiveUp == phase' = "panicked" /\ UNCHANGED <<chain, target, lo, hi, attempt>>

(* get_block_with_retry keeps the bracket over the failed attempts.        *)
RequestFails ==
    /\ Searching
    /\ \/ attempt < Attempts - 1
          /\ attempt' = attempt + 1
          /\ UNCHANGED <<chain, phase, target, lo, hi>>
       \/ attempt = Attempts - 1 /\ GiveUp

(* Ok(None): the node that answers does not have the block (yet).          *)
BlockMissing == Searching /\ GiveUp

Request == ReadLatest \/ Probe \/ RequestFails \/ BlockMissing

Next == Mine \/ Ask \/ Request

(* A request is answered or times out after 30 seconds.                    *)
Spec == Init /\ [][Next]_vars
FairSpec == Spec /\ WF_vars(Request)

-----------------------------------------------------------------------------
TypeOK ==
    /\ chain \in Seq(Nat) /\ chain # <<>>
    /\ phase \in Phases
    /\ target \in Nat /\ lo \in Nat /\ hi \in Nat
    /\ attempt \in 0 .. Attempts - 1

(* Every block before lo is too early, and hi is late enough, whatever has *)
(* been mined since the search began.                                      *)
Bracketed ==
    phase = "probe" =>
        /\ lo < hi /\ hi <= Latest
        /\ target <= Time(hi) /\ target < Time(Latest)
        /\ \A m \in 0 .. lo - 1 : Time(m) < target

Lookup == INSTANCE BlockLookup WITH
    state  <- IF Searching THEN "asked"
              ELSE IF phase = "done" THEN "answered" ELSE phase,
    query  <- target,
    answer <- IF phase = "done" THEN lo ELSE 0

(* Many requests, with blocks mined in between, look like one reading of   *)
(* the whole chain at the moment of the answer.                            *)
SearchIsLookup == Lookup!Spec

(* No search goes on for ever: failures are counted, the bracket shrinks,  *)
(* and new blocks do not widen it.                                         *)
EachSearchEnds == Searching ~> ~Searching
=============================================================================
