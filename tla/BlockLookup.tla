---------------------------- MODULE BlockLookup -----------------------------
(***************************************************************************)
(* What find_block_by_timestamp (src/src/lib.rs) promises, as if the chain *)
(* could be read at once: some time after the question, the answer is the  *)
(* first block at or after the target, or the latest if none is later than *)
(* it.                                                                     *)
(***************************************************************************)
EXTENDS Integers, Sequences

VARIABLES
    chain,    \* the timestamps of the blocks; block n is chain[n + 1]
    state,    \* "idle", "asked", "answered" or "panicked"
    query,    \* the timestamp asked for
    answer    \* the block answered

vars == <<chain, state, query, answer>>

Time(n) == chain[n + 1]
Latest == Len(chain) - 1

(* Block n is the answer for time t. *)
Answers(n, t) ==
    /\ n \in 0 .. Latest
    /\ IF t >= Time(Latest) THEN n = Latest
       ELSE Time(n) >= t /\ \A m \in 0 .. n - 1 : Time(m) < t

Init ==
    /\ chain \in Seq(Nat) /\ Len(chain) = 1
    /\ state = "idle" /\ query = 0 /\ answer = 0

Mine ==
    /\ Len(chain') = Len(chain) + 1
    /\ LET t == chain'[Len(chain')] IN
          t \in Nat /\ t >= Time(Latest) /\ chain' = Append(chain, t)
    /\ UNCHANGED <<state, query, answer>>

Ask ==
    /\ state \in {"idle", "answered"}
    /\ state' = "asked" /\ query' \in Nat /\ answer' = 0
    /\ UNCHANGED chain

Reply ==
    /\ state = "asked"
    /\ state' = "answered" /\ Answers(answer', query)
    /\ UNCHANGED <<chain, query>>

GiveUp ==
    /\ state = "asked"
    /\ state' = "panicked"
    /\ UNCHANGED <<chain, query, answer>>

Next == Mine \/ Ask \/ Reply \/ GiveUp

Spec == Init /\ [][Next]_vars
=============================================================================
