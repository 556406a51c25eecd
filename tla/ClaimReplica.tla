---------------------------- MODULE ClaimReplica ----------------------------
(***************************************************************************)
(* What the claims file promises, without saying how: it is a lagging      *)
(* replica of the outbox's claims.  It learns the events of an epoch one   *)
(* at a time and in their order, skips none, never goes back, and forgets  *)
(* an epoch only when its deposit has been withdrawn.                      *)
(***************************************************************************)
EXTENDS Naturals, FiniteSets

CONSTANT Epochs

VARIABLES
    published,   \* events the outbox has emitted about an epoch
    known,       \* which of them, by number, the file reflects
    settled      \* the epoch's claim hash is back to zero

vars == <<published, known, settled>>

TypeOK ==
    /\ published \in [Epochs -> Nat]
    /\ known \in [Epochs -> SUBSET Nat]
    /\ settled \in [Epochs -> BOOLEAN]

Init ==
    /\ published = [e \in Epochs |-> 0]
    /\ known = [e \in Epochs |-> {}]
    /\ settled = [e \in Epochs |-> FALSE]

Publish(e) ==
    /\ ~settled[e]
    /\ published' = [published EXCEPT ![e] = @ + 1]
    /\ UNCHANGED <<known, settled>>

Settle(e) ==
    /\ ~settled[e] /\ published[e] > 0
    /\ settled' = [settled EXCEPT ![e] = TRUE]
    /\ UNCHANGED <<published, known>>

Learn(e) ==
    /\ Cardinality(known[e]) < published[e]
    /\ known' = [known EXCEPT ![e] = 1 .. (Cardinality(@) + 1)]
    /\ UNCHANGED <<published, settled>>

Forget(e) ==
    /\ settled[e] /\ known[e] # {}
    /\ known' = [known EXCEPT ![e] = {}]
    /\ UNCHANGED <<published, settled>>

Next == \E e \in Epochs : Publish(e) \/ Settle(e) \/ Learn(e) \/ Forget(e)

Spec == Init /\ [][Next]_vars
=============================================================================
