------------------------------- MODULE Claims -------------------------------
(***************************************************************************)
(* The two JSON files of a route (src/src/tasks/mod.rs) as pure operators: *)
(* the schedule's Vec<Task> and the claims' Vec<ClaimData>.                *)
(*                                                                         *)
(* A Vec<Task> is a set of tasks that carry their place in it, so that two *)
(* equal tasks pushed twice stay two tasks.  A claims file is a function   *)
(* from epochs, because ClaimStore::store refuses a second entry.          *)
(***************************************************************************)
EXTENDS Naturals, FiniteSets

CONSTANTS
    Epochs,     \* the epochs of the bridge that are modelled
    NoClaim,    \* no entry in the claims file; on chain, the zero claim hash
    NoTask      \* the dispatcher holds no task

(* stateRoot against inbox.snapshots(epoch): all the code does with a root. *)
Roots == {"correct", "wrong"}

(* ClaimData::honest and VeaOutbox's Party. *)
Parties == {"None", "Claimer", "Challenger"}

(* Address::ZERO, the validator's wallet, somebody else. *)
Addresses == {"zero", "me", "other"}

ClaimData == [root: Roots, claimed: Nat, verification: Nat,
              honest: Parties, challenger: Addresses]

NewClaim(root, ts) ==
    [root |-> root, claimed |-> ts, verification |-> 0,
     honest |-> "None", challenger |-> "zero"]

Kinds == {"ValidateClaim", "Challenge", "SendSnapshot", "StartVerification",
          "VerifySnapshot", "ExecuteRelay", "WithdrawDeposit"}

(* `place` is the index in the Vec; `position` is the outbox position that *)
(* an ExecuteRelay carries, and 0 in every other task.                     *)
Task == [place: Nat, epoch: Epochs, kind: Kinds, after: Nat, position: Nat]

-----------------------------------------------------------------------------
(* TaskStore *)

TasksOf(tasks, e, kinds) == {t \in tasks : t.epoch = e /\ t.kind \in kinds}

(* What Vec::retain leaves: the kept tasks, closed up. *)
Retain(kept) ==
    {[t EXCEPT !.place = 1 + Cardinality({u \in kept : u.place < t.place})] :
        t \in kept}

AddTask(tasks, e, kind, after, position) ==
    tasks \cup {[place |-> 1 + Cardinality(tasks), epoch |-> e, kind |-> kind,
                 after |-> after, position |-> position]}

Invalidate(tasks, e, kinds) == Retain(tasks \ TasksOf(tasks, e, kinds))

(* Seeded fault: every task of the epoch goes. *)
RemoveTaskOfAnyKind(tasks, task) == Retain(tasks \ TasksOf(tasks, task.epoch, Kinds))

(* remove_task compares epoch and kind name only: it takes every duplicate. *)
RemoveTask(tasks, task) == Retain(tasks \ TasksOf(tasks, task.epoch, {task.kind}))

(* reschedule_task stops at the first match. *)
RescheduleTask(tasks, task, after) ==
    LET same  == TasksOf(tasks, task.epoch, {task.kind})
        first == {t \in same : \A u \in same : t.place <= u.place}
    IN  (tasks \ first) \cup {[t EXCEPT !.after = after] : t \in first}

-----------------------------------------------------------------------------
(* ClaimStore: the panics of store, update and get are guards of the       *)
(* actions that call them.                                                 *)

Exists(claims, e) == claims[e] # NoClaim
StoreClaim(claims, e, claim) == [claims EXCEPT ![e] = claim]
RemoveClaim(claims, e) == [claims EXCEPT ![e] = NoClaim]
=============================================================================
