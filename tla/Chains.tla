------------------------------- MODULE Chains -------------------------------
(***************************************************************************)
(* What a route of the validator talks to: the VeaOutbox contract that     *)
(* holds claims, the VeaInbox contract that sends snapshots, and Arbitrum's *)
(* Outbox that executes relayed messages.  None of them is in the          *)
(* repository (src/src/contracts.rs holds their ABI): each is modelled from *)
(* the calls the code makes, the errors it expects and the events it reads. *)
(*                                                                         *)
(* A block number and its timestamp are one number, `clock`.  A claim hash *)
(* is the claim itself: the hash is injective, and the code only compares. *)
(***************************************************************************)
EXTENDS Claims, Sequences

CONSTANTS
    MaxClock,          \* bound: the last block
    MaxSent,           \* bound: snapshots sent through the inbox
    StartDelay,        \* outbox: age of a claim before startVerification
    ChallengePeriod,   \* outbox: minChallengePeriod
    ClaimRoots,        \* the roots claimers may post
    Rivals             \* what other validators may do

RivalSteps == {"challenge", "start", "verify", "send", "relay", "withdraw"}

ASSUME ChainsAssumption ==
    /\ MaxClock \in Nat /\ MaxSent \in Nat
    /\ StartDelay \in Nat /\ ChallengePeriod \in Nat
    /\ ClaimRoots \subseteq Roots
    /\ Rivals \subseteq RivalSteps
    /\ NoClaim \notin ClaimData

VARIABLES
    clock,       \* latest block of every chain
    claimHash,   \* outbox.claimHashes, as the claim that was hashed
    log,         \* the outbox's events, in block order
    sent,        \* the inbox's SnapshotSent messages; an index is a position
    spent        \* positions executed on the Outbox

chainVars == <<clock, claimHash, log, sent, spent>>

EventKinds == {"Claimed", "VerificationStarted", "Challenged", "Verified"}

(* arg: the root of a Claimed, the challenger of a Challenged. *)
Event == [kind: EventKinds, epoch: Epochs, ts: Nat,
          arg: Roots \cup Addresses \cup {"-"}]

Message == [epoch: Epochs, ts: Nat, mine: BOOLEAN, claim: ClaimData]

ChainsTypeOK ==
    /\ clock \in Nat
    /\ claimHash \in [Epochs -> ClaimData \cup {NoClaim}]
    /\ log \in Seq(Event)
    /\ sent \in Seq(Message)
    /\ spent \subseteq Nat

ChainsInit ==
    /\ clock = 1
    /\ claimHash = [e \in Epochs |-> NoClaim]
    /\ log = <<>>
    /\ sent = <<>>
    /\ spent = {}

Emit(kind, e, arg) ==
    log' = Append(log, [kind |-> kind, epoch |-> e, ts |-> clock, arg |-> arg])

Emitted(kind, e) == \E i \in DOMAIN log : log[i].kind = kind /\ log[i].epoch = e

Tick == clock < MaxClock /\ clock' = clock + 1 /\ UNCHANGED <<claimHash, log, sent, spent>>

-----------------------------------------------------------------------------
(* VeaOutbox.  Every call checks hash(claim) against claimHashes[epoch].   *)

(* An epoch can be claimed while it is the latest finished one, so once.   *)
Claim(e, root) ==
    /\ claimHash[e] = NoClaim /\ ~Emitted("Claimed", e)
    /\ claimHash' = [claimHash EXCEPT ![e] = NewClaim(root, clock)]
    /\ Emit("Claimed", e, root)
    /\ UNCHANGED <<clock, sent, spent>>

Open(e, c) ==
    claimHash[e] = c /\ c # NoClaim /\ c.honest = "None"

CanChallenge(e, c) == Open(e, c) /\ c.challenger = "zero"

Challenge(e, c, who) ==
    /\ CanChallenge(e, c)
    /\ claimHash' = [claimHash EXCEPT ![e] = [c EXCEPT !.challenger = who]]
    /\ Emit("Challenged", e, who)
    /\ UNCHANGED <<clock, sent, spent>>

CanStart(e, c) ==
    /\ Open(e, c) /\ c.challenger = "zero"
    /\ c.verification = 0 /\ clock >= c.claimed + StartDelay

StartVerification(e, c) ==
    /\ CanStart(e, c)
    /\ claimHash' = [claimHash EXCEPT ![e] = [c EXCEPT !.verification = clock]]
    /\ Emit("VerificationStarted", e, "-")
    /\ UNCHANGED <<clock, sent, spent>>

CanVerify(e, c) ==
    /\ Open(e, c) /\ c.challenger = "zero"
    /\ c.verification # 0 /\ clock >= c.verification + ChallengePeriod

VerifySnapshot(e, c) ==
    /\ CanVerify(e, c)
    /\ claimHash' = [claimHash EXCEPT ![e] = [c EXCEPT !.honest = "Claimer"]]
    /\ Emit("Verified", e, "-")
    /\ UNCHANGED <<clock, sent, spent>>

(* withdrawClaimDeposit and withdrawChallengeDeposit: the caller picks the *)
(* one its own record of the winner names, so the record must match.       *)
CanWithdraw(e, c) == claimHash[e] = c /\ c # NoClaim /\ c.honest # "None"

WithdrawDeposit(e, c) ==
    /\ CanWithdraw(e, c)
    /\ claimHash' = [claimHash EXCEPT ![e] = NoClaim]
    /\ UNCHANGED <<clock, log, sent, spent>>

-----------------------------------------------------------------------------
(* VeaInbox.sendSnapshot and Outbox.executeTransaction *)

CanSend == Len(sent) < MaxSent

SendSnapshot(e, c, mine) ==
    /\ CanSend
    /\ sent' = Append(sent, [epoch |-> e, ts |-> clock, mine |-> mine, claim |-> c])
    /\ UNCHANGED <<clock, claimHash, log, spent>>

(* The message carries the claim its sender knew.  resolveDisputedClaim    *)
(* reverts, and the execution with it, unless that is still the claim.     *)
CanRelay(i) ==
    /\ i \in DOMAIN sent /\ i \notin spent
    /\ Open(sent[i].epoch, sent[i].claim)
    /\ sent[i].claim.challenger # "zero"

Relay(i) ==
    LET e == sent[i].epoch
        winner == IF sent[i].claim.root = "correct" THEN "Claimer" ELSE "Challenger"
    IN  /\ CanRelay(i)
        /\ claimHash' = [claimHash EXCEPT ![e] = [sent[i].claim EXCEPT !.honest = winner]]
        /\ Emit("Verified", e, "-")
        /\ spent' = spent \cup {i}
        /\ UNCHANGED <<clock, sent>>

(* Claimers (the epoch watcher's own claims among them) and the other      *)
(* validators, who know the chain's current claim.                         *)
Others ==
    \/ \E e \in Epochs, root \in ClaimRoots : Claim(e, root)
    \/ \E e \in Epochs : "challenge" \in Rivals /\ Challenge(e, claimHash[e], "other")
    \/ \E e \in Epochs : "start" \in Rivals /\ StartVerification(e, claimHash[e])
    \/ \E e \in Epochs : "verify" \in Rivals /\ VerifySnapshot(e, claimHash[e])
    \/ \E e \in Epochs :
          /\ "send" \in Rivals
          /\ Open(e, claimHash[e]) /\ claimHash[e].challenger # "zero"
          /\ SendSnapshot(e, claimHash[e], FALSE)
    \/ \E i \in DOMAIN sent : "relay" \in Rivals /\ Relay(i)
    \/ \E e \in Epochs : "withdraw" \in Rivals /\ WithdrawDeposit(e, claimHash[e])
=============================================================================
