----------------------------- MODULE Dispatcher -----------------------------
(***************************************************************************)
(* TaskDispatcher::process_pending (src/src/tasks/dispatcher.rs) and the   *)
(* tasks it executes (src/src/tasks/*.rs).  The ready tasks are copies     *)
(* taken before the loop: nothing the indexer invalidates meanwhile is     *)
(* taken out of them.                                                      *)
(***************************************************************************)
EXTENDS Process

dispatcherFrame == UNCHANGED <<bootVars, cursor, indexingSince, onSync>>
noTransaction == UNCHANGED chainVars

(* One pass ends when its copies are used up. *)
Pass(ready, now) ==
    IF ready = {} THEN IdleDispatcher
    ELSE [IdleDispatcher EXCEPT !.phase = "next", !.ready = ready, !.now = now]

(* process_pending loads the schedule, if the indexer is in sync,          *)
(* (an empty schedule makes a pass of no effect, left out)                 *)
Poll ==
    /\ Running /\ disp.phase = "idle"
    /\ onSync /\ tasks # {}
    /\ disp' = [disp EXCEPT !.phase = "polled", !.ready = tasks]
    /\ dispatcherFrame /\ noTransaction /\ UNCHANGED <<tasks, claims, route, idx>>

(* then awaits the latest block, *)
ReadNow ==
    /\ Running /\ disp.phase = "polled"
    /\ disp' = Pass({t \in disp.ready : clock >= t.after}, clock)
    /\ dispatcherFrame /\ noTransaction /\ UNCHANGED <<tasks, claims, route, idx>>

ReadNowFailed ==
    /\ "rpc" \in Faults
    /\ Running /\ disp.phase = "polled"
    /\ disp' = IdleDispatcher
    /\ dispatcherFrame /\ noTransaction /\ UNCHANGED <<tasks, claims, route, idx>>

-----------------------------------------------------------------------------
(* How a task ends.  success = true removes every task of its epoch and    *)
(* kind, and every branch that reschedules returns true as well.           *)

MoveOn == disp' = Pass(disp.ready, disp.now) /\ UNCHANGED <<route, idx>>

(* What the task itself writes, `scheduled` or the claims, comes first;    *)
(* remove_task is a write of its own, and a kill can fall in between.      *)
Succeed(scheduled) ==
    \/ tasks' = RemoveTask(scheduled, disp.task) /\ MoveOn
    \/ "crash" \in Faults /\ tasks' = scheduled /\ Die("down")

Complete == Succeed(tasks) /\ UNCHANGED claims

Reschedule ==
    /\ Succeed(RescheduleTask(tasks, disp.task, disp.now + RetryDelay))
    /\ UNCHANGED claims

Keep == MoveOn /\ UNCHANGED <<tasks, claims>>

Forget == Succeed(tasks) /\ claims' = RemoveClaim(claims, disp.task.epoch)

Wait(phase, claim) ==
    /\ disp' = [disp EXCEPT !.phase = phase, !.claim = claim]
    /\ UNCHANGED <<tasks, claims, route, idx>>

Doing(phase, kinds) ==
    Running /\ disp.phase = phase /\ disp.task.kind \in kinds

(* Code before the task's first await.  The tasks that start with the      *)
(* claims file read it here; the others start with a request.              *)
FirstWait == [ValidateClaim |-> "finality", Challenge |-> "finality",
              ExecuteRelay |-> "spent", WithdrawDeposit |-> "hash"]

BeginTask(t) ==
    LET claim == claims[t.epoch]
        taken == [disp EXCEPT !.ready = @ \ {t}, !.task = t]
    IN  /\ Running /\ disp.phase = "next"
        /\ t \in disp.ready /\ \A u \in disp.ready : t.place <= u.place
        /\ \/ /\ t.kind \in DOMAIN FirstWait
              /\ disp' = [taken EXCEPT !.phase = FirstWait[t.kind]]
              /\ UNCHANGED <<tasks, claims, route, idx>>
           \/ /\ t.kind \notin DOMAIN FirstWait /\ claim = NoClaim
              /\ Die("No claim found") /\ UNCHANGED <<tasks, claims>>
           \/ /\ t.kind \in {"StartVerification", "VerifySnapshot"}
              /\ claim # NoClaim /\ claim.challenger # "zero"
              /\ tasks' = RemoveTask(tasks, t)
              /\ disp' = Pass(disp.ready \ {t}, disp.now)
              /\ UNCHANGED <<claims, route, idx>>
           \/ /\ t.kind \notin DOMAIN FirstWait /\ claim # NoClaim
              /\ t.kind = "SendSnapshot" \/ claim.challenger = "zero"
              /\ disp' = [taken EXCEPT !.phase = "send", !.claim = claim]
              /\ UNCHANGED <<tasks, claims, route, idx>>
        /\ dispatcherFrame /\ noTransaction

(* A request before the transaction failed: Err, the task stays, except    *)
(* that ExecuteRelay reschedules on every error, *)
RequestFailed ==
    /\ "rpc" \in Faults
    /\ \/ Doing("send", {"Challenge"})
       \/ Running /\ disp.phase \in {"finality", "compare", "hash", "spent"}
    /\ IF disp.task.kind = "ExecuteRelay" THEN Reschedule ELSE Keep
    /\ dispatcherFrame /\ noTransaction

(* and that is_epoch_finalized's two searches for a block end in a panic.  *)
BlockSearchFailed ==
    /\ "rpc" \in Faults
    /\ Doing("finality", {"ValidateClaim", "Challenge"})
    /\ Die("rpc")
    /\ dispatcherFrame /\ noTransaction /\ UNCHANGED <<tasks, claims>>

-----------------------------------------------------------------------------
(* Seeded fault: the first claim of the file is taken for the epoch's. *)
CheckFinalityFirstClaim ==
    /\ Doing("finality", {"ValidateClaim", "Challenge"})
    /\ \E e \in Epochs :
          /\ claims[e] # NoClaim
          /\ Wait(IF disp.task.kind = "ValidateClaim" THEN "compare" ELSE "send",
                  claims[e])
    /\ dispatcherFrame /\ noTransaction

(* is_epoch_finalized, in ValidateClaim and Challenge.  Only the former's   *)
(* EpochNotFinalized has a branch in execute_task.                         *)
CheckFinality ==
    /\ Doing("finality", {"ValidateClaim", "Challenge"})
    /\ LET claim == claims[disp.task.epoch]
           validating == disp.task.kind = "ValidateClaim"
       IN  \/ /\ "notFinal" \in Faults
              /\ IF validating THEN Reschedule ELSE Keep
           \/ /\ claim = NoClaim
              /\ Die("No claim found") /\ UNCHANGED <<tasks, claims>>
           \/ /\ claim # NoClaim
              /\ Wait(IF validating THEN "compare" ELSE "send", claim)
    /\ dispatcherFrame /\ noTransaction

(* Seeded fault: the roots are compared the wrong way round. *)
JudgeInverted ==
    /\ Doing("compare", {"ValidateClaim"})
    /\ LET e == disp.task.epoch IN
       IF disp.claim.root # "correct"
       THEN Succeed(AddTask(tasks, e, "StartVerification",
                            disp.now + StartDelay + Slack, 0))
       ELSE Succeed(AddTask(tasks, e, "Challenge", disp.now, 0))
    /\ UNCHANGED claims
    /\ dispatcherFrame /\ noTransaction

(* ValidateClaim after inbox.snapshots(epoch). *)
Judge ==
    /\ Doing("compare", {"ValidateClaim"})
    /\ LET e == disp.task.epoch IN
       IF disp.claim.root = "correct"
       THEN Succeed(AddTask(tasks, e, "StartVerification",
                            disp.now + StartDelay + Slack, 0))
       ELSE Succeed(AddTask(tasks, e, "Challenge", disp.now, 0))
    /\ UNCHANGED claims
    /\ dispatcherFrame /\ noTransaction

(* Challenge after outbox.deposit() and the wallet's balance. *)
OutOfFunds ==
    /\ "funds" \in Faults
    /\ Doing("send", {"Challenge"})
    /\ Reschedule
    /\ dispatcherFrame /\ noTransaction

(* WithdrawDeposit after outbox.claimHashes(epoch). *)
CheckHash ==
    /\ Doing("hash", {"WithdrawDeposit"})
    /\ LET e == disp.task.epoch
           claim == claims[e]
       IN  \/ claimHash[e] = NoClaim /\ Forget
           \/ /\ claimHash[e] # NoClaim /\ claim = NoClaim
              /\ Die("No claim found") /\ UNCHANGED <<tasks, claims>>
           \/ /\ claimHash[e] # NoClaim /\ claim # NoClaim /\ claim.honest = "None"
              /\ Die("honest party not determined") /\ UNCHANGED <<tasks, claims>>
           \/ /\ claimHash[e] # NoClaim /\ claim # NoClaim /\ claim.honest # "None"
              /\ Wait("send", claim)
    /\ dispatcherFrame /\ noTransaction

(* ExecuteRelay after outbox.isSpent(position) and outbox.roots(root). *)
CheckSpent ==
    /\ Doing("spent", {"ExecuteRelay"})
    /\ \/ disp.task.position \in spent /\ Complete
       \/ disp.task.position \notin spent /\ "unconfirmed" \in Faults /\ Reschedule
       \/ disp.task.position \notin spent /\ Wait("send", NoClaim)
    /\ dispatcherFrame /\ noTransaction

-----------------------------------------------------------------------------
(* send_tx: the transaction is mined, then its receipt is read.            *)

Transaction(kind, e, claim, position) ==
    \/ kind = "Challenge" /\ Challenge(e, claim, "me")
    \/ kind = "StartVerification" /\ StartVerification(e, claim)
    \/ kind = "VerifySnapshot" /\ VerifySnapshot(e, claim)
    \/ kind = "SendSnapshot" /\ SendSnapshot(e, claim, TRUE)
    \/ kind = "WithdrawDeposit" /\ WithdrawDeposit(e, claim)
    \/ kind = "ExecuteRelay" /\ Relay(position)

CanLand(kind, e, claim, position) ==
    \/ kind = "Challenge" /\ CanChallenge(e, claim)
    \/ kind = "StartVerification" /\ CanStart(e, claim)
    \/ kind = "VerifySnapshot" /\ CanVerify(e, claim)
    \/ kind = "SendSnapshot" /\ CanSend
    \/ kind = "WithdrawDeposit" /\ CanWithdraw(e, claim)
    \/ kind = "ExecuteRelay" /\ CanRelay(position)

Answered(result) == disp' = [disp EXCEPT !.phase = "result", !.result = result]

Land ==
    LET t == disp.task IN
    /\ Running /\ disp.phase = "send"
    /\ Transaction(t.kind, t.epoch, disp.claim, t.position)
    /\ \/ Answered("ok")
       \/ "lost" \in Faults /\ Answered("error")
    /\ dispatcherFrame /\ UNCHANGED <<tasks, claims, route, idx>>

(* The contract refuses, or the transaction is not sent at all.  A claim   *)
(* that is no longer the hashed one reverts with "Invalid claim", unless   *)
(* the reason is lost on the way (decode_revert_reason).                   *)
Revert ==
    LET t == disp.task IN
    /\ Running /\ disp.phase = "send"
    /\ \/ /\ "rpc" \in Faults \/ ~CanLand(t.kind, t.epoch, disp.claim, t.position)
          /\ Answered("error")
       \/ /\ t.kind \notin {"SendSnapshot", "ExecuteRelay"}
          /\ claimHash[t.epoch] # disp.claim /\ Answered("invalid")
    /\ dispatcherFrame /\ noTransaction /\ UNCHANGED <<tasks, claims, route, idx>>

(* was_event_emitted; a failed request reads as "no".                      *)
WasEventEmitted(kind, e) ==
    \E i \in DOMAIN log :
        log[i].kind = kind /\ log[i].epoch = e /\ log[i].ts + Window >= clock

Seen(kind, e) ==
    {WasEventEmitted(kind, e)} \cup (IF "rpc" \in Faults THEN {FALSE} ELSE {})

(* Seeded fault: a claim is forgotten as soon as its outcome is sealed. *)
ConfirmedForgetsSealed ==
    /\ Running /\ disp.phase = "result" /\ disp.result = "ok"
    /\ IF disp.task.kind \in {"WithdrawDeposit", "VerifySnapshot", "ExecuteRelay"}
       THEN Forget ELSE Complete
    /\ dispatcherFrame /\ noTransaction

(* Receipt read, transaction succeeded. *)
Confirmed ==
    /\ Running /\ disp.phase = "result" /\ disp.result = "ok"
    /\ IF disp.task.kind = "WithdrawDeposit" THEN Forget ELSE Complete
    /\ dispatcherFrame /\ noTransaction

Failed(kinds) == Doing("result", kinds) /\ disp.result # "ok"

RescheduleIfInvalid == IF disp.result = "invalid" THEN Reschedule ELSE Keep

ChallengeFailed ==
    /\ Failed({"Challenge"})
    /\ \E challenged \in Seen("Challenged", disp.task.epoch),
          started \in Seen("VerificationStarted", disp.task.epoch) :
          \/ challenged /\ Complete
          \/ ~challenged /\ started /\ Reschedule
          \/ ~challenged /\ ~started /\ RescheduleIfInvalid
    /\ dispatcherFrame /\ noTransaction

(* Somebody else did it, or challenged: the task is dropped.               *)
DropIfEmitted(done) ==
    \E finished \in Seen(done, disp.task.epoch),
       challenged \in Seen("Challenged", disp.task.epoch) :
       IF finished \/ challenged THEN Complete ELSE RescheduleIfInvalid

StartVerificationFailed ==
    /\ Failed({"StartVerification"})
    /\ DropIfEmitted("VerificationStarted")
    /\ dispatcherFrame /\ noTransaction

VerifySnapshotFailed ==
    /\ Failed({"VerifySnapshot"})
    /\ DropIfEmitted("Verified")
    /\ dispatcherFrame /\ noTransaction

(* Seeded fault: a failed withdrawal is taken for one that was done before. *)
WithdrawFailedForgets ==
    /\ Failed({"WithdrawDeposit"})
    /\ Forget
    /\ dispatcherFrame /\ noTransaction

WithdrawFailed ==
    /\ Failed({"WithdrawDeposit"})
    /\ \/ claimHash[disp.task.epoch] = NoClaim /\ Forget
       \/ claimHash[disp.task.epoch] # NoClaim /\ Keep
       \/ "rpc" \in Faults /\ Keep
    /\ dispatcherFrame /\ noTransaction

SendFailed ==
    /\ Failed({"SendSnapshot"})
    /\ Keep
    /\ dispatcherFrame /\ noTransaction

RelayFailed ==
    /\ Failed({"ExecuteRelay"})
    /\ Reschedule
    /\ dispatcherFrame /\ noTransaction

Work ==
    \/ Poll \/ ReadNow
    \/ \E t \in disp.ready : BeginTask(t)
    \/ CheckFinality \/ Judge \/ CheckHash \/ CheckSpent

Sending ==
    \/ Land \/ Revert \/ Confirmed
    \/ ChallengeFailed \/ StartVerificationFailed \/ VerifySnapshotFailed
    \/ WithdrawFailed \/ SendFailed \/ RelayFailed

DispatcherStep == Work \/ Sending

DispatcherFault ==
    ReadNowFailed \/ RequestFailed \/ BlockSearchFailed \/ OutOfFunds
=============================================================================
