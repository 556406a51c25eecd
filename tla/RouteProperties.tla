-------------------------- MODULE RouteProperties ---------------------------
(***************************************************************************)
(* What must be true of a route, whoever else acts on the bridge and       *)
(* whatever fails outside.                                                 *)
(***************************************************************************)
EXTENDS Route

(* Record c of epoch e tells event ev: the field ev is about has its value *)
(* (the winner as this validator judges it).                               *)
Tells(c, ev) ==
    /\ c # NoClaim
    /\ \/ ev.kind = "Claimed" /\ c.root = ev.arg /\ c.claimed = ev.ts
       \/ ev.kind = "VerificationStarted" /\ c.verification = ev.ts
       \/ ev.kind = "Challenged" /\ c.challenger = ev.arg
       \/ /\ ev.kind = "Verified"
          /\ c.honest = IF c.root = "correct" THEN "Claimer" ELSE "Challenger"

EventsOf(e) == {i \in DOMAIN log : log[i].epoch = e}

Told(e, c) == {i \in EventsOf(e) : Tells(c, log[i])}

(* All that c has on epoch e is from events of the epoch, *)
OnlyEvents(e, c) ==
    LET tells(kind) == \E i \in Told(e, c) : log[i].kind = kind IN
    c # NoClaim =>
        /\ tells("Claimed")
        /\ c.verification # 0 => tells("VerificationStarted")
        /\ c.challenger # "zero" => tells("Challenged")
        /\ c.honest # "None" => tells("Verified")

(* and these are the first of them. *)
NoGaps(e, c) == \A i \in Told(e, c), j \in EventsOf(e) : j < i => j \in Told(e, c)

-----------------------------------------------------------------------------
(* A claim is challenged by this validator only if its root is wrong, and  *)
(* Challenge and StartVerification wait in the queue only for claims of    *)
(* the matching kind, across rescans, stale copies and restarts.           *)
ClaimedAs(e, root) ==
    \E i \in DOMAIN log :
        log[i].kind = "Claimed" /\ log[i].epoch = e /\ log[i].arg = root

JudgedRight ==
    /\ \A e \in Epochs :
          claimHash[e] # NoClaim /\ claimHash[e].challenger = "me" =>
              claimHash[e].root = "wrong"
    /\ \A t \in tasks :
          /\ t.kind = "Challenge" => ClaimedAs(t.epoch, "wrong")
          /\ t.kind = "StartVerification" => ClaimedAs(t.epoch, "correct")

(* The claim was made since indexing began. *)
Followed(e) ==
    \E i \in EventsOf(e) : log[i].kind = "Claimed" /\ log[i].ts >= indexingSince

(* The stored claim is what the outbox's claim was after some of its       *)
(* events, the first ones unless indexing began after the claim was made:  *)
(* redelivered blocks, torn writes and restarts never mix two of them.     *)
StoredIsHistory ==
    \A e \in Epochs :
        OnlyEvents(e, claims[e]) /\ (Followed(e) => NoGaps(e, claims[e]))

(* An event of a block that the outbox cursor has passed is in the file,   *)
(* whatever was killed, torn or read twice, or its deposit is withdrawn,   *)
(* or its claim was made before the time indexing began.                   *)
Passed(i) ==
    /\ cursor["outbox"] # NoBlock /\ indexingSince < cursor["outbox"]
    /\ log[i].ts <= cursor["outbox"]

NothingMissed ==
    \A i \in DOMAIN log :
        Passed(i) /\ Followed(log[i].epoch) =>
            \/ Tells(claims[log[i].epoch], log[i])
            \/ claimHash[log[i].epoch] = NoClaim

(* withdraw_deposit never meets a claim whose winner it has not learnt.    *)
WinnerIsKnown == route # "honest party not determined"

(* While a claim is open, a message this validator has sent about it says  *)
(* what the outbox hashes, the challenge included: relayed, it settles the *)
(* dispute instead of reverting.  (Unless the claim was made before        *)
(* indexing began: its record may then lack an event.)                     *)
SentIsResolvable ==
    \A i \in DOMAIN sent :
        LET e == sent[i].epoch IN
        sent[i].mine /\ Followed(e) /\ Open(e, claimHash[e]) => CanRelay(i)

(* A message of this validator that the inbox cursor has passed, and that  *)
(* can still settle its dispute, waits in the schedule to be relayed,      *)
(* whatever was killed, sent twice, or relayed first by others.            *)
MessagesFollowed ==
    \A i \in DOMAIN sent :
        LET m == sent[i] IN
        /\ m.mine /\ CanRelay(i)
        /\ cursor["inbox"] # NoBlock /\ indexingSince < cursor["inbox"]
        /\ indexingSince <= m.ts /\ m.ts <= cursor["inbox"]
        => TasksOf(tasks, m.epoch, {"ExecuteRelay"}) # {}

(* Tasks are executed only when both scans have reached the blocks that    *)
(* were final at the last start.                                           *)
ActsInSync ==
    disp.phase # "idle" =>
        \A s \in Sides : cursor[s] >= Truncated(booted, Finality)

(* A claim leaves the file only when its deposit has left the outbox.      *)
ForgetsOnlySettled ==
    [][\A e \in Epochs :
          claims[e] # NoClaim /\ claims'[e] = NoClaim =>
              claimHash[e] = NoClaim]_vars

(* Event i of the log is the epoch's first, second, ... *)
Number(e, i) == Cardinality({j \in EventsOf(e) : j <= i})

Replica == INSTANCE ClaimReplica WITH
    published <- [e \in Epochs |-> Cardinality(EventsOf(e))],
    known     <- [e \in Epochs |-> {Number(e, i) : i \in Told(e, claims[e])}],
    settled   <- [e \in Epochs |-> claimHash[e] = NoClaim /\ Emitted("Claimed", e)]

(* The claims file is a replica of the outbox that lags but never skips.   *)
FileIsReplica == Replica!Spec

-----------------------------------------------------------------------------
(* Liveness.  The finality buffer is 20 minutes and a pass of the          *)
(* dispatcher takes seconds, so here a block comes only when the route has *)
(* nothing left to do at the current one; the first blocks come any time,  *)
(* so that the block of a claim is the last of a scan, or is not.          *)
Quiet ==
    /\ Running /\ onSync
    /\ \A s \in Sides : cursor[s] >= FinalBlock
    /\ disp.phase \in {"idle", "polled"} /\ \A t \in tasks : t.after > clock

PromptNext == Next /\ (clock' # clock => Quiet \/ clock < 3)

PromptSpec ==
    /\ Init /\ [][PromptNext]_vars
    /\ WF_vars(Environment /\ Tick /\ Quiet)
    /\ WF_vars(FirstStart) /\ WF_vars(Restart)
    /\ WF_vars(IndexerStep) /\ WF_vars(DispatcherStep)

ClaimedBy(e, root, last) ==
    \E i \in DOMAIN log :
        /\ log[i].kind = "Claimed" /\ log[i].epoch = e
        /\ log[i].arg = root /\ log[i].ts <= last

(* A wrong claim is challenged, by this validator or another.              *)
WrongClaimChallenged ==
    \A e \in Epochs :
        ClaimedBy(e, "wrong", MaxClock - Finality) ~> Emitted("Challenged", e)

(* A correct claim is carried through verification and its deposit leaves  *)
(* the outbox: four hops through the indexer, each a finality buffer long. *)
CorrectClaimPaid ==
    \A e \in Epochs :
        ClaimedBy(e, "correct", 1) ~>
            (claimHash[e] = NoClaim /\ claims[e] = NoClaim)

(* A wrong claim is carried through its dispute to its end: challenged,    *)
(* sent through the inbox, relayed, lost, the challenger's deposit         *)
(* withdrawn; the hops change sides twice, outbox, inbox, outbox.  Unless  *)
(* the block of the claim was read twice: see NoDuplicateClaim.            *)
WrongClaimSettled ==
    \A e \in Epochs :
        ClaimedBy(e, "wrong", 1) ~>
            \/ claimHash[e] = NoClaim /\ claims[e] = NoClaim
            \/ route = "Duplicate claim"

-----------------------------------------------------------------------------
(* What the documentation says and the code does not do.                   *)

(* "this should never happen" (ClaimStore::store) *)
NoDuplicateClaim == route # "Duplicate claim"

(* "Task failures: task stays in queue, retried next poll".                *)
TasksDoNotPanic == route # "No claim found"

(* "gets rescheduled +30 minutes" (an epoch that is not final yet) and      *)
(* "we reschedule +30min" (a reverted challenge, with nobody's on chain):  *)
(* the task that could not be done is still in the schedule.               *)
RetryPromised ==
    \/ disp.phase = "finality"
    \/ /\ disp.phase = "result" /\ disp.result = "invalid"
       /\ disp.task.kind = "Challenge" /\ ~Emitted("Challenged", disp.task.epoch)

RetriesAreKept ==
    [][RetryPromised /\ disp'.phase \in {"idle", "next"} /\ route' = "up" =>
          (TasksOf(tasks, disp.task.epoch, {disp.task.kind}) # {} =>
           TasksOf(tasks', disp.task.epoch, {disp.task.kind}) # {})]_vars
=============================================================================
