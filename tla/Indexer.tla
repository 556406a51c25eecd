------------------------------ MODULE Indexer -------------------------------
(***************************************************************************)
(* EventIndexer (src/src/indexer.rs): scan_once reads the inbox, then the  *)
(* outbox, a chunk of final blocks at a time; each event is handled, then  *)
(* the cursor is saved.  get_logs takes both ends of the range, so the     *)
(* block a cursor stands on is delivered again by the next scan.           *)
(***************************************************************************)
EXTENDS Process

indexerFrame == UNCHANGED <<chainVars, bootVars>>

(* Seeded fault: the subtraction is not saturating. *)
Subtracted(a, b) == a - b

Truncated(a, b) == IF a > b THEN a - b ELSE 0      \* saturating_sub
Least(a, b) == IF a < b THEN a ELSE b

(* find_block_by_timestamp(now - FINALITY_BUFFER_SECS), see BlockSearch.   *)
FinalBlock == Truncated(clock, Finality)

(* catchup_target is kept while the cursor has not reached it. *)
TargetReached(s) == idx.target[s] = 0 \/ cursor[s] >= idx.target[s]

Target(s) == IF TargetReached(s) THEN FinalBlock ELSE idx.target[s]

(* What scan_chain(s) returned, and scan_once and run with it. *)
ScanResult(s, done) ==
    IF s = "inbox"
    THEN [idx EXCEPT !.phase = "query", !.side = "outbox", !.inboxDone = done,
                     !.target[s] = IF done THEN 0 ELSE @, !.to = 0]
    ELSE [idx EXCEPT !.phase = "query", !.side = "inbox", !.inboxDone = FALSE,
                     !.target[s] = IF done THEN 0 ELSE @, !.to = 0]

SyncReached(s, done) == s = "outbox" /\ idx.inboxDone /\ done

LogBlocks(s) == IF s = "inbox" THEN [i \in DOMAIN sent |-> sent[i].ts]
                               ELSE [i \in DOMAIN log |-> log[i].ts]

InRange(s, from, to) ==
    LET ts == LogBlocks(s) IN {i \in DOMAIN ts : from <= ts[i] /\ ts[i] <= to}

-----------------------------------------------------------------------------
(* scan_chain up to get_logs: nothing to do, *)
ScanNothing ==
    /\ Running /\ idx.phase = "query"
    /\ cursor[idx.side] >= Target(idx.side)
    /\ idx' = ScanResult(idx.side, TRUE)
    /\ onSync' = (onSync \/ SyncReached(idx.side, TRUE))
    /\ indexerFrame /\ UNCHANGED <<tasks, claims, cursor, indexingSince, route, disp>>

(* Seeded fault: the cursor is saved before the events are handled. *)
ScanChunkEager ==
    LET s    == idx.side
        from == cursor[s]
        to   == Least(from + Chunk, Target(s))
    IN  /\ Running /\ idx.phase = "query"
        /\ from < Target(s)
        /\ idx' = [idx EXCEPT !.phase = "logs", !.target[s] = Target(s),
                              !.to = to, !.queue = InRange(s, from, to)]
        /\ cursor' = [cursor EXCEPT ![s] = to]
        /\ indexerFrame /\ UNCHANGED <<tasks, claims, indexingSince, onSync, route, disp>>

(* a chunk of events, *)
ScanChunk ==
    LET s    == idx.side
        from == cursor[s]
        to   == Least(from + Chunk, Target(s))
    IN  /\ Running /\ idx.phase = "query"
        /\ from < Target(s)
        /\ idx' = [idx EXCEPT !.phase = "logs", !.target[s] = Target(s),
                              !.to = to, !.queue = InRange(s, from, to)]
        /\ indexerFrame /\ UNCHANGED <<storeVars, route, disp>>

(* or a request that failed, before or after the target was stored, *)
ScanFailed ==
    /\ "rpc" \in Faults
    /\ Running /\ idx.phase = "query"
    /\ LET s == idx.side IN
       \E t \in {idx.target[s], Target(s)} :
          idx' = [ScanResult(s, FALSE) EXCEPT !.target[s] = t]
    /\ indexerFrame /\ UNCHANGED <<storeVars, route, disp>>

(* or within the search for the final block, which panics. *)
TargetSearchFailed ==
    /\ "rpc" \in Faults
    /\ Running /\ idx.phase = "query" /\ TargetReached(idx.side)
    /\ Panic("rpc")
    /\ indexerFrame

(* The chunk is handled: save the cursor. *)
FinishChunk ==
    LET s    == idx.side
        done == idx.to >= idx.target[s]
    IN  /\ Running /\ idx.phase = "logs" /\ idx.queue = {}
        /\ cursor' = [cursor EXCEPT ![s] = idx.to]
        /\ idx' = ScanResult(s, done)
        /\ onSync' = (onSync \/ SyncReached(s, done))
        /\ indexerFrame /\ UNCHANGED <<tasks, claims, indexingSince, route, disp>>

-----------------------------------------------------------------------------
(* The handlers.  Delivers(s, i): entry i is the next one of the chunk.    *)

Delivers(s, i) ==
    /\ Running /\ idx.phase = "logs" /\ idx.side = s
    /\ i \in idx.queue /\ \A j \in idx.queue : i <= j

Handled(i) == [idx EXCEPT !.queue = @ \ {i}]
Awaiting(i) == [idx EXCEPT !.phase = "await", !.queue = @ \ {i}, !.at = i]
Resumed == [idx EXCEPT !.phase = "logs", !.at = 0, !.verdict = "None"]

HasTask(e, kinds) == TasksOf(tasks, e, kinds) # {}

(* Seeded fault: the messages of the other wallets are relayed instead. *)
HandleSnapshotSentOfOthers(i) ==
    /\ Delivers("inbox", i)
    /\ LET m == sent[i] IN
       \/ /\ HasTask(m.epoch, {"ExecuteRelay"}) \/ m.mine
          /\ Proceed(Handled(i))
       \/ /\ ~HasTask(m.epoch, {"ExecuteRelay"}) /\ ~m.mine
          /\ Schedule(AddTask(tasks, m.epoch, "ExecuteRelay", m.ts + RelayDelay, i),
                      Handled(i))
    /\ indexerFrame

(* handle_snapshot_sent: only this wallet's messages are relayed.          *)
HandleSnapshotSent(i) ==
    /\ Delivers("inbox", i)
    /\ LET m == sent[i] IN
       \/ /\ HasTask(m.epoch, {"ExecuteRelay"}) \/ ~m.mine
          /\ Proceed(Handled(i))
       \/ /\ ~HasTask(m.epoch, {"ExecuteRelay"}) /\ m.mine
          /\ Schedule(AddTask(tasks, m.epoch, "ExecuteRelay", m.ts + RelayDelay, i),
                      Handled(i))
    /\ indexerFrame

(* Seeded fault: the claim is stored whatever is known of the epoch. *)
HandleClaimedAnyway(i) ==
    /\ Delivers("outbox", i) /\ log[i].kind = "Claimed"
    /\ LET e == log[i].epoch IN
       Commit(StoreClaim(claims, e, NewClaim(log[i].arg, log[i].ts)), {tasks},
              AddTask(tasks, e, "ValidateClaim", log[i].ts, 0), Handled(i))
    /\ indexerFrame

(* Seeded fault: a task of any epoch counts. *)
HandleClaimedIfNoTask(i) ==
    /\ Delivers("outbox", i) /\ log[i].kind = "Claimed"
    /\ LET e == log[i].epoch IN
       \/ /\ tasks # {}
          /\ Proceed(Handled(i))
       \/ /\ tasks = {} /\ Exists(claims, e)
          /\ Panic("Duplicate claim")
       \/ /\ tasks = {} /\ ~Exists(claims, e)
          /\ Commit(StoreClaim(claims, e, NewClaim(log[i].arg, log[i].ts)),
                    {tasks},
                    AddTask(tasks, e, "ValidateClaim", log[i].ts, 0),
                    Handled(i))
    /\ indexerFrame

(* handle_claimed_event: any task of the epoch means it is known already.  *)
HandleClaimed(i) ==
    /\ Delivers("outbox", i) /\ log[i].kind = "Claimed"
    /\ LET e == log[i].epoch IN
       \/ /\ HasTask(e, Kinds)
          /\ Proceed(Handled(i))
       \/ /\ ~HasTask(e, Kinds) /\ Exists(claims, e)
          /\ Panic("Duplicate claim")
       \/ /\ ~HasTask(e, Kinds) /\ ~Exists(claims, e)
          /\ Commit(StoreClaim(claims, e, NewClaim(log[i].arg, log[i].ts)),
                    {tasks},
                    AddTask(tasks, e, "ValidateClaim", log[i].ts, 0),
                    Handled(i))
    /\ indexerFrame

(* The other outbox events when their claim is not in the file: dropped if *)
(* older than indexing_since + sync_lookback_secs, a panic otherwise.      *)
GraceEnd == indexingSince + Lookback

HandleUnknown(i) ==
    /\ Delivers("outbox", i) /\ log[i].kind # "Claimed"
    /\ ~Exists(claims, log[i].epoch)
    /\ \/ log[i].ts < GraceEnd /\ Proceed(Handled(i))
       \/ log[i].ts >= GraceEnd /\ Panic("claim not found")
    /\ indexerFrame

(* handle_verification_started_event and handle_verified_event: the claim  *)
(* is known, then a request is awaited (the block's time, the inbox's root). *)
Begin(i) ==
    LET e == log[i].epoch IN
    /\ Delivers("outbox", i) /\ Exists(claims, e)
    /\ \/ log[i].kind = "VerificationStarted" /\ Proceed(Awaiting(i))
       \/ /\ log[i].kind = "Verified"
          /\ Proceed([Awaiting(i) EXCEPT !.verdict =
                IF claims[e].root = "correct" THEN "Claimer" ELSE "Challenger"])
    /\ indexerFrame

(* handle_challenged_event up to its await: no longer this epoch's tasks.  *)
Doomed == {"ValidateClaim", "Challenge", "StartVerification", "VerifySnapshot"}

(* Seeded fault: the challenger is not written to the claims file. *)
BeginChallengedUnrecorded(i) ==
    LET e == log[i].epoch IN
    /\ Delivers("outbox", i) /\ log[i].kind = "Challenged" /\ Exists(claims, e)
    /\ Schedule(Invalidate(tasks, e, Doomed), Awaiting(i))
    /\ indexerFrame

BeginChallenged(i) ==
    LET e == log[i].epoch IN
    /\ Delivers("outbox", i) /\ log[i].kind = "Challenged" /\ Exists(claims, e)
    /\ Commit([claims EXCEPT ![e].challenger = log[i].arg], {tasks},
              Invalidate(tasks, e, Doomed), Awaiting(i))
    /\ indexerFrame

Awaits(kind) == Running /\ idx.phase = "await" /\ log[idx.at].kind = kind

(* Seeded fault: the time of the start is not written to the claims file. *)
FinishVerificationStartedUnrecorded ==
    LET ev == log[idx.at]
        without == Invalidate(tasks, ev.epoch, {"StartVerification"})
    IN  /\ Awaits("VerificationStarted")
        /\ Schedule(AddTask(without, ev.epoch, "VerifySnapshot",
                            ev.ts + ChallengePeriod + Slack, 0), Resumed)
        /\ indexerFrame

(* VerifySnapshot is scheduled for every claim, judged or not.             *)
FinishVerificationStarted ==
    LET ev == log[idx.at]
        without == Invalidate(tasks, ev.epoch, {"StartVerification"})
    IN  /\ Awaits("VerificationStarted")
        /\ \/ ~Exists(claims, ev.epoch) /\ Panic("Cannot update claim")
           \/ /\ Exists(claims, ev.epoch)
              /\ Commit([claims EXCEPT ![ev.epoch].verification = ev.ts],
                        {tasks, without},
                        AddTask(without, ev.epoch, "VerifySnapshot",
                                ev.ts + ChallengePeriod + Slack, 0),
                        Resumed)
        /\ indexerFrame

FinishChallenged ==
    LET ev == log[idx.at] IN
    /\ Awaits("Challenged")
    /\ Schedule(AddTask(tasks, ev.epoch, "SendSnapshot", ev.ts, 0), Resumed)
    /\ indexerFrame

(* Seeded fault: the winner is not written to the claims file. *)
FinishVerifiedUnrecorded ==
    LET ev == log[idx.at]
        without == Invalidate(tasks, ev.epoch, Doomed \cup {"ExecuteRelay"})
    IN  /\ Awaits("Verified")
        /\ Schedule(AddTask(without, ev.epoch, "WithdrawDeposit", ev.ts, 0), Resumed)
        /\ indexerFrame

FinishVerified ==
    LET ev == log[idx.at]
        without == Invalidate(tasks, ev.epoch, Doomed \cup {"ExecuteRelay"})
    IN  /\ Awaits("Verified")
        /\ \/ ~Exists(claims, ev.epoch) /\ Panic("Cannot update claim")
           \/ /\ Exists(claims, ev.epoch)
              /\ Commit([claims EXCEPT ![ev.epoch].honest = idx.verdict],
                        {tasks, without},
                        AddTask(without, ev.epoch, "WithdrawDeposit", ev.ts, 0),
                        Resumed)
        /\ indexerFrame

(* Requests inside a handler are expected to succeed: .expect(...).        *)
HandlerFails ==
    /\ "rpc" \in Faults /\ Running
    /\ idx.phase = "await" \/ (idx.phase = "logs" /\ idx.queue # {})
    /\ Panic("rpc")
    /\ indexerFrame

Handle ==
    \/ \E i \in idx.queue :
          \/ HandleSnapshotSent(i) \/ HandleClaimed(i) \/ HandleUnknown(i)
          \/ Begin(i) \/ BeginChallenged(i)
    \/ FinishVerificationStarted \/ FinishChallenged \/ FinishVerified

IndexerStep == ScanNothing \/ ScanChunk \/ Handle \/ FinishChunk

IndexerFault == ScanFailed \/ TargetSearchFailed \/ HandlerFails
=============================================================================
