---------------------------- MODULE EpochWatcher ----------------------------
(***************************************************************************)
(* The epoch watcher (src/src/epoch_watcher.rs) with save_snapshot and     *)
(* claim: near the end of an epoch it saves a snapshot of the inbox, after *)
(* it has ended it claims the snapshot on the outbox.  Others save and     *)
(* claim too; the indexer tells it late what they did; the route is killed *)
(* and panics at any request.                                              *)
(***************************************************************************)
EXTENDS Integers, Sequences, FiniteSets

CONSTANTS
    Period,         \* epochPeriod of the contracts
    BeforeBuffer,   \* BEFORE_EPOCH_BUFFER
    AfterBuffer,    \* AFTER_EPOCH_BUFFER
    ClaimRetry,     \* how long to wait for a late epoch
    Finality,       \* FINALITY_BUFFER_SECS of the indexer
    Lookback,       \* sync_lookback_secs
    Recent,         \* SEVEN_DAYS_SECS
    MakeClaims,     \* MAKE_CLAIMS
    Rivals,         \* what others do: "save", "claim", "resolve"
    Faults,         \* "crash", "fatal", "timeout", "lost", "late", "unposted"
    MaxClock, MaxCount,    \* bounds
    MaxSaves,       \* bound: others save while there are fewer
    MaxClaims,      \* bound: claims of others
    MaxHindered     \* bound: how often something goes wrong

(* The last conjunct: claims are due while the next epoch lasts.           *)
ASSUME WatcherAssumption ==
    /\ Period \in Nat \ {0} /\ BeforeBuffer \in Nat \ {0} /\ AfterBuffer \in Nat
    /\ ClaimRetry \in Nat /\ Finality \in Nat /\ Lookback \in Nat /\ Recent \in Nat
    /\ MakeClaims \in BOOLEAN
    /\ MaxClock \in Nat /\ MaxCount \in Nat /\ MaxSaves \in Nat
    /\ MaxClaims \in Nat /\ MaxHindered \in Nat
    /\ AfterBuffer < Period

VARIABLES
    clock,         \* the latest block's timestamp, on both chains
    messages,      \* the first epoch to hold each message; inbox.count is its length
    saves,         \* the inbox's SnapshotSaved events
    snapshots,     \* inbox.snapshots, 0 for none
    claims,        \* the outbox's claims; a root is the count it stands for
    stateRoot,     \* outbox.stateRoot, 0 before any claim is verified
    onSync, lastSaved, inboxBlock,    \* the schedule file
    known,         \* the epochs of the claims file
    scan,          \* the indexer's chunk: its end and the events left
    route,         \* "up", "down", or stopped by a claim "reverted"
    phase,         \* the watcher sleeps, or the request it awaits
    now, lastBefore, lastAfter, skipUntil,    \* locals of watch_epochs
    answer,        \* current_count in save_snapshot, state_root in claim
    error,         \* the error of the claim's transaction
    hindered       \* history: the epochs in which something went wrong

bridge == <<messages, saves, snapshots, claims, stateRoot>>
files == <<onSync, lastSaved, inboxBlock, known>>
indexer == <<files, scan>>
locals == <<now, lastBefore, lastAfter, skipUntil, answer, error>>
vars == <<clock, bridge, indexer, route, phase, locals, hindered>>

None == -1

(* Seeded fault: the subtraction does not saturate.                        *)
Difference(a, b) == a - b

(* saturating_sub                                                          *)
Truncated(a, b) == IF a >= b THEN a - b ELSE 0

EpochOf(t) == t \div Period
Epochs == 0 .. EpochOf(MaxClock)
NoClaim == [root |-> 0, at |-> 0, mine |-> FALSE, open |-> FALSE]
Claimed(e) == claims[e] # NoClaim
Nothing == [to |-> None, left |-> {}]

Awake == {"count", "compare", "save",
          "finality", "snapshot", "hash", "verified", "pending", "claim", "recheck"}

Init ==
    /\ clock = 0 /\ messages = <<>> /\ saves = <<>>
    /\ snapshots = [e \in Epochs |-> 0]
    /\ claims = [e \in Epochs |-> NoClaim] /\ stateRoot = 0
    /\ onSync = FALSE /\ lastSaved = 0 /\ inboxBlock = None
    /\ known = {} /\ scan = Nothing
    /\ route = "down"
    /\ phase = "asleep" /\ now = 0 /\ lastBefore = None /\ lastAfter = None
    /\ skipUntil = 0 /\ answer = 0 /\ error = "none"
    /\ hindered = <<>>

-----------------------------------------------------------------------------
(* The bridge, external to src/.                                           *)

SendMessage ==
    /\ Len(messages) < MaxCount
    /\ messages' = Append(messages, EpochOf(clock + BeforeBuffer))
    /\ UNCHANGED <<clock, saves, snapshots, claims, stateRoot, indexer, route, phase, locals,
                   hindered>>

(* A later snapshot of an epoch replaces an earlier one.                   *)
Save ==
    /\ saves' = Append(saves, [count |-> Len(messages), at |-> clock])
    /\ snapshots' = [snapshots EXCEPT ![EpochOf(clock)] = Len(messages)]

RivalSaves ==
    /\ "save" \in Rivals /\ Len(saves) < MaxSaves /\ messages # <<>>
    /\ Save
    /\ UNCHANGED <<clock, messages, claims, stateRoot, indexer, route, phase, locals, hindered>>

(* A claim is taken of the last finished epoch only, and one.              *)
Claimable(e) == e + 1 = EpochOf(clock) /\ ~Claimed(e)

MakeClaim(e, r, mine) ==
    claims' = [claims EXCEPT ![e] = [root |-> r, at |-> clock, mine |-> mine, open |-> TRUE]]

RivalClaims ==
    /\ "claim" \in Rivals
    /\ Cardinality({e \in Epochs : Claimed(e) /\ ~claims[e].mine}) < MaxClaims
    /\ \E e \in Epochs, r \in 1 .. MaxCount : Claimable(e) /\ MakeClaim(e, r, FALSE)
    /\ UNCHANGED <<clock, messages, saves, snapshots, stateRoot, indexer, route, phase, locals,
                   hindered>>

(* A claim may be started one epoch after it was made; it is then verified *)
(* or refused, and its deposit withdrawn.                                  *)
Resolve ==
    /\ "resolve" \in Rivals
    /\ \E e \in Epochs :
          /\ claims[e].open /\ clock >= claims[e].at + Period
          /\ claims' = [claims EXCEPT ![e].open = FALSE]
          /\ stateRoot' = IF claims[e].root = snapshots[e] THEN claims[e].root ELSE stateRoot
    /\ UNCHANGED <<clock, messages, saves, snapshots, indexer, route, phase, locals, hindered>>

-----------------------------------------------------------------------------
(* watch_epochs.                                                           *)

Up == route = "up"
Current == EpochOf(now)

(* Seeded fault: the window opens one second late.                         *)
InWindowStrictly(t) == (EpochOf(t) + 1) * Period - t < BeforeBuffer

InWindow(t) == (EpochOf(t) + 1) * Period - t <= BeforeBuffer

(* Seeded fault: the first epoch is passed over.                           *)
ClaimTimeFromTwo(t) == t - EpochOf(t) * Period >= AfterBuffer /\ EpochOf(t) > 1

ClaimTime(t) == t - EpochOf(t) * Period >= AfterBuffer /\ EpochOf(t) > 0

Hinder ==
    /\ Len(hindered) < MaxHindered
    /\ hindered' = Append(hindered, EpochOf(clock))

(* What a turn of the loop holds; it goes when the watcher sleeps.         *)
Sleep == phase' = "asleep" /\ now' = 0 /\ answer' = 0 /\ error' = "none"

(* A panic ends every task of the route.                                   *)
Panic(why) ==
    /\ route' = why /\ Sleep
    /\ lastBefore' = None /\ lastAfter' = None /\ skipUntil' = 0
    /\ Hinder

(* The second half of the loop, for the timestamp t of its beginning.      *)
TurnToClaim(t) ==
    IF /\ MakeClaims /\ onSync /\ t >= skipUntil
       /\ ClaimTime(t) /\ lastAfter # EpochOf(t) - 1
    THEN phase' = "finality" /\ now' = t /\ UNCHANGED <<answer, error>>
    ELSE Sleep

ReadTimestamp ==
    /\ Up /\ phase = "asleep"
    /\ IF onSync /\ InWindow(clock) /\ lastBefore # EpochOf(clock)
       THEN phase' = "count" /\ now' = clock /\ UNCHANGED <<answer, error>>
       ELSE TurnToClaim(clock)
    /\ UNCHANGED <<clock, bridge, indexer, route, lastBefore, lastAfter, skipUntil, hindered>>

(* save_snapshot returned Ok.                                              *)
Saved == lastBefore' = Current /\ TurnToClaim(now)

ReadCount ==
    /\ Up /\ phase = "count" /\ phase' = "compare" /\ answer' = Len(messages)
    /\ UNCHANGED <<clock, bridge, indexer, route, now, lastBefore, lastAfter, skipUntil,
                   error, hindered>>

(* Seeded fault: the count is written down before it is saved.             *)
CompareRemembering ==
    /\ Up /\ phase = "compare"
    /\ \/ answer <= lastSaved /\ Saved /\ UNCHANGED lastSaved
       \/ /\ answer > lastSaved /\ phase' = "save" /\ lastSaved' = answer
          /\ UNCHANGED <<now, lastBefore, answer, error>>
    /\ UNCHANGED <<clock, bridge, onSync, inboxBlock, known, scan, route,
                   lastAfter, skipUntil, hindered>>

(* The file is read when the count has come.                               *)
Compare ==
    /\ Up /\ phase = "compare"
    /\ \/ answer <= lastSaved /\ Saved
       \/ /\ answer > lastSaved /\ phase' = "save"
          /\ UNCHANGED <<now, lastBefore, answer, error>>
    /\ UNCHANGED <<clock, bridge, indexer, route, lastAfter, skipUntil, hindered>>

(* The snapshot is of the epoch and the count at which it lands.           *)
SaveSnapshot ==
    /\ Up /\ phase = "save"
    /\ Save /\ Saved
    /\ UNCHANGED <<clock, messages, claims, stateRoot, indexer, route, lastAfter, skipUntil,
                   hindered>>

(* Whatever fails, the route does.                                         *)
SaveFails ==
    /\ Up
    /\ \/ /\ Faults \cap {"fatal", "timeout"} # {} /\ phase \in {"count", "save"}
          /\ UNCHANGED <<saves, snapshots>>
       \/ "lost" \in Faults /\ phase = "save" /\ Save
    /\ Panic("down")
    /\ UNCHANGED <<clock, messages, claims, stateRoot, indexer>>

-----------------------------------------------------------------------------
(* claim::execute for the epoch before the current one.                    *)

Claiming == Current - 1

(* What every step of claim leaves alone.                                  *)
ClaimFrame == UNCHANGED <<clock, messages, saves, snapshots, stateRoot, indexer>>

Step(from, to) ==
    /\ Up /\ phase = from /\ phase' = to
    /\ ClaimFrame
    /\ UNCHANGED <<claims, route, now, lastBefore, lastAfter, skipUntil, answer, error, hindered>>

(* Ok(()): the epoch is done with.                                         *)
Settle ==
    /\ lastAfter' = Claiming /\ Sleep
    /\ ClaimFrame /\ UNCHANGED <<route, lastBefore, skipUntil, hindered>>

CheckFinality ==
    \/ Step("finality", "snapshot")
    \/ /\ Up /\ phase = "finality" /\ "late" \in Faults
       /\ skipUntil' = now + ClaimRetry /\ Sleep /\ Hinder
       /\ ClaimFrame /\ UNCHANGED <<claims, route, lastBefore, lastAfter>>

(* findBatchContainingBlock refuses a block that is in no batch yet.       *)
BatchNotPosted ==
    /\ Up /\ phase = "finality" /\ "unposted" \in Faults
    /\ Panic("down") /\ ClaimFrame /\ UNCHANGED claims

(* Seeded fault: the snapshot that is claimed is read for the epoch that   *)
(* is still open.                                                          *)
ReadSnapshotOfCurrent ==
    /\ Up /\ phase = "snapshot"
    /\ \/ snapshots[Current] = 0 /\ Settle
       \/ /\ snapshots[Current] # 0 /\ answer' = snapshots[Current] /\ phase' = "hash"
          /\ ClaimFrame
          /\ UNCHANGED <<route, now, lastBefore, lastAfter, skipUntil, error, hindered>>
    /\ UNCHANGED claims

ReadSnapshot ==
    /\ Up /\ phase = "snapshot"
    /\ \/ snapshots[Claiming] = 0 /\ Settle
       \/ /\ snapshots[Claiming] # 0 /\ answer' = snapshots[Claiming] /\ phase' = "hash"
          /\ ClaimFrame
          /\ UNCHANGED <<route, now, lastBefore, lastAfter, skipUntil, error, hindered>>
    /\ UNCHANGED claims

(* claimHashes is zero before the claim and after the withdrawal.          *)
ReadHash ==
    /\ Up /\ phase = "hash"
    /\ \/ claims[Claiming].open /\ Settle /\ UNCHANGED claims
       \/ ~claims[Claiming].open /\ Step("hash", "verified")

ReadStateRoot ==
    \/ Step("verified", "pending") /\ stateRoot # answer
    \/ /\ Up /\ phase = "verified" /\ stateRoot = answer
       /\ Settle /\ UNCHANGED claims

(* has_state_root_in_recent_claims                                         *)
HasRecentRoot ==
    \E e \in known : claims[e].root = answer /\ claims[e].at >= Truncated(now, Recent)

(* Seeded fault: a root is pending only if it was claimed this very epoch. *)
LookForRootForgetful ==
    LET pending == \E e \in known : claims[e].root = answer /\ EpochOf(claims[e].at) = Current
    IN  \/ Step("pending", "claim") /\ ~pending
        \/ Up /\ phase = "pending" /\ pending /\ Settle /\ UNCHANGED claims

LookForRoot ==
    \/ Step("pending", "claim") /\ ~HasRecentRoot
    \/ Up /\ phase = "pending" /\ HasRecentRoot /\ Settle /\ UNCHANGED claims

ClaimLands ==
    /\ Up /\ phase = "claim" /\ Claimable(Claiming)
    /\ MakeClaim(Claiming, answer, TRUE)
    /\ Settle

(* The transaction is refused, cannot be sent, or its receipt is lost.     *)
ClaimFails ==
    /\ Up /\ phase = "claim" /\ phase' = "recheck"
    /\ \/ ~Claimable(Claiming) /\ error' = "reverted" /\ UNCHANGED <<claims, hindered>>
       \/ error' \in Faults \cap {"fatal", "timeout"} /\ Hinder /\ UNCHANGED claims
       \/ /\ "lost" \in Faults /\ Claimable(Claiming) /\ MakeClaim(Claiming, answer, TRUE)
          /\ error' = "timeout" /\ Hinder
    /\ ClaimFrame /\ UNCHANGED <<route, now, lastBefore, lastAfter, skipUntil, answer>>

(* A timeout leaves the epoch to the next turn, other errors panic.        *)
Fail(e) ==
    /\ IF e = "timeout"
       THEN Sleep /\ Hinder /\ UNCHANGED <<route, lastBefore, lastAfter, skipUntil>>
       ELSE Panic(IF e = "fatal" THEN "down" ELSE e)
    /\ ClaimFrame /\ UNCHANGED claims

(* Seeded fault: a refused transaction is not looked into.                 *)
RecheckNothing == Up /\ phase = "recheck" /\ Fail(error)

Recheck ==
    /\ Up /\ phase = "recheck"
    /\ \/ claims[Claiming].open /\ Settle /\ UNCHANGED claims
       \/ ~claims[Claiming].open /\ Fail(error)

ClaimRequestFails ==
    /\ Up /\ phase \in {"finality", "snapshot", "hash", "verified", "claim", "recheck"}
    /\ \E e \in Faults \cap {"fatal", "timeout"} : Fail(e)

Watcher ==
    \/ ReadTimestamp \/ ReadCount \/ Compare \/ SaveSnapshot \/ SaveFails
    \/ CheckFinality \/ BatchNotPosted \/ ReadSnapshot \/ ReadHash \/ ReadStateRoot
    \/ LookForRoot
    \/ ClaimLands \/ ClaimFails \/ Recheck \/ ClaimRequestFails

-----------------------------------------------------------------------------
(* What of the indexer the watcher depends on: Indexer has the rest.       *)

Final == Truncated(clock, Finality)

ScanNothing ==
    /\ Up /\ scan = Nothing /\ inboxBlock >= Final
    /\ onSync' = TRUE
    /\ UNCHANGED <<clock, bridge, lastSaved, inboxBlock, known, scan, route,
                   phase, locals, hindered>>

(* The block the cursor stands on is read again.                           *)
ScanChunk ==
    /\ Up /\ scan = Nothing /\ inboxBlock < Final
    /\ scan' = [to   |-> Final,
                left |-> {i \in 1 .. Len(saves) : saves[i].at \in inboxBlock .. Final}]
    /\ UNCHANGED <<clock, bridge, files, route, phase, locals, hindered>>

HandleSnapshotSaved ==
    /\ Up
    /\ \E i \in scan.left :
          /\ \A j \in scan.left : i <= j
          /\ lastSaved' = saves[i].count
          /\ scan' = [scan EXCEPT !.left = @ \ {i}]
    /\ UNCHANGED <<clock, bridge, onSync, inboxBlock, known, route, phase,
                   locals, hindered>>

(* The scan of the outbox follows, and stores the claims it meets.         *)
FinishScan ==
    /\ Up /\ scan # Nothing /\ scan.left = {}
    /\ inboxBlock' = scan.to /\ scan' = Nothing /\ onSync' = TRUE
    /\ known' = known \cup {e \in Epochs : /\ Claimed(e)
                                         /\ claims[e].at \in inboxBlock .. scan.to}
    /\ UNCHANGED <<clock, bridge, lastSaved, route, phase, locals, hindered>>

(* withdraw_deposit removes a claim whose deposit has gone.                *)
Forget ==
    /\ Up
    /\ \E e \in known : ~claims[e].open /\ known' = known \ {e}
    /\ UNCHANGED <<clock, bridge, onSync, lastSaved, inboxBlock, scan, route,
                   phase, locals, hindered>>

Indexer == ScanNothing \/ ScanChunk \/ HandleSnapshotSaved \/ FinishScan \/ Forget

-----------------------------------------------------------------------------
(* run_route: the cursors are kept, or set anew after a hiatus; the count  *)
(* of the last snapshot is kept either way.                                *)
Start ==
    /\ ~Up
    /\ route' = "up" /\ onSync' = FALSE /\ scan' = Nothing
    /\ IF inboxBlock = None \/ inboxBlock < Truncated(clock, Lookback)
       THEN inboxBlock' = Truncated(clock, Lookback)
       ELSE UNCHANGED inboxBlock
    /\ UNCHANGED <<clock, bridge, lastSaved, known, phase, locals, hindered>>

Kill ==
    /\ Up /\ "crash" \in Faults
    /\ Panic("down")
    /\ UNCHANGED <<clock, bridge, indexer>>

(* The route has done all there is to do at the present time.              *)
AtRest ==
    /\ Up /\ onSync /\ phase = "asleep" /\ scan = Nothing /\ inboxBlock >= Final
    /\ InWindow(clock) => lastBefore = EpochOf(clock)
    /\ MakeClaims /\ ClaimTime(clock) => lastAfter = EpochOf(clock) - 1

Tick ==
    /\ clock < MaxClock /\ clock' = clock + 1
    /\ IF AtRest THEN UNCHANGED hindered ELSE Hinder
    /\ UNCHANGED <<bridge, indexer, route, phase, locals>>

Next ==
    \/ Tick \/ SendMessage \/ RivalSaves \/ RivalClaims \/ Resolve
    \/ Watcher \/ Indexer \/ Start \/ Kill

Spec == Init /\ [][Next]_vars

-----------------------------------------------------------------------------
BridgeTypeOK ==
    /\ clock \in Nat /\ messages \in Seq(Nat)
    /\ saves \in Seq([count : Nat, at : Nat]) /\ snapshots \in [Epochs -> Nat]
    /\ claims \in [Epochs -> [root : Nat, at : Nat, mine : BOOLEAN, open : BOOLEAN]]
    /\ stateRoot \in Nat

IndexerTypeOK ==
    /\ onSync \in BOOLEAN /\ lastSaved \in Nat
    /\ inboxBlock \in Nat \cup {None} /\ known \subseteq Epochs
    /\ scan \in [to : Nat \cup {None}, left : SUBSET (1 .. Len(saves))]

WatcherTypeOK ==
    /\ route \in {"up", "down", "reverted"} /\ phase \in Awake \cup {"asleep"}
    /\ now \in Nat /\ lastBefore \in Int /\ lastAfter \in Int /\ skipUntil \in Nat
    /\ answer \in Nat /\ error \in {"none", "reverted", "fatal", "timeout"}
    /\ hindered \in Seq(Nat)

TypeOK == BridgeTypeOK /\ IndexerTypeOK /\ WatcherTypeOK

(* Nothing has gone wrong in epoch e: the route is up when it begins, and  *)
(* does what it has to while it lasts.                                     *)
Smooth(e) == \A i \in 1 .. Len(hindered) : hindered[i] # e
Over(e) == clock >= (e + 1) * Period

(* What was sent before the window of an epoch opened is in a snapshot     *)
(* when the epoch ends, unless something went wrong in it.                 *)
SavedBy(i, e) ==
    \E j \in 1 .. Len(saves) : EpochOf(saves[j].at) <= e /\ saves[j].count >= i

EachEpochSaved ==
    \A e \in Epochs :
        Over(e) /\ Smooth(e) =>
            \A i \in 1 .. Len(messages) : messages[i] <= e => SavedBy(i, e)

(* The count for which the watcher skips a save has been saved, whatever   *)
(* was replayed, failed, or was killed, and whoever saved it: a message is *)
(* never taken for saved that is in no snapshot.                           *)
SkipsOnlySaved ==
    lastSaved > 0 => \E i \in 1 .. Len(saves) : saves[i].count = lastSaved

(* A claim of this validator is the epoch's snapshot, and stays it: the    *)
(* snapshot was read when no later one could replace it.                   *)
ClaimsTrue ==
    \A e \in Epochs : claims[e].mine => claims[e].root = snapshots[e]

(* The snapshot of an epoch is claimed in the next one, or a claim with    *)
(* the same root was made before, unless the route was hindered.           *)
EachEpochClaimed ==
    \A e \in Epochs :
        MakeClaims /\ Over(e + 1) /\ Smooth(e + 1) /\ snapshots[e] > 0 =>
            Claimed(e) \/ \E f \in Epochs : claims[f].root = snapshots[e]

(* No deposit is spent on a root that is already claimed: the buffer after *)
(* the epoch's end is long enough for the indexer to have told of it.      *)
NoWastedDeposit ==
    [][\A e \in Epochs :
          ~Claimed(e) /\ claims'[e].mine /\ Smooth(e) /\ Smooth(e + 1) =>
              \A f \in Epochs \ {e} :
                  claims[f].open /\ claims[f].root = claims'[e].root =>
                      claims[f].at < Truncated(clock, Recent)]_vars

(* A claim that others made first does not stop the route: only one that   *)
(* came too late for its epoch does.                                       *)
RivalsHarmless == [][Up /\ route' = "reverted" => Current # EpochOf(clock)]_vars
=============================================================================
