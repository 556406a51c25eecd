------------------------- MODULE EpochWatcherProofs -------------------------
(***************************************************************************)
(* The epoch watcher keeps its types; it skips only what is saved; what it *)
(* claims is the epoch's snapshot, and stays it; and a claim that others   *)
(* made first never stops the route.                                       *)
(***************************************************************************)
EXTENDS EpochWatcher, TLAPS

-----------------------------------------------------------------------------
(* Arithmetic of epochs.                                                   *)

(* An epoch begins at or before each of its times, and ends after it.      *)
LEMMA EpochBounds ==
    ASSUME NEW t \in Nat
    PROVE  /\ EpochOf(t) \in Nat
           /\ Period * EpochOf(t) <= t
           /\ t < Period * EpochOf(t) + Period
  BY WatcherAssumption, SMTT(30) DEF EpochOf

LEMMA Multiples ==
    ASSUME NEW p \in Nat \ {0}, NEW q \in Nat, NEW s \in Nat, p * q < p * s + p
    PROVE  q <= s
  BY SMTT(30)

(* A later time is in no earlier epoch.                                    *)
LEMMA EpochsGrow ==
    ASSUME NEW a \in Nat, NEW b \in Nat, a <= b
    PROVE  EpochOf(a) <= EpochOf(b)
  <1>1. /\ EpochOf(a) \in Nat /\ EpochOf(b) \in Nat
        /\ Period * EpochOf(a) <= a /\ b < Period * EpochOf(b) + Period
    BY EpochBounds
  <1>2. Period \in Nat \ {0} /\ Period * EpochOf(a) \in Nat /\ Period * EpochOf(b) \in Nat
    BY <1>1, WatcherAssumption, SMTT(30)
  <1>3. Period * EpochOf(a) < Period * EpochOf(b) + Period
    BY <1>1, <1>2
  <1> QED
    BY <1>1, <1>2, <1>3, Multiples

LEMMA FirstEpoch == EpochOf(0) = 0
  <1>1. /\ Period \in Nat \ {0} /\ EpochOf(0) \in Nat
        /\ Period * EpochOf(0) <= 0
    BY EpochBounds, WatcherAssumption
  <1>2. Period * EpochOf(0) \in Nat /\ Period * 0 = 0
    BY <1>1, SMTT(30)
  <1>3. EpochOf(0) <= 0
    BY <1>1, <1>2, Multiples
  <1> QED
    BY <1>1, <1>3

(* One period later is at least one epoch later.                           *)
LEMMA NextEpoch ==
    ASSUME NEW a \in Nat, NEW b \in Nat, a + Period <= b
    PROVE  EpochOf(a) + 1 <= EpochOf(b)
  <1>1. /\ EpochOf(a) \in Nat /\ EpochOf(b) \in Nat
        /\ Period * EpochOf(a) <= a /\ b < Period * EpochOf(b) + Period
    BY EpochBounds
  <1>2. Period * (EpochOf(a) + 1) = Period * EpochOf(a) + Period
    BY <1>1, WatcherAssumption, SMTT(30)
  <1>3. Period * (EpochOf(a) + 1) < Period * EpochOf(b) + Period
    BY <1>1, <1>2, WatcherAssumption
  <1> QED
    BY <1>1, <1>3, Multiples, WatcherAssumption

-----------------------------------------------------------------------------
(* Types.                                                                  *)
(* A turn claims for an epoch that is over, at a time that has come.       *)
ClaimPhases == {"finality", "snapshot", "hash", "verified", "pending", "claim", "recheck"}

Turn ==
    /\ clock <= MaxClock /\ now <= clock
    /\ phase \in ClaimPhases => EpochOf(now) > 0
    /\ phase = "recheck" => error # "none"

Typed == TypeOK /\ Turn

LEMMA TypedInit == Init => Typed
  <1> SUFFICES ASSUME Init PROVE Typed
    OBVIOUS
  <1>1. EpochOf(MaxClock) \in Nat
    BY EpochBounds, WatcherAssumption
  <1>2. NoClaim \in [root : Nat, at : Nat, mine : BOOLEAN, open : BOOLEAN]
    BY DEF NoClaim
  <1>3. BridgeTypeOK
    BY <1>2 DEF Init, BridgeTypeOK
  <1>4. IndexerTypeOK
    BY DEF Init, IndexerTypeOK, Nothing, None
  <1>5. WatcherTypeOK
    BY DEF Init, WatcherTypeOK, None, Awake
  <1>6. Turn
    BY WatcherAssumption DEF Init, Turn, ClaimPhases
  <1> QED
    BY <1>3, <1>4, <1>5, <1>6 DEF Typed, TypeOK

(* The epochs of times that occur are epochs of the model.                 *)
LEMMA EpochsOccur ==
    ASSUME Typed
    PROVE  /\ EpochOf(clock) \in Epochs /\ Current \in Epochs
           /\ Current <= EpochOf(clock)
           /\ Current > 0 => Claiming \in Epochs
  <1>1. clock \in Nat /\ now \in Nat /\ MaxClock \in Nat
        /\ clock <= MaxClock /\ now <= clock
    BY WatcherAssumption DEF Typed, TypeOK, BridgeTypeOK, WatcherTypeOK, Turn
  <1>2. /\ EpochOf(clock) <= EpochOf(MaxClock) /\ EpochOf(now) <= EpochOf(clock)
        /\ EpochOf(clock) \in Nat /\ EpochOf(now) \in Nat /\ EpochOf(MaxClock) \in Nat
    BY <1>1, EpochsGrow, EpochBounds
  <1> QED
    BY <1>2 DEF Epochs, Current, Claiming

-----------------------------------------------------------------------------
(* What a step does to the bridge.                                         *)

BridgeStill == UNCHANGED <<clock, bridge>>
SavesStep == Save /\ UNCHANGED <<clock, messages, claims, stateRoot>>
RivalStep ==
    /\ \E e \in Epochs, r \in 1 .. MaxCount : Claimable(e) /\ MakeClaim(e, r, FALSE)
    /\ UNCHANGED <<clock, messages, saves, snapshots, stateRoot>>
OwnStep ==
    /\ phase = "claim" /\ Claimable(Claiming) /\ MakeClaim(Claiming, answer, TRUE)
    /\ UNCHANGED <<clock, messages, saves, snapshots, stateRoot>>

LEMMA StepLeavesBridge ==
    ASSUME NEW from, NEW to, Step(from, to)
    PROVE  BridgeStill
  BY DEF Step, ClaimFrame, BridgeStill, bridge

LEMMA SettleLeavesBridge ==
    Settle /\ UNCHANGED claims => BridgeStill
  BY DEF Settle, ClaimFrame, BridgeStill, bridge

LEMMA FailLeavesBridge ==
    ASSUME NEW e, Fail(e)
    PROVE  BridgeStill
  BY DEF Fail, ClaimFrame, BridgeStill, bridge

LEMMA BridgeSteps ==
    ASSUME Next
    PROVE  BridgeStill \/ Tick \/ SendMessage \/ SavesStep \/ RivalStep \/ Resolve \/ OwnStep
  <1>1. CASE Tick \/ SendMessage \/ Resolve
    BY <1>1
  <1>2. CASE RivalSaves
    BY <1>2 DEF RivalSaves, SavesStep
  <1>3. CASE RivalClaims
    BY <1>3 DEF RivalClaims, RivalStep
  <1>4. CASE Start \/ Kill
    BY <1>4 DEF Start, Kill, BridgeStill
  <1>5. CASE Indexer
    BY <1>5 DEF Indexer, ScanNothing, ScanChunk, HandleSnapshotSaved, FinishScan, Forget,
                BridgeStill
  <1>6. CASE ReadTimestamp \/ ReadCount \/ Compare
    BY <1>6 DEF ReadTimestamp, ReadCount, Compare, BridgeStill
  <1>7. CASE SaveSnapshot \/ SaveFails
    BY <1>7 DEF SaveSnapshot, SaveFails, SavesStep, BridgeStill, bridge
  <1>8. CASE CheckFinality
    BY <1>8, StepLeavesBridge DEF CheckFinality, ClaimFrame, BridgeStill, bridge
  <1>9. CASE BatchNotPosted \/ ReadSnapshot
    BY <1>9, SettleLeavesBridge DEF BatchNotPosted, ReadSnapshot, ClaimFrame, BridgeStill, bridge
  <1>10. CASE ReadHash \/ ReadStateRoot \/ LookForRoot
    BY <1>10, StepLeavesBridge, SettleLeavesBridge DEF ReadHash, ReadStateRoot, LookForRoot
  <1>11. CASE ClaimLands
    BY <1>11 DEF ClaimLands, OwnStep, Settle, ClaimFrame
  <1>12. CASE ClaimFails
    BY <1>12 DEF ClaimFails, OwnStep, ClaimFrame, BridgeStill, bridge
  <1>13. CASE Recheck \/ ClaimRequestFails
    BY <1>13, FailLeavesBridge, SettleLeavesBridge DEF Recheck, ClaimRequestFails
  <1> QED
    BY <1>1, <1>2, <1>3, <1>4, <1>5, <1>6, <1>7, <1>8, <1>9, <1>10, <1>11, <1>12, <1>13
       DEF Next, Watcher

LEMMA BridgeTyped ==
    ASSUME Typed, Next
    PROVE  BridgeTypeOK'
  <1> USE DEF Typed, TypeOK, BridgeTypeOK
  <1>0. EpochOf(clock) \in Epochs
    BY EpochsOccur
  <1>1. CASE BridgeStill
    BY <1>1 DEF BridgeStill, bridge
  <1>2. CASE Tick
    BY <1>2 DEF Tick, bridge
  <1>3. CASE SendMessage
    <2>1. EpochOf(clock + BeforeBuffer) \in Nat
      <3>1. clock + BeforeBuffer \in Nat
        BY WatcherAssumption
      <3> QED
        BY <3>1, EpochBounds
    <2> QED
      BY <1>3, <2>1 DEF SendMessage
  <1>4. CASE SavesStep
    <2>1. Len(messages) \in Nat
      OBVIOUS
    <2>2. saves' \in Seq([count : Nat, at : Nat])
      BY <1>4, <2>1 DEF SavesStep, Save
    <2>3. snapshots' \in [Epochs -> Nat]
      BY <1>4, <2>1 DEF SavesStep, Save
    <2> QED
      BY <1>4, <2>2, <2>3 DEF SavesStep
  <1>5. CASE RivalStep
    BY <1>5, WatcherAssumption DEF RivalStep, MakeClaim
  <1>6. CASE Resolve
    BY <1>6 DEF Resolve
  <1>7. CASE OwnStep
    BY <1>7 DEF OwnStep, MakeClaim, WatcherTypeOK
  <1> QED
    BY <1>1, <1>2, <1>3, <1>4, <1>5, <1>6, <1>7, BridgeSteps

LEMMA ElementOf ==
    ASSUME NEW S, NEW s \in Seq(S), NEW i \in 1 .. Len(s)
    PROVE  s[i] \in S
  OBVIOUS

(* Saves are only added to.                                                *)
LEMMA SavesGrow ==
    ASSUME Typed, [Next]_vars
    PROVE  /\ Len(saves) \in Nat /\ Len(saves') \in Nat /\ Len(saves) <= Len(saves')
           /\ \A i \in 1 .. Len(saves) : saves'[i] = saves[i]
  <1> USE DEF Typed, TypeOK, BridgeTypeOK
  <1>1. CASE UNCHANGED saves
    BY <1>1
  <1>2. CASE SavesStep
    <2>1. [count |-> Len(messages), at |-> clock] \in [count : Nat, at : Nat]
      OBVIOUS
    <2> QED
      BY <1>2, <2>1 DEF SavesStep, Save
  <1> QED
    BY <1>1, <1>2, BridgeSteps
       DEF BridgeStill, bridge, Tick, SendMessage, RivalStep, Resolve, OwnStep, vars

-----------------------------------------------------------------------------
(* What a step does to the indexer.                                        *)

LEMMA StepLeavesIndexer ==
    ASSUME NEW from, NEW to, Step(from, to)
    PROVE  UNCHANGED indexer
  BY DEF Step, ClaimFrame

LEMMA FailLeavesIndexer ==
    ASSUME NEW e, Fail(e)
    PROVE  UNCHANGED indexer
  BY DEF Fail, ClaimFrame

LEMMA IndexerSteps ==
    ASSUME Next
    PROVE  UNCHANGED indexer \/ Indexer \/ Start
  <1>1. CASE Tick \/ SendMessage \/ RivalSaves \/ RivalClaims \/ Resolve \/ Kill
    BY <1>1 DEF Tick, SendMessage, RivalSaves, RivalClaims, Resolve, Kill
  <1>2. CASE ReadTimestamp \/ ReadCount \/ Compare \/ SaveSnapshot \/ SaveFails
    BY <1>2 DEF ReadTimestamp, ReadCount, Compare, SaveSnapshot, SaveFails
  <1>3. CASE CheckFinality \/ BatchNotPosted \/ ReadSnapshot \/ ClaimLands \/ ClaimFails
    BY <1>3, StepLeavesIndexer
       DEF CheckFinality, BatchNotPosted, ReadSnapshot, ClaimLands, ClaimFails, Settle, ClaimFrame
  <1>4. CASE ReadHash \/ ReadStateRoot \/ LookForRoot
    BY <1>4, StepLeavesIndexer DEF ReadHash, ReadStateRoot, LookForRoot, Settle, ClaimFrame
  <1>5. CASE Recheck \/ ClaimRequestFails
    BY <1>5, FailLeavesIndexer DEF Recheck, ClaimRequestFails, Settle, ClaimFrame
  <1>6. CASE Indexer \/ Start
    BY <1>6
  <1> QED
    BY <1>1, <1>2, <1>3, <1>4, <1>5, <1>6 DEF Next, Watcher

LEMMA Subtractions ==
    ASSUME NEW a \in Nat, NEW b \in Nat
    PROVE  Truncated(a, b) \in Nat
  BY DEF Truncated

LEMMA IndexerTyped ==
    ASSUME Typed, Next
    PROVE  IndexerTypeOK'
  <1> USE DEF Typed, TypeOK, IndexerTypeOK
  <1>0. /\ Len(saves) \in Nat /\ Len(saves') \in Nat /\ Len(saves) <= Len(saves')
        /\ 1 .. Len(saves) \subseteq 1 .. Len(saves')
    BY SavesGrow
  <1>1. CASE UNCHANGED indexer
    BY <1>0, <1>1 DEF indexer, files
  <1>2. CASE Start
    <2>1. Truncated(clock, Lookback) \in Nat
      BY Subtractions, WatcherAssumption DEF BridgeTypeOK
    <2> QED
      BY <1>0, <1>2, <2>1 DEF Start, Nothing, None
  <1>3. CASE ScanNothing
    BY <1>3 DEF ScanNothing, bridge
  <1>4. CASE ScanChunk
    <2>1. Final \in Nat
      BY Subtractions, WatcherAssumption DEF Final, BridgeTypeOK
    <2> QED
      BY <1>4, <2>1 DEF ScanChunk, bridge, files
  <1>5. CASE HandleSnapshotSaved
    <2>1. PICK i \in scan.left : /\ lastSaved' = saves[i].count
                               /\ scan' = [scan EXCEPT !.left = @ \ {i}]
      BY <1>5 DEF HandleSnapshotSaved
    <2>2. saves[i].count \in Nat
      <3>1. i \in 1 .. Len(saves) /\ saves \in Seq([count : Nat, at : Nat])
        BY DEF BridgeTypeOK
      <3>2. saves[i] \in [count : Nat, at : Nat]
        BY ONLY <3>1, ElementOf
      <3> QED
        BY <3>2
    <2> QED
      BY <1>5, <2>1, <2>2 DEF HandleSnapshotSaved, bridge
  <1>6. CASE FinishScan
    BY <1>0, <1>6 DEF FinishScan, Nothing
  <1>7. CASE Forget
    BY <1>7 DEF Forget, bridge
  <1> QED
    BY <1>1, <1>2, <1>3, <1>4, <1>5, <1>6, <1>7, IndexerSteps DEF Indexer

-----------------------------------------------------------------------------
(* What a step does to the watcher.                                        *)

WatcherStill == UNCHANGED <<route, phase, locals>>

LEMMA HinderTyped ==
    ASSUME Typed, Hinder
    PROVE  hindered' \in Seq(Nat)
  <1>1. EpochOf(clock) \in Nat
    BY EpochBounds DEF Typed, TypeOK, BridgeTypeOK
  <1> QED
    BY <1>1 DEF Hinder, Typed, TypeOK, WatcherTypeOK

LEMMA PanicTyped ==
    ASSUME Typed, NEW why \in {"down", "reverted"}, Panic(why)
    PROVE  WatcherTypeOK'
  BY HinderTyped DEF Panic, Sleep, WatcherTypeOK, None

LEMMA SettleTyped ==
    ASSUME Typed, Settle
    PROVE  WatcherTypeOK'
  <1>1. EpochOf(now) \in Nat
    BY EpochBounds DEF Typed, TypeOK, WatcherTypeOK
  <1> QED
    BY <1>1 DEF Settle, Sleep, Claiming, Current, Typed, TypeOK, WatcherTypeOK

LEMMA StepTyped ==
    ASSUME Typed, NEW from, NEW to \in Awake, Step(from, to)
    PROVE  WatcherTypeOK'
  BY DEF Step, Typed, TypeOK, WatcherTypeOK

LEMMA FailTyped ==
    ASSUME Typed, NEW e \in {"reverted", "fatal", "timeout"}, Fail(e)
    PROVE  WatcherTypeOK'
  <1>1. CASE e = "timeout"
    BY <1>1, HinderTyped DEF Fail, Sleep, Typed, TypeOK, WatcherTypeOK
  <1>2. CASE e # "timeout"
    <2>1. Panic(IF e = "fatal" THEN "down" ELSE e)
      BY <1>2 DEF Fail
    <2>2. (IF e = "fatal" THEN "down" ELSE e) \in {"down", "reverted"}
      BY <1>2
    <2> QED
      BY <2>1, <2>2, PanicTyped
  <1> QED
    BY <1>1, <1>2

LEMMA WatcherTyped ==
    ASSUME Typed, Next
    PROVE  WatcherTypeOK'
  <1> USE DEF Typed, TypeOK
  <1>0. /\ EpochOf(now) \in Nat /\ EpochOf(clock) \in Nat /\ clock \in Nat
        /\ Len(messages) \in Nat
    <2>1. now \in Nat /\ clock \in Nat /\ messages \in Seq(Nat)
      BY DEF WatcherTypeOK, BridgeTypeOK
    <2> QED
      BY ONLY <2>1, EpochBounds
  <1>1. CASE WatcherStill /\ UNCHANGED hindered
    BY <1>1 DEF WatcherStill, locals, WatcherTypeOK
  <1>2. CASE Tick
    <2>1. hindered' \in Seq(Nat)
      BY <1>2, HinderTyped DEF Tick, WatcherTypeOK
    <2> QED
      BY <1>2, <2>1 DEF Tick, locals, WatcherTypeOK
  <1>3. CASE Kill
    BY <1>3, PanicTyped DEF Kill
  <1>4. CASE Start
    BY <1>4 DEF Start, locals, WatcherTypeOK
  <1>5. CASE ReadTimestamp
    BY <1>0, <1>5 DEF ReadTimestamp, TurnToClaim, Sleep, WatcherTypeOK, Awake
  <1>6. CASE ReadCount
    BY <1>0, <1>6 DEF ReadCount, WatcherTypeOK, Awake
  <1>7. CASE Compare
    BY <1>0, <1>7 DEF Compare, Saved, Current, TurnToClaim, Sleep, WatcherTypeOK, Awake
  <1>8. CASE SaveSnapshot
    BY <1>0, <1>8 DEF SaveSnapshot, Saved, Current, TurnToClaim, Sleep, WatcherTypeOK, Awake
  <1>9. CASE SaveFails
    BY <1>9, PanicTyped DEF SaveFails
  <1>10. CASE CheckFinality
    <2>1. CASE Step("finality", "snapshot")
      BY <2>1, StepTyped DEF Awake
    <2>2. CASE ~Step("finality", "snapshot")
      BY <1>10, <2>2, HinderTyped, WatcherAssumption
         DEF CheckFinality, Sleep, WatcherTypeOK
    <2> QED
      BY <2>1, <2>2
  <1>11. CASE BatchNotPosted
    BY <1>11, PanicTyped DEF BatchNotPosted
  <1>12. CASE ReadSnapshot
    <2>1. CASE Settle
      BY <2>1, SettleTyped
    <2>2. CASE ~Settle
      <3>1. phase = "snapshot"
        BY <1>12 DEF ReadSnapshot
      <3>2. Claiming \in Epochs
        BY <3>1, EpochsOccur DEF Turn, ClaimPhases, Current
      <3>3. snapshots[Claiming] \in Nat
        BY <3>2 DEF BridgeTypeOK
      <3> QED
        BY <1>12, <2>2, <3>3 DEF ReadSnapshot, WatcherTypeOK, Awake
    <2> QED
      BY <2>1, <2>2
  <1>13. CASE ReadHash \/ ReadStateRoot \/ LookForRoot
    BY <1>13, StepTyped, SettleTyped DEF ReadHash, ReadStateRoot, LookForRoot, Awake
  <1>14. CASE ClaimLands
    BY <1>14, SettleTyped DEF ClaimLands
  <1>15. CASE ClaimFails
    <2>1. hindered' \in Seq(Nat)
      BY <1>15, HinderTyped DEF ClaimFails, WatcherTypeOK
    <2>2. error' \in {"none", "reverted", "fatal", "timeout"}
      BY <1>15 DEF ClaimFails
    <2> QED
      BY <1>15, <2>1, <2>2 DEF ClaimFails, WatcherTypeOK, Awake
  <1>16. CASE Recheck
    <2>1. CASE Settle
      BY <2>1, SettleTyped
    <2>2. CASE Fail(error)
      <3>1. error \in {"reverted", "fatal", "timeout"}
        BY <1>16 DEF Recheck, Turn, WatcherTypeOK
      <3> QED
        BY <2>2, <3>1, FailTyped
    <2> QED
      BY <1>16, <2>1, <2>2 DEF Recheck
  <1>17. CASE ClaimRequestFails
    BY <1>17, FailTyped DEF ClaimRequestFails
  <1>18. CASE SendMessage \/ RivalSaves \/ RivalClaims \/ Resolve
    BY <1>1, <1>18 DEF SendMessage, RivalSaves, RivalClaims, Resolve, WatcherStill
  <1>19. CASE Indexer
    BY <1>1, <1>19 DEF Indexer, ScanNothing, ScanChunk, HandleSnapshotSaved, FinishScan, Forget,
                       WatcherStill
  <1> QED
    BY <1>2, <1>3, <1>4, <1>5, <1>6, <1>7, <1>8, <1>9, <1>10, <1>11, <1>12, <1>13, <1>14,
       <1>15, <1>16, <1>17, <1>18, <1>19 DEF Next, Watcher

-----------------------------------------------------------------------------
(* How a turn of the loop goes on.                                         *)

Holding == {"hash", "verified", "pending", "claim"}

Stays == UNCHANGED <<phase, now, answer, error>>
Sleeps == phase' \notin ClaimPhases /\ now' \in {0, now, clock}
Turns ==
    /\ phase' = "finality" /\ now' \in {now, clock}
    /\ EpochOf(now') > 0 /\ ClaimTime(now')
AsksSnapshot == phase = "finality" /\ phase' = "snapshot" /\ now' = now
Takes ==
    /\ phase = "snapshot" /\ phase' = "hash"
    /\ now' = now /\ answer' = snapshots[Claiming]
Holds ==
    /\ phase \in Holding /\ phase' \in Holding
    /\ now' = now /\ answer' = answer
Doubts ==
    /\ phase = "claim" /\ phase' = "recheck" /\ now' = now /\ answer' = answer
    /\ error' # "none"
    /\ error' = "reverted" => ~Claimable(Claiming) /\ UNCHANGED <<clock, claims>>

Moves == Stays \/ Sleeps \/ Turns \/ AsksSnapshot \/ Takes \/ Holds \/ Doubts

LEMMA SleepMoves == Sleep => Moves
  BY DEF Sleep, Moves, Sleeps, ClaimPhases

LEMMA TurnMoves ==
    ASSUME NEW t \in {now, clock}, TurnToClaim(t)
    PROVE  Moves
  BY SleepMoves DEF TurnToClaim, ClaimTime, Moves, Turns

LEMMA StepMoves ==
    ASSUME NEW from \in Holding, NEW to \in Holding, Step(from, to)
    PROVE  Moves
  BY DEF Step, Moves, Holds

LEMMA FailMoves ==
    ASSUME NEW e, Fail(e)
    PROVE  Moves
  BY SleepMoves DEF Fail, Panic

LEMMA WatcherMoves ==
    ASSUME Next
    PROVE  Moves
  <1>1. CASE Tick \/ SendMessage \/ RivalSaves \/ RivalClaims \/ Resolve \/ Start
    BY <1>1 DEF Tick, SendMessage, RivalSaves, RivalClaims, Resolve, Start, locals, Moves, Stays
  <1>2. CASE Indexer
    BY <1>2 DEF Indexer, ScanNothing, ScanChunk, HandleSnapshotSaved, FinishScan, Forget,
                locals, Moves, Stays
  <1>3. CASE Kill \/ SaveFails \/ BatchNotPosted
    BY <1>3, SleepMoves DEF Kill, SaveFails, BatchNotPosted, Panic
  <1>4. CASE ReadTimestamp
    BY <1>4, TurnMoves DEF ReadTimestamp, Moves, Sleeps, ClaimPhases
  <1>5. CASE ReadCount
    BY <1>5 DEF ReadCount, Moves, Sleeps, ClaimPhases
  <1>6. CASE Compare \/ SaveSnapshot
    BY <1>6, TurnMoves DEF Compare, SaveSnapshot, Saved, Moves, Sleeps, ClaimPhases
  <1>7. CASE CheckFinality
    BY <1>7, SleepMoves DEF CheckFinality, Step, Moves, AsksSnapshot
  <1>8. CASE ReadSnapshot
    BY <1>8, SleepMoves DEF ReadSnapshot, Settle, Moves, Takes
  <1>9. CASE ReadHash \/ ReadStateRoot \/ LookForRoot
    BY <1>9, SleepMoves, StepMoves DEF ReadHash, ReadStateRoot, LookForRoot, Settle, Holding
  <1>10. CASE ClaimLands
    BY <1>10, SleepMoves DEF ClaimLands, Settle
  <1>11. CASE ClaimFails
    BY <1>11 DEF ClaimFails, ClaimFrame, Moves, Doubts
  <1>12. CASE Recheck \/ ClaimRequestFails
    BY <1>12, SleepMoves, FailMoves DEF Recheck, ClaimRequestFails, Settle
  <1> QED
    BY <1>1, <1>2, <1>3, <1>4, <1>5, <1>6, <1>7, <1>8, <1>9, <1>10, <1>11, <1>12
       DEF Next, Watcher

(* Time moves by ticks, up to the bound.                                   *)
LEMMA ClockSteps ==
    ASSUME Typed, [Next]_vars
    PROVE  /\ clock' \in Nat /\ clock <= clock' /\ clock' <= MaxClock
           /\ EpochOf(clock) <= EpochOf(clock')
  <1>1. clock \in Nat /\ clock <= MaxClock /\ MaxClock \in Nat
    BY WatcherAssumption DEF Typed, TypeOK, BridgeTypeOK, Turn
  <1>2. clock' = clock \/ (clock < MaxClock /\ clock' = clock + 1)
    BY BridgeSteps
       DEF BridgeStill, Tick, SendMessage, SavesStep, RivalStep, Resolve, OwnStep, vars
  <1> QED
    BY <1>1, <1>2, EpochsGrow

LEMMA TurnKept ==
    ASSUME Typed, Next
    PROVE  Turn'
  <1>1. /\ now \in Nat /\ clock \in Nat /\ clock' \in Nat /\ now <= clock
        /\ clock <= clock' /\ clock' <= MaxClock
    BY ClockSteps DEF Typed, TypeOK, BridgeTypeOK, WatcherTypeOK, Turn
  <1>2. now' <= clock'
    BY <1>1, WatcherMoves
       DEF Moves, Stays, Sleeps, Turns, AsksSnapshot, Takes, Holds, Doubts
  <1>3. phase' \in ClaimPhases => EpochOf(now') > 0
    BY WatcherMoves
       DEF Moves, Stays, Sleeps, Turns, AsksSnapshot, Takes, Holds, Doubts, Typed, Turn,
           ClaimPhases, Holding
  <1>4. phase' = "recheck" => error' # "none"
    BY WatcherMoves
       DEF Moves, Stays, Sleeps, Turns, AsksSnapshot, Takes, Holds, Doubts, Typed, Turn,
           ClaimPhases, Holding
  <1> QED
    BY <1>1, <1>2, <1>3, <1>4 DEF Turn, EpochOf

LEMMA TypedStep == Typed /\ [Next]_vars => Typed'
  <1>1. CASE Typed /\ Next
    BY <1>1, BridgeTyped, IndexerTyped, WatcherTyped, TurnKept DEF Typed, TypeOK
  <1>2. CASE Typed /\ UNCHANGED vars
    BY <1>2 DEF Typed, TypeOK, BridgeTypeOK, IndexerTypeOK, WatcherTypeOK, Turn, vars, bridge,
                indexer, files, locals
  <1> QED
    BY <1>1, <1>2

LEMMA TypedHolds == Spec => []Typed
  BY TypedInit, TypedStep, PTL DEF Spec

(* The bridge, the two files and the watcher's locals keep their types.    *)
THEOREM WatcherTypes == Spec => []TypeOK
  <1>1. Typed => TypeOK
    BY DEF Typed
  <1> QED
    BY <1>1, TypedHolds, PTL

-----------------------------------------------------------------------------
(* Skips only what is saved.                                               *)

LEMMA SkipsStep == Typed /\ SkipsOnlySaved /\ [Next]_vars => SkipsOnlySaved'
  <1> SUFFICES ASSUME Typed, SkipsOnlySaved, [Next]_vars, lastSaved' > 0
               PROVE  \E i \in 1 .. Len(saves') : saves'[i].count = lastSaved'
    BY DEF SkipsOnlySaved
  <1>0. /\ Len(saves) \in Nat /\ Len(saves') \in Nat /\ Len(saves) <= Len(saves')
        /\ \A i \in 1 .. Len(saves) : saves'[i] = saves[i]
    BY SavesGrow
  <1>1. CASE lastSaved' = lastSaved
    BY <1>0, <1>1 DEF SkipsOnlySaved
  <1>2. CASE HandleSnapshotSaved
    <2>1. PICK i \in scan.left : lastSaved' = saves[i].count
      BY <1>2 DEF HandleSnapshotSaved
    <2>2. i \in 1 .. Len(saves)
      BY DEF Typed, TypeOK, IndexerTypeOK
    <2> QED
      BY <1>0, <2>1, <2>2
  <1>3. lastSaved' = lastSaved \/ HandleSnapshotSaved
    BY IndexerSteps
       DEF vars, indexer, files, Start, Indexer, ScanNothing, ScanChunk, FinishScan, Forget
  <1> QED
    BY <1>1, <1>2, <1>3

(* The count for which the watcher skips a save has been saved.            *)
THEOREM SkipsAreSafe == Spec => []SkipsOnlySaved
  <1>1. Init => SkipsOnlySaved
    BY DEF Init, SkipsOnlySaved
  <1> QED
    BY <1>1, SkipsStep, TypedHolds, PTL DEF Spec

-----------------------------------------------------------------------------
(* Claims what was saved.                                                  *)

(* The snapshots of epochs that are over do not change.                    *)
LEMMA SnapshotsStay ==
    ASSUME Typed, [Next]_vars, NEW e \in Epochs, e < EpochOf(clock)
    PROVE  snapshots'[e] = snapshots[e]
  <1>1. CASE UNCHANGED snapshots
    BY <1>1
  <1>2. CASE SavesStep
    <2>1. EpochOf(clock) \in Epochs /\ e # EpochOf(clock)
      BY EpochsOccur DEF Epochs
    <2>2. snapshots \in [Epochs -> Nat]
      BY DEF Typed, TypeOK, BridgeTypeOK
    <2> QED
      BY <1>2, <2>1, <2>2 DEF SavesStep, Save
  <1> QED
    BY <1>1, <1>2, BridgeSteps
       DEF BridgeStill, bridge, Tick, SendMessage, RivalStep, Resolve, OwnStep, vars

(* What claim holds is the snapshot of an epoch that is over, and so is    *)
(* every claim of this validator.                                          *)
Held ==
    phase \in Holding \cup {"recheck"} => answer = snapshots[Claiming]

MineOver ==
    \A e \in Epochs : claims[e].mine => claims[e].root = snapshots[e] /\ e < EpochOf(clock)

LEMMA HeldStep ==
    ASSUME Typed, Held, [Next]_vars
    PROVE  Held'
  <1> SUFFICES ASSUME phase' \in Holding \cup {"recheck"}
               PROVE  answer' = snapshots'[Claiming']
    BY DEF Held
  <1>1. /\ now' = now
        /\ \/ phase = "snapshot" /\ answer' = snapshots[Claiming]
           \/ phase \in Holding \cup {"recheck"} /\ answer' = answer
    BY WatcherMoves
       DEF Moves, Stays, Sleeps, Turns, AsksSnapshot, Takes, Holds, Doubts, ClaimPhases,
           Holding, vars, locals
  <1>2. /\ answer' = snapshots[Claiming] /\ Claiming' = Claiming
        /\ phase \in ClaimPhases
    BY <1>1 DEF Held, Claiming, Current, EpochOf, ClaimPhases, Holding
  <1>3. Claiming \in Epochs /\ Claiming < EpochOf(clock)
    <2>1. /\ EpochOf(clock) \in Epochs /\ Current \in Epochs /\ Current <= EpochOf(clock)
          /\ Current > 0 => Claiming \in Epochs
      BY EpochsOccur
    <2>2. Current > 0
      BY <1>2 DEF Typed, Turn, Current
    <2> QED
      BY <2>1, <2>2 DEF Claiming, Epochs
  <1> QED
    BY <1>2, <1>3, SnapshotsStay

LEMMA MineStep ==
    ASSUME Typed, Held, MineOver, [Next]_vars
    PROVE  MineOver'
  <1> SUFFICES ASSUME NEW e \in Epochs, claims'[e].mine
               PROVE  claims'[e].root = snapshots'[e] /\ e < EpochOf(clock')
    BY DEF MineOver, Epochs, EpochOf
  <1>0. /\ EpochOf(clock) \in Epochs /\ EpochOf(clock) <= EpochOf(clock')
        /\ EpochOf(clock') \in Nat
    BY EpochsOccur, ClockSteps, EpochBounds
  <1>1. CASE claims[e].mine /\ claims'[e].root = claims[e].root
    BY <1>0, <1>1, SnapshotsStay DEF MineOver, Epochs
  <1>2. CASE OwnStep
    <2>1. answer = snapshots[Claiming] /\ Claiming < EpochOf(clock) /\ UNCHANGED snapshots
      <3>1. Claiming + 1 = EpochOf(clock) /\ Current \in Epochs
        BY <1>2, EpochsOccur DEF OwnStep, Claimable
      <3>2. Claiming < EpochOf(clock)
        BY <3>1 DEF Claiming, Epochs
      <3> QED
        BY <1>2, <3>2 DEF OwnStep, Held, Holding
    <2>2. CASE e = Claiming
      BY <1>0, <1>2, <2>1, <2>2
         DEF OwnStep, MakeClaim, Typed, TypeOK, BridgeTypeOK, Epochs
    <2>3. CASE e # Claiming
      BY <1>1, <1>2, <2>3 DEF OwnStep, MakeClaim, Typed, TypeOK, BridgeTypeOK
    <2> QED
      BY <2>2, <2>3
  <1>3. CASE RivalStep
    BY <1>1, <1>3 DEF RivalStep, MakeClaim, Typed, TypeOK, BridgeTypeOK
  <1>4. CASE Resolve
    BY <1>1, <1>4 DEF Resolve, Typed, TypeOK, BridgeTypeOK
  <1>5. CASE UNCHANGED claims
    BY <1>1, <1>5
  <1> QED
    BY <1>2, <1>3, <1>4, <1>5, BridgeSteps
       DEF BridgeStill, bridge, Tick, SendMessage, SavesStep, vars

LEMMA ClaimsHold == Spec => [](Held /\ MineOver)
  <1>1. Init => Held /\ MineOver
    BY DEF Init, Held, MineOver, Holding, NoClaim
  <1>2. Typed /\ Held /\ MineOver /\ [Next]_vars => Held' /\ MineOver'
    BY HeldStep, MineStep
  <1> QED
    BY <1>1, <1>2, TypedHolds, PTL DEF Spec

(* A claim of this validator is the epoch's snapshot, and stays it.        *)
THEOREM OwnClaimsAreTrue == Spec => []ClaimsTrue
  <1>1. MineOver => ClaimsTrue
    BY DEF MineOver, ClaimsTrue
  <1> QED
    BY <1>1, ClaimsHold, PTL

-----------------------------------------------------------------------------
(* A claim of others does not stop the route.                              *)

(* A claim is made in the epoch after its own and open until the next.     *)
ClaimTimes ==
    \A e \in Epochs :
        /\ Claimed(e) => EpochOf(claims[e].at) = e + 1 /\ claims[e].at <= clock
        /\ Claimed(e) /\ ~claims[e].open => e + 1 < EpochOf(clock)

LEMMA ClaimTimesStep ==
    ASSUME Typed, ClaimTimes, [Next]_vars
    PROVE  ClaimTimes'
  <1> SUFFICES ASSUME NEW e \in Epochs, Claimed(e)'
               PROVE  /\ EpochOf(claims'[e].at) = e + 1 /\ claims'[e].at <= clock'
                      /\ ~claims'[e].open => e + 1 < EpochOf(clock')
    BY DEF ClaimTimes, Claimed, EpochOf, Epochs
  <1>0. /\ EpochOf(clock) \in Epochs /\ EpochOf(clock) <= EpochOf(clock')
        /\ EpochOf(clock') \in Nat /\ clock \in Nat /\ clock' \in Nat /\ clock <= clock'
    BY EpochsOccur, ClockSteps, EpochBounds DEF Typed, TypeOK, BridgeTypeOK
  <1>1. claims \in [Epochs -> [root : Nat, at : Nat, mine : BOOLEAN, open : BOOLEAN]]
    BY DEF Typed, TypeOK, BridgeTypeOK
  <1>2. CASE claims'[e] = claims[e]
    <2>1. Claimed(e) /\ e \in Int
      BY <1>2 DEF Claimed, NoClaim, Epochs
    <2> QED
      BY <1>0, <1>1, <1>2, <2>1 DEF ClaimTimes, Epochs
  <1>3. ASSUME NEW f \in Int, NEW r, NEW mine, Claimable(f), MakeClaim(f, r, mine),
               UNCHANGED clock
        PROVE  \/ claims'[e] = claims[e]
               \/ e + 1 = EpochOf(clock) /\ claims'[e].at = clock /\ claims'[e].open
    BY <1>1, <1>3 DEF MakeClaim, Claimable
  <1>4. ASSUME e + 1 = EpochOf(clock), claims'[e].at = clock, claims'[e].open, UNCHANGED clock
        PROVE  /\ EpochOf(claims'[e].at) = e + 1 /\ claims'[e].at <= clock'
               /\ ~claims'[e].open => e + 1 < EpochOf(clock')
    BY <1>0, <1>4
  <1>5. CASE OwnStep
    <2>1. Claiming \in Int
      BY EpochsOccur DEF Claiming, Epochs
    <2> QED
      BY <1>2, <1>3, <1>4, <1>5, <2>1 DEF OwnStep
  <1>6. CASE RivalStep
    <2>1. PICK f \in Epochs, r \in 1 .. MaxCount : Claimable(f) /\ MakeClaim(f, r, FALSE)
      BY <1>6 DEF RivalStep
    <2>2. f \in Int /\ UNCHANGED clock
      BY <1>6 DEF RivalStep, Epochs
    <2> QED
      BY <1>2, <1>3, <1>4, <2>1, <2>2
  <1>7. CASE Resolve
    <2>1. PICK f \in Epochs :
              /\ claims[f].open /\ clock >= claims[f].at + Period
              /\ claims' = [claims EXCEPT ![f].open = FALSE]
      BY <1>7 DEF Resolve
    <2>2. CASE f # e
      BY <1>1, <1>2, <2>1, <2>2
    <2>3. CASE f = e
      <3>1. /\ Claimed(e) /\ claims[e].at \in Nat /\ claims'[e].at = claims[e].at
            /\ EpochOf(claims[e].at) = e + 1 /\ claims[e].at <= clock
        BY <1>1, <2>1, <2>3 DEF ClaimTimes, Claimed, NoClaim
      <3>2. EpochOf(claims[e].at) + 1 <= EpochOf(clock)
        BY <1>0, <2>1, <2>3, <3>1, NextEpoch
      <3>3. clock' = clock
        BY <1>7 DEF Resolve
      <3> QED
        BY <1>0, <3>1, <3>2, <3>3 DEF Epochs
    <2> QED
      BY <2>2, <2>3
  <1>8. CASE UNCHANGED claims
    BY <1>2, <1>8
  <1> QED
    BY <1>5, <1>6, <1>7, <1>8, BridgeSteps
       DEF BridgeStill, bridge, Tick, SendMessage, SavesStep, vars

(* A claim once made keeps its record.                                     *)
LEMMA ClaimsRemain ==
    ASSUME Typed, ClaimTimes, [Next]_vars, NEW e \in Epochs, claims[e] # NoClaim
    PROVE  claims'[e] # NoClaim
  <1>1. claims \in [Epochs -> [root : Nat, at : Nat, mine : BOOLEAN, open : BOOLEAN]]
    BY DEF Typed, TypeOK, BridgeTypeOK
  <1>2. CASE UNCHANGED claims
    BY <1>2
  <1>3. ASSUME NEW f \in Int, NEW r, NEW mine, MakeClaim(f, r, mine)
        PROVE  claims'[e] # NoClaim
    BY <1>1, <1>3 DEF MakeClaim, NoClaim
  <1>4. CASE OwnStep
    <2>1. Claiming \in Int
      BY EpochsOccur DEF Claiming, Epochs
    <2> QED
      BY <1>3, <1>4, <2>1 DEF OwnStep
  <1>5. CASE RivalStep
    <2>1. PICK f \in Epochs, r \in 1 .. MaxCount : MakeClaim(f, r, FALSE)
      BY <1>5 DEF RivalStep
    <2>2. f \in Int
      BY DEF Epochs
    <2> QED
      BY <1>3, <2>1, <2>2
  <1>6. CASE Resolve
    <2>1. claims'[e].at = claims[e].at
      BY <1>1, <1>6 DEF Resolve
    <2>2. EpochOf(claims[e].at) = e + 1 /\ e \in Nat
      BY DEF ClaimTimes, Claimed, Epochs
    <2>3. claims[e].at # 0
      BY <2>2, FirstEpoch
    <2> QED
      BY <2>1, <2>3 DEF NoClaim
  <1> QED
    BY <1>2, <1>4, <1>5, <1>6, BridgeSteps
       DEF BridgeStill, bridge, Tick, SendMessage, SavesStep, vars

(* A claim refused in the epoch after its own had been made before.        *)
RefusedForClaim ==
    phase = "recheck" /\ error = "reverted" =>
        Current < EpochOf(clock) \/ Claimed(Claiming)

LEMMA RefusedStep ==
    ASSUME Typed, ClaimTimes, RefusedForClaim, [Next]_vars
    PROVE  RefusedForClaim'
  <1> SUFFICES ASSUME phase' = "recheck", error' = "reverted",
                      ~(Current' < EpochOf(clock'))
               PROVE  Claimed(Claiming)'
    BY DEF RefusedForClaim, EpochOf
  <1>0. /\ EpochOf(clock) \in Nat /\ EpochOf(clock') \in Nat /\ Current \in Nat
        /\ Current <= EpochOf(clock) /\ EpochOf(clock) <= EpochOf(clock')
        /\ Current > 0 => Claiming \in Epochs
    BY EpochsOccur, ClockSteps, EpochBounds DEF Epochs
  <1>1. now' = now /\ Current' = Current /\ Claiming' = Claiming
        /\ (Stays \/ Doubts) /\ phase \in ClaimPhases
    BY WatcherMoves
       DEF Moves, Stays, Sleeps, Turns, AsksSnapshot, Takes, Holds, Doubts, ClaimPhases,
           Holding, vars, locals, Claiming, Current, EpochOf
  <1>2. Claiming \in Epochs /\ Current = EpochOf(clock)
    BY <1>0, <1>1 DEF Typed, Turn, Current
  <1>3. CASE Doubts
    <2>1. ~Claimable(Claiming) /\ UNCHANGED <<clock, claims>>
      BY <1>3 DEF Doubts
    <2> QED
      BY <1>0, <1>1, <1>2, <2>1 DEF Claimable, Claiming, Claimed
  <1>4. CASE Stays
    <2>1. Claimed(Claiming)
      BY <1>0, <1>2, <1>4 DEF Stays, RefusedForClaim
    <2>2. claims'[Claiming] # NoClaim
      BY <1>2, <2>1, ClaimsRemain DEF Claimed
    <2> QED
      BY <1>1, <2>2 DEF Claimed
  <1> QED
    BY <1>1, <1>3, <1>4

LEMMA FailReverts ==
    ASSUME Up, NEW e, Fail(e), route' = "reverted"
    PROVE  e = "reverted"
  BY DEF Up, Fail, Panic

LEMMA RevertsFromRecheck ==
    ASSUME Next, Up, route' = "reverted"
    PROVE  phase = "recheck" /\ ~claims[Claiming].open /\ error = "reverted"
  <1> USE DEF Up
  <1>1. ~(Tick \/ SendMessage \/ RivalSaves \/ RivalClaims \/ Resolve \/ Start \/ Kill)
    BY DEF Tick, SendMessage, RivalSaves, RivalClaims, Resolve, Start, Kill, Panic
  <1>2. ~Indexer
    BY DEF Indexer, ScanNothing, ScanChunk, HandleSnapshotSaved, FinishScan, Forget
  <1>3. ~(ReadTimestamp \/ ReadCount \/ Compare \/ SaveSnapshot \/ SaveFails)
    BY DEF ReadTimestamp, ReadCount, Compare, SaveSnapshot, SaveFails, Panic
  <1>4. ~Settle /\ \A from, to : ~Step(from, to)
    BY DEF Settle, Step
  <1>5. ~(CheckFinality \/ BatchNotPosted \/ ReadSnapshot \/ ReadHash \/ ReadStateRoot)
    BY <1>4 DEF CheckFinality, BatchNotPosted, ReadSnapshot, ReadHash, ReadStateRoot, Panic
  <1>6. ~(LookForRoot \/ ClaimLands \/ ClaimFails)
    BY <1>4 DEF LookForRoot, ClaimLands, ClaimFails
  <1>7. ~ClaimRequestFails
    BY FailReverts DEF ClaimRequestFails
  <1>8. Recheck
    BY <1>1, <1>2, <1>3, <1>5, <1>6, <1>7 DEF Next, Watcher
  <1> QED
    BY <1>4, <1>8, FailReverts DEF Recheck

LEMMA RivalsStep ==
    ASSUME Typed, ClaimTimes, RefusedForClaim, Next, Up, route' = "reverted"
    PROVE  Current # EpochOf(clock)
  <1> SUFFICES ASSUME Current = EpochOf(clock)
               PROVE  FALSE
    OBVIOUS
  <1>1. phase = "recheck" /\ ~claims[Claiming].open /\ error = "reverted"
    BY RevertsFromRecheck
  <1>2. Claimed(Claiming)
    BY <1>1, EpochsOccur DEF RefusedForClaim, Epochs
  <1>3. Claiming \in Epochs
    BY <1>1, EpochsOccur DEF Typed, Turn, ClaimPhases, Current
  <1>4. Claiming + 1 < EpochOf(clock)
    BY <1>1, <1>2, <1>3 DEF ClaimTimes
  <1> QED
    BY <1>4, EpochsOccur DEF Claiming, Epochs

(* A claim that others made first does not stop the route.                 *)
THEOREM RivalsDoNotStop == Spec => RivalsHarmless
  <1>1. Init => ClaimTimes /\ RefusedForClaim
    BY DEF Init, ClaimTimes, RefusedForClaim, Claimed
  <1>2. Typed /\ ClaimTimes /\ RefusedForClaim /\ [Next]_vars => ClaimTimes' /\ RefusedForClaim'
    BY ClaimTimesStep, RefusedStep
  <1>3. Typed /\ ClaimTimes /\ RefusedForClaim /\ [Next]_vars
            => [Up /\ route' = "reverted" => Current # EpochOf(clock)]_vars
    BY RivalsStep
  <1> QED
    BY <1>1, <1>2, <1>3, TypedHolds, PTL DEF Spec, RivalsHarmless
=============================================================================
