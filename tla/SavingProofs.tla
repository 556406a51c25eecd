---------------------------- MODULE SavingProofs ----------------------------
(***************************************************************************)
(* Each epoch is saved, for every buffer, number of epochs and order of    *)
(* events.  An epoch the watcher has served stays saved: what is sent      *)
(* after its window has opened belongs to the next.  The watcher serves    *)
(* the epoch before the clock leaves it, or the epoch is hindered.  Each   *)
(* epoch is claimed, and no deposit goes into a root that an open claim    *)
(* has: the file tells of every such claim when the watcher looks.         *)
(***************************************************************************)
EXTENDS EpochWatcherProofs

AllSaved(e) == \A i \in 1 .. Len(messages) : messages[i] <= e => SavedBy(i, e)

(* The window of epoch e has opened.                                       *)
Opened(e, t) == (e + 1) * Period <= t + BeforeBuffer

Saving == {"count", "compare", "save"}

SavesPast == \A j \in 1 .. Len(saves) : saves[j].at <= clock

ServedLast ==
    /\ lastBefore <= EpochOf(clock)
    /\ lastBefore = EpochOf(clock) => Opened(lastBefore, clock) /\ AllSaved(lastBefore)

(* The count that is compared has every message of the epoch.              *)
CountsAll ==
    phase = "compare" /\ Current = EpochOf(clock) =>
        \A i \in 1 .. Len(messages) : messages[i] <= Current => i <= answer

Served ==
    /\ SavesPast /\ ServedLast /\ CountsAll
    /\ phase \in Saving => Opened(Current, now)

-----------------------------------------------------------------------------
(* Arithmetic.                                                             *)

(* The last second of an epoch is in it, and in its window.                *)
LEMMA LastSecond ==
    ASSUME NEW e \in Nat, NEW t \in Nat, t < (e + 1) * Period, t + 1 >= (e + 1) * Period
    PROVE  EpochOf(t) = e /\ InWindow(t)
  <1>1. /\ EpochOf(t) \in Nat /\ Period \in Nat \ {0} /\ BeforeBuffer \in Nat \ {0}
        /\ Period * EpochOf(t) <= t /\ t < Period * EpochOf(t) + Period
    BY EpochBounds, WatcherAssumption
  <1>2. /\ (e + 1) * Period = Period * e + Period
        /\ Period * e \in Nat /\ Period * EpochOf(t) \in Nat
    BY <1>1, SMTT(30)
  <1>3. Period * e < Period * EpochOf(t) + Period /\ Period * EpochOf(t) < Period * e + Period
    BY <1>1, <1>2
  <1>4. e <= EpochOf(t)
    BY ONLY <1>1, <1>3, Multiples
  <1>5. EpochOf(t) <= e
    BY ONLY <1>1, <1>3, Multiples
  <1>6. EpochOf(t) = e
    BY <1>1, <1>4, <1>5
  <1>7. (e + 1) * Period - t <= BeforeBuffer
    BY <1>1, <1>2
  <1> QED
    BY <1>6, <1>7 DEF InWindow

(* A message sent after the window of e has opened need not be in e.       *)
LEMMA TooLate ==
    ASSUME NEW e \in Nat, NEW t \in Nat, Opened(e, t)
    PROVE  e < EpochOf(t + BeforeBuffer)
  <1>1. Period \in Nat \ {0} /\ t + BeforeBuffer \in Nat
    BY WatcherAssumption
  <1>2. /\ EpochOf(t + BeforeBuffer) \in Nat
        /\ t + BeforeBuffer < Period * EpochOf(t + BeforeBuffer) + Period
    BY <1>1, EpochBounds
  <1>3. /\ (e + 1) * Period = Period * (e + 1) /\ Period * (e + 1) \in Nat
        /\ Period * EpochOf(t + BeforeBuffer) \in Nat
    BY <1>1, <1>2, SMTT(30)
  <1>4. Period * (e + 1) < Period * EpochOf(t + BeforeBuffer) + Period
    BY <1>1, <1>2, <1>3 DEF Opened
  <1>5. e + 1 \in Nat
    OBVIOUS
  <1>6. e + 1 <= EpochOf(t + BeforeBuffer)
    BY ONLY <1>1, <1>2, <1>4, <1>5, Multiples
  <1> QED
    BY <1>2, <1>6

LEMMA WindowOpened ==
    ASSUME NEW t \in Nat, NEW s \in Nat, t <= s, InWindow(t)
    PROVE  Opened(EpochOf(t), s)
  <1>1. EpochOf(t) \in Nat /\ BeforeBuffer \in Nat
    BY EpochBounds, WatcherAssumption
  <1>2. (EpochOf(t) + 1) * Period \in Nat
    BY <1>1, WatcherAssumption, SMTT(30)
  <1> QED
    BY <1>1, <1>2 DEF InWindow, Opened

-----------------------------------------------------------------------------
(* What is saved stays saved.                                              *)

Times ==
    /\ clock \in Nat /\ now \in Nat /\ now <= clock
    /\ EpochOf(clock) \in Nat /\ Current \in Nat /\ Current <= EpochOf(clock)
    /\ Len(messages) \in Nat /\ Len(saves) \in Nat
    /\ BeforeBuffer \in Nat /\ lastBefore \in Int /\ answer \in Nat /\ lastSaved \in Nat

LEMMA TypedTimes == Typed => Times
  <1> SUFFICES ASSUME Typed PROVE Times
    OBVIOUS
  <1>1. clock \in Nat /\ now \in Nat /\ now <= clock
    BY DEF Typed, TypeOK, BridgeTypeOK, WatcherTypeOK, Turn
  <1>2. EpochOf(clock) \in Nat /\ EpochOf(now) \in Nat /\ EpochOf(now) <= EpochOf(clock)
    BY <1>1, EpochBounds, EpochsGrow
  <1>3. messages \in Seq(Nat) /\ saves \in Seq([count : Nat, at : Nat])
    BY DEF Typed, TypeOK, BridgeTypeOK
  <1>4. Len(messages) \in Nat /\ Len(saves) \in Nat
    BY <1>3
  <1>5. lastBefore \in Int /\ answer \in Nat /\ lastSaved \in Nat
    BY DEF Typed, TypeOK, WatcherTypeOK, IndexerTypeOK
  <1> QED
    BY <1>1, <1>2, <1>4, <1>5, WatcherAssumption DEF Times, Current

(* Messages are only added to, each for the epoch its window is open for.  *)
LEMMA MessagesGrow ==
    ASSUME Typed, [Next]_vars
    PROVE  \/ messages' = messages
           \/ /\ Len(messages') = Len(messages) + 1
              /\ \A i \in 1 .. Len(messages) : messages'[i] = messages[i]
              /\ messages'[Len(messages) + 1] = EpochOf(clock + BeforeBuffer)
              /\ clock' = clock
  <1>1. CASE SendMessage
    <2>1. messages \in Seq(Nat) /\ messages' = Append(messages, EpochOf(clock + BeforeBuffer))
      BY <1>1 DEF SendMessage, Typed, TypeOK, BridgeTypeOK
    <2> QED
      BY <1>1, <2>1 DEF SendMessage
  <1>2. CASE ~SendMessage
    BY <1>2, BridgeSteps
       DEF BridgeStill, bridge, Tick, SavesStep, RivalStep, Resolve, OwnStep, vars
  <1> QED
    BY <1>1, <1>2

LEMMA SavedStays ==
    ASSUME Typed, [Next]_vars, NEW e \in Nat, Opened(e, clock), AllSaved(e)
    PROVE  AllSaved(e)'
  <1>0. Times
    BY TypedTimes
  <1>1. /\ Len(saves) \in Nat /\ Len(saves') \in Nat /\ Len(saves) <= Len(saves')
        /\ \A j \in 1 .. Len(saves) : saves'[j] = saves[j]
    BY SavesGrow
  <1>2. ASSUME NEW i \in 1 .. Len(messages), messages[i] <= e
        PROVE  SavedBy(i, e)'
    <2>1. PICK j \in 1 .. Len(saves) : EpochOf(saves[j].at) <= e /\ saves[j].count >= i
      BY <1>2 DEF AllSaved, SavedBy
    <2>2. j \in 1 .. Len(saves') /\ saves'[j] = saves[j]
      BY <1>1, <2>1
    <2> QED
      BY <2>1, <2>2 DEF SavedBy, EpochOf
  <1>3. EpochOf(clock + BeforeBuffer) > e
    BY <1>0, TooLate DEF Times
  <1>4. SUFFICES ASSUME NEW i \in 1 .. Len(messages'), messages'[i] <= e
                 PROVE  i \in 1 .. Len(messages) /\ messages'[i] = messages[i]
    BY <1>2 DEF AllSaved
  <1>5. EpochOf(clock + BeforeBuffer) \in Nat
    <2>1. clock + BeforeBuffer \in Nat
      BY <1>0 DEF Times
    <2> QED
      BY <2>1, EpochBounds
  <1> QED
    BY <1>0, <1>3, <1>4, <1>5, MessagesGrow DEF Times

LEMMA SavesPastStep ==
    ASSUME Typed, SavesPast, [Next]_vars
    PROVE  SavesPast'
  <1>0. saves \in Seq([count : Nat, at : Nat]) /\ clock \in Nat /\ clock' \in Nat /\ clock <= clock'
    BY ClockSteps DEF Typed, TypeOK, BridgeTypeOK
  <1>1. \A j \in 1 .. Len(saves) : saves[j] \in [count : Nat, at : Nat]
    BY <1>0, ElementOf
  <1>2. CASE UNCHANGED saves
    BY <1>0, <1>1, <1>2 DEF SavesPast
  <1>3. CASE SavesStep
    <2>1. saves' = Append(saves, [count |-> Len(messages), at |-> clock])
      BY <1>3 DEF SavesStep, Save
    <2>2. /\ Len(saves') = Len(saves) + 1
          /\ \A j \in 1 .. Len(saves) : saves'[j] = saves[j]
          /\ saves'[Len(saves) + 1].at = clock
      BY <1>0, <2>1
    <2>3. clock' = clock
      BY <1>3 DEF SavesStep
    <2> QED
      BY <1>0, <2>2, <2>3 DEF SavesPast
  <1> QED
    BY <1>2, <1>3, BridgeSteps
       DEF BridgeStill, bridge, Tick, SendMessage, RivalStep, Resolve, OwnStep, vars

-----------------------------------------------------------------------------
(* How a turn of the loop saves.                                           *)

Rests ==
    /\ lastBefore' \in {lastBefore, None}
    /\ phase' \notin Saving \/ UNCHANGED <<phase, now, answer>>
Opens ==
    /\ phase' = "count" /\ now' = clock /\ InWindow(clock)
    /\ UNCHANGED <<clock, lastBefore>>
Counts ==
    /\ phase = "count" /\ phase' = "compare"
    /\ answer' = Len(messages) /\ UNCHANGED <<clock, messages, now, lastBefore>>
Compares == phase = "compare" /\ phase' = "save" /\ UNCHANGED <<now, lastBefore>>
Serves ==
    /\ lastBefore' = Current /\ phase' \notin Saving
    /\ \/ phase = "compare" /\ answer <= lastSaved /\ BridgeStill
       \/ phase = "save" /\ SavesStep

SavingMoves == Rests \/ Opens \/ Counts \/ Compares \/ Serves

LEMMA SleepRests ==
    Sleep /\ lastBefore' \in {lastBefore, None} => SavingMoves
  BY DEF Sleep, SavingMoves, Rests, Saving

LEMMA PanicRests ==
    ASSUME NEW why, Panic(why)
    PROVE  SavingMoves
  BY SleepRests DEF Panic

LEMMA StepRests ==
    ASSUME NEW from, NEW to \in ClaimPhases, Step(from, to)
    PROVE  SavingMoves
  BY DEF Step, ClaimPhases, SavingMoves, Rests, Saving

LEMMA SettleRests == Settle => SavingMoves
  BY SleepRests DEF Settle

LEMMA FailRests ==
    ASSUME NEW e, Fail(e)
    PROVE  SavingMoves
  BY SleepRests, PanicRests DEF Fail

LEMMA TurnLeavesSaving ==
    ASSUME NEW t, TurnToClaim(t)
    PROVE  phase' \notin Saving
  BY DEF TurnToClaim, Sleep, Saving

LEMMA WatcherSaves ==
    ASSUME Next
    PROVE  SavingMoves
  <1>1. CASE Tick \/ SendMessage \/ RivalSaves \/ RivalClaims \/ Resolve \/ Start
    BY <1>1 DEF Tick, SendMessage, RivalSaves, RivalClaims, Resolve, Start, locals,
                SavingMoves, Rests
  <1>2. CASE Indexer
    BY <1>2 DEF Indexer, ScanNothing, ScanChunk, HandleSnapshotSaved, FinishScan, Forget,
                locals, SavingMoves, Rests
  <1>3. CASE Kill \/ SaveFails \/ BatchNotPosted
    BY <1>3, PanicRests DEF Kill, SaveFails, BatchNotPosted
  <1>4. CASE ReadTimestamp
    BY <1>4, TurnLeavesSaving DEF ReadTimestamp, SavingMoves, Rests, Opens
  <1>5. CASE ReadCount
    BY <1>5 DEF ReadCount, bridge, SavingMoves, Counts
  <1>6. CASE Compare
    BY <1>6, TurnLeavesSaving
       DEF Compare, Saved, BridgeStill, bridge, SavingMoves, Compares, Serves
  <1>7. CASE SaveSnapshot
    BY <1>7, TurnLeavesSaving DEF SaveSnapshot, Saved, SavesStep, SavingMoves, Serves
  <1>8. CASE CheckFinality
    BY <1>8, SleepRests, StepRests DEF CheckFinality, ClaimPhases
  <1>9. CASE ReadSnapshot
    BY <1>9, SettleRests DEF ReadSnapshot, SavingMoves, Rests, Saving
  <1>10. CASE ReadHash \/ ReadStateRoot \/ LookForRoot
    BY <1>10, SettleRests, StepRests DEF ReadHash, ReadStateRoot, LookForRoot, ClaimPhases
  <1>11. CASE ClaimLands
    BY <1>11, SettleRests DEF ClaimLands
  <1>12. CASE ClaimFails
    BY <1>12 DEF ClaimFails, SavingMoves, Rests, Saving
  <1>13. CASE Recheck \/ ClaimRequestFails
    BY <1>13, SettleRests, FailRests DEF Recheck, ClaimRequestFails
  <1> QED
    BY <1>1, <1>2, <1>3, <1>4, <1>5, <1>6, <1>7, <1>8, <1>9, <1>10, <1>11, <1>12, <1>13
       DEF Next, Watcher

-----------------------------------------------------------------------------
(* The epoch that was served last is saved.                                *)

LEMMA OpenedStays ==
    ASSUME NEW e \in Nat, NEW s \in Nat, NEW t \in Nat, s <= t, Opened(e, s)
    PROVE  Opened(e, t)
  <1>1. (e + 1) * Period \in Nat /\ BeforeBuffer \in Nat
    BY WatcherAssumption, SMTT(30)
  <1> QED
    BY <1>1 DEF Opened

LEMMA WindowKept ==
    ASSUME Typed, Served, Next, phase' \in Saving
    PROVE  Opened(Current', now')
  <1>0. Times
    BY TypedTimes
  <1>1. CASE UNCHANGED <<phase, now>>
    BY <1>1 DEF Served, Current, Opened, EpochOf
  <1>2. CASE Opens
    <2>1. Opened(EpochOf(clock), clock)
      BY <1>0, <1>2, WindowOpened DEF Opens, Times
    <2> QED
      BY <1>2, <2>1 DEF Opens, Current, Opened, EpochOf
  <1>3. CASE Counts \/ Compares
    BY <1>3 DEF Served, Counts, Compares, Saving, Current, Opened, EpochOf
  <1> QED
    BY <1>1, <1>2, <1>3, WatcherSaves DEF SavingMoves, Rests, Serves

LEMMA CountsAllStep ==
    ASSUME Typed, Served, Next
    PROVE  CountsAll'
  <1>0. Times /\ EpochOf(clock) <= EpochOf(clock') /\ EpochOf(clock') \in Nat
    BY TypedTimes, ClockSteps, EpochBounds
  <1> SUFFICES ASSUME phase' = "compare", Current' = EpochOf(clock)',
                      NEW i \in 1 .. Len(messages'), messages'[i] <= Current'
               PROVE  i <= answer'
    BY DEF CountsAll
  <1>1. CASE UNCHANGED <<phase, now, answer>>
    <2>1. Current' = Current /\ Current = EpochOf(clock)
      BY <1>0, <1>1 DEF Times, Current, EpochOf
    <2>2. Opened(Current, clock)
      BY <1>0, <1>1, OpenedStays DEF Served, Saving, Times
    <2>3. EpochOf(clock + BeforeBuffer) > Current /\ EpochOf(clock + BeforeBuffer) \in Nat
      <3>1. clock + BeforeBuffer \in Nat
        BY <1>0 DEF Times
      <3> QED
        BY <1>0, <2>2, <3>1, TooLate, EpochBounds DEF Times
    <2>4. i \in 1 .. Len(messages) /\ messages[i] <= Current
      BY <1>0, <2>1, <2>3, MessagesGrow DEF Times
    <2> QED
      BY <1>1, <2>1, <2>4 DEF Served, CountsAll
  <1>2. CASE Counts
    BY <1>0, <1>2 DEF Counts, Times
  <1> QED
    BY <1>1, <1>2, WatcherSaves DEF SavingMoves, Rests, Opens, Compares, Serves, Saving

(* A turn that has served the current epoch has every message of it saved. *)
LEMMA ServesAll ==
    ASSUME Typed, SkipsOnlySaved, Served, Serves, NEW e \in Nat,
           e = Current, e = EpochOf(clock)
    PROVE  AllSaved(e)'
  <1>0. Times
    BY TypedTimes
  <1>1. CASE phase = "compare" /\ answer <= lastSaved /\ BridgeStill
    <2>0. messages' = messages /\ saves' = saves
      BY <1>1 DEF BridgeStill, bridge
    <2>1. SUFFICES ASSUME NEW i \in 1 .. Len(messages), messages[i] <= e
                   PROVE  \E j \in 1 .. Len(saves) :
                              EpochOf(saves[j].at) <= e /\ saves[j].count >= i
      BY <2>0 DEF AllSaved, SavedBy, EpochOf
    <2>2. i <= answer
      BY <1>1, <2>1 DEF Served, CountsAll
    <2>3. PICK j \in 1 .. Len(saves) : saves[j].count = lastSaved
      BY <1>0, <1>1, <2>2 DEF SkipsOnlySaved, Times
    <2>4. saves[j].at \in Nat /\ saves[j].at <= clock
      <3>1. saves \in Seq([count : Nat, at : Nat])
        BY DEF Typed, TypeOK, BridgeTypeOK
      <3>2. saves[j] \in [count : Nat, at : Nat]
        BY ONLY <3>1, ElementOf
      <3> QED
        BY <3>2 DEF Served, SavesPast
    <2>5. EpochOf(saves[j].at) <= e
      BY <1>0, <2>4, EpochsGrow DEF Times
    <2> QED
      BY <1>0, <1>1, <2>2, <2>3, <2>5 DEF Times
  <1>2. CASE SavesStep
    <2>1. /\ saves \in Seq([count : Nat, at : Nat])
          /\ saves' = Append(saves, [count |-> Len(messages), at |-> clock])
          /\ messages' = messages
      BY <1>2 DEF SavesStep, Save, Typed, TypeOK, BridgeTypeOK
    <2>2. /\ Len(saves') = Len(saves) + 1
          /\ saves'[Len(saves) + 1] = [count |-> Len(messages), at |-> clock]
      BY <2>1
    <2>3. /\ Len(saves) + 1 \in 1 .. Len(saves')
          /\ saves'[Len(saves) + 1].count = Len(messages)
          /\ EpochOf(saves'[Len(saves) + 1].at) = e
      BY <1>0, <2>2 DEF Times
    <2>4. SUFFICES ASSUME NEW i \in 1 .. Len(messages)
                   PROVE  \E j \in 1 .. Len(saves') :
                              EpochOf(saves'[j].at) <= e /\ saves'[j].count >= i
      BY <2>1 DEF AllSaved, SavedBy, EpochOf
    <2> QED
      BY <1>0, <2>3 DEF Times
  <1> QED
    BY <1>1, <1>2 DEF Serves

LEMMA ServedLastStep ==
    ASSUME Typed, SkipsOnlySaved, Served, Next
    PROVE  ServedLast'
  <1>0. /\ Times /\ EpochOf(clock) <= EpochOf(clock') /\ EpochOf(clock') \in Nat
        /\ clock' \in Nat /\ clock <= clock' /\ lastBefore' \in Int
    <2>1. lastBefore' \in Int
      BY TypedStep DEF Typed, TypeOK, WatcherTypeOK
    <2> QED
      BY <2>1, TypedTimes, ClockSteps, EpochBounds
  <1>1. CASE lastBefore' = None
    BY <1>0, <1>1 DEF ServedLast, None, EpochOf
  <1> SUFFICES ASSUME lastBefore' # None
               PROVE  /\ lastBefore' <= EpochOf(clock')
                      /\ \A e \in Nat : e = lastBefore' /\ e = EpochOf(clock') =>
                             Opened(e, clock') /\ AllSaved(e)'
    <2>1. lastBefore' = EpochOf(clock') => lastBefore' \in Nat
      BY <1>0
    <2> QED
      BY <1>1, <2>1 DEF ServedLast, Opened, AllSaved, SavedBy, EpochOf
  <1>2. CASE lastBefore' = lastBefore
    <2>1. lastBefore <= EpochOf(clock)
      BY DEF Served, ServedLast
    <2>2. ASSUME NEW e \in Nat, e = lastBefore, e = EpochOf(clock')
          PROVE  Opened(e, clock') /\ AllSaved(e)'
      <3>1. e = EpochOf(clock)
        BY <1>0, <2>1, <2>2 DEF Times
      <3>2. Opened(e, clock) /\ AllSaved(e)
        BY <2>2, <3>1 DEF Served, ServedLast
      <3> QED
        BY <1>0, <3>2, SavedStays, OpenedStays DEF Times
    <2> QED
      BY <1>0, <1>2, <2>1, <2>2 DEF Times
  <1>3. CASE Serves
    <2>1. clock' = clock /\ lastBefore' = Current
      BY <1>3 DEF Serves, BridgeStill, SavesStep
    <2>2. ASSUME NEW e \in Nat, e = Current, e = EpochOf(clock)
          PROVE  Opened(e, clock) /\ AllSaved(e)'
      BY <1>0, <1>3, <2>2, ServesAll, OpenedStays DEF Served, Serves, Saving, Times
    <2> QED
      BY <1>0, <2>1, <2>2 DEF Times, EpochOf
  <1> QED
    BY <1>2, <1>3, WatcherSaves DEF SavingMoves, Rests, Opens, Counts, Compares

LEMMA ServedStep == Typed /\ SkipsOnlySaved /\ Served /\ [Next]_vars => Served'
  <1>1. ASSUME Typed, SkipsOnlySaved, Served, Next
        PROVE  Served'
    BY <1>1, SavesPastStep, ServedLastStep, CountsAllStep, WindowKept
       DEF Served, Opened, Current, EpochOf
  <1>2. CASE UNCHANGED vars
    BY <1>2 DEF Served, SavesPast, ServedLast, CountsAll, Opened, AllSaved, SavedBy, Current,
                EpochOf, vars, bridge, locals
  <1> QED
    BY <1>1, <1>2

-----------------------------------------------------------------------------
(* An epoch that is over and went smoothly was served.                     *)

LEMMA HinderedOrNot ==
    ASSUME Next
    PROVE  hindered' = hindered \/ Hinder
  <1>1. CASE Tick \/ SendMessage \/ RivalSaves \/ RivalClaims \/ Resolve \/ Start
    BY <1>1 DEF Tick, SendMessage, RivalSaves, RivalClaims, Resolve, Start
  <1>2. CASE Indexer
    BY <1>2 DEF Indexer, ScanNothing, ScanChunk, HandleSnapshotSaved, FinishScan, Forget
  <1>3. CASE Kill \/ SaveFails \/ BatchNotPosted
    BY <1>3 DEF Kill, SaveFails, BatchNotPosted, Panic
  <1>4. CASE ReadTimestamp \/ ReadCount \/ Compare \/ SaveSnapshot
    BY <1>4 DEF ReadTimestamp, ReadCount, Compare, SaveSnapshot
  <1>5. CASE CheckFinality \/ ReadSnapshot \/ ReadHash \/ ReadStateRoot \/ LookForRoot
    BY <1>5 DEF CheckFinality, ReadSnapshot, ReadHash, ReadStateRoot, LookForRoot, Settle, Step
  <1>6. CASE ClaimLands \/ ClaimFails
    BY <1>6 DEF ClaimLands, ClaimFails, Settle
  <1>7. CASE Recheck \/ ClaimRequestFails
    BY <1>7 DEF Recheck, ClaimRequestFails, Settle, Fail, Panic
  <1> QED
    BY <1>1, <1>2, <1>3, <1>4, <1>5, <1>6, <1>7 DEF Next, Watcher

(* A smooth epoch has been smooth so far, and is left by a watcher at rest. *)
LEMMA SmoothSoFar ==
    ASSUME Typed, [Next]_vars, NEW e \in Nat, Smooth(e)'
    PROVE  Smooth(e) /\ (Tick /\ EpochOf(clock) = e => AtRest)
  <1>0. hindered \in Seq(Nat) /\ Len(hindered) \in Nat
    BY DEF Typed, TypeOK, WatcherTypeOK
  <1>1. CASE hindered' = hindered /\ ~Hinder
    BY <1>1 DEF Smooth, Tick
  <1>2. CASE Hinder
    <2>1. hindered' = Append(hindered, EpochOf(clock))
      BY <1>2 DEF Hinder
    <2>2. /\ Len(hindered') = Len(hindered) + 1
          /\ \A i \in 1 .. Len(hindered) : hindered'[i] = hindered[i]
          /\ hindered'[Len(hindered) + 1] = EpochOf(clock)
      BY <1>0, <2>1
    <2> QED
      BY <1>0, <2>2 DEF Smooth
  <1>3. hindered' = hindered \/ Hinder
    BY HinderedOrNot DEF vars
  <1> QED
    BY <1>1, <1>2, <1>3

LEMMA EachSavedStep ==
    Typed /\ Served /\ EachEpochSaved /\ [Next]_vars => EachEpochSaved'
  <1> SUFFICES ASSUME Typed, Served, EachEpochSaved, [Next]_vars,
                      NEW e \in Epochs, Over(e)', Smooth(e)'
               PROVE  AllSaved(e)'
    BY DEF EachEpochSaved, AllSaved, Epochs, EpochOf
  <1>0. Times /\ e \in Nat /\ (e + 1) * Period \in Nat /\ Period \in Nat
    <2>1. e \in Nat /\ Period \in Nat
      BY EpochBounds, WatcherAssumption DEF Epochs
    <2> QED
      BY <2>1, TypedTimes, SMTT(30)
  <1>1. Smooth(e) /\ (Tick /\ EpochOf(clock) = e => AtRest)
    BY <1>0, SmoothSoFar
  <1>2. CASE Over(e)
    <2>1. Opened(e, clock)
      BY <1>0, <1>2 DEF Over, Opened, Times
    <2>2. AllSaved(e)
      BY <1>1, <1>2 DEF EachEpochSaved, AllSaved
    <2> QED
      BY <1>0, <2>1, <2>2, SavedStays
  <1>3. CASE ~Over(e)
    <2>1. clock < (e + 1) * Period /\ clock' >= (e + 1) * Period
      BY <1>0, <1>3 DEF Over, Times
    <2>2. Tick
      <3>1. clock' # clock
        BY <1>0, <2>1 DEF Times
      <3>2. Next
        BY <3>1 DEF vars
      <3> QED
        BY ONLY <3>1, <3>2, BridgeSteps
           DEF BridgeStill, SendMessage, SavesStep, RivalStep, Resolve, OwnStep
    <2>3. clock + 1 >= (e + 1) * Period
      BY <2>1, <2>2 DEF Tick
    <2>4. EpochOf(clock) = e /\ InWindow(clock)
      BY <1>0, <2>1, <2>3, LastSecond DEF Times
    <2>5. lastBefore = e
      BY <1>1, <2>2, <2>4 DEF AtRest
    <2>6. Opened(e, clock) /\ AllSaved(e)
      BY <2>4, <2>5 DEF Served, ServedLast
    <2> QED
      BY <1>0, <2>6, SavedStays
  <1> QED
    BY <1>2, <1>3

LEMMA InitServed == Init => Served /\ EachEpochSaved
  <1> SUFFICES ASSUME Init PROVE Served /\ EachEpochSaved
    OBVIOUS
  <1>1. EpochOf(0) = 0
    BY FirstEpoch
  <1>2. Served
    BY <1>1 DEF Init, Served, SavesPast, ServedLast, CountsAll, Saving, None
  <1>3. EachEpochSaved
    BY DEF Init, EachEpochSaved
  <1> QED
    BY <1>2, <1>3

(* What was sent before the window of an epoch opened is in a snapshot     *)
(* when the epoch ends, unless something went wrong in it (watch_epochs,   *)
(* save_snapshot).                                                         *)
THEOREM EpochsAreSaved == Spec => []EachEpochSaved
  <1>1. Spec => [](Typed /\ SkipsOnlySaved)
    BY TypedHolds, SkipsAreSafe, PTL
  <1> QED
    BY <1>1, InitServed, ServedStep, EachSavedStep, PTL DEF Spec

-----------------------------------------------------------------------------
(* Each epoch is claimed, for every buffer that ends within the epoch.     *)
(* However claim::execute comes to its Ok, the epoch has no snapshot, or a *)
(* claim, or its root has one; none of these is ever lost.                 *)

Provided(e) ==
    snapshots[e] > 0 => Claimed(e) \/ \E f \in Epochs : claims[f].root = snapshots[e]

SettledProvided ==
    lastAfter # None =>
        lastAfter \in Epochs /\ lastAfter < EpochOf(clock) /\ Provided(lastAfter)

(* The outbox has a state root only of a claim.                            *)
VerifiedWasClaimed ==
    stateRoot > 0 => \E f \in Epochs : claims[f].root = stateRoot

-----------------------------------------------------------------------------
(* Claims, and their roots, remain.                                        *)

LEMMA RootsRemain ==
    ASSUME Typed, [Next]_vars, NEW f \in Epochs, claims[f].root > 0
    PROVE  claims'[f].root = claims[f].root
  <1>1. claims \in [Epochs -> [root : Nat, at : Nat, mine : BOOLEAN, open : BOOLEAN]]
    BY DEF Typed, TypeOK, BridgeTypeOK
  <1>2. Claimed(f)
    BY DEF Claimed, NoClaim
  <1>3. ASSUME NEW g \in Int, NEW r, NEW mine, Claimable(g), MakeClaim(g, r, mine)
        PROVE  claims'[f] = claims[f]
    BY <1>1, <1>2, <1>3 DEF MakeClaim, Claimable
  <1>4. CASE OwnStep
    <2>1. Claiming \in Int
      BY EpochsOccur DEF Claiming, Epochs
    <2> QED
      BY <1>3, <1>4, <2>1 DEF OwnStep
  <1>5. CASE RivalStep
    <2>1. PICK g \in Epochs, r \in 1 .. MaxCount : Claimable(g) /\ MakeClaim(g, r, FALSE)
      BY <1>5 DEF RivalStep
    <2>2. g \in Int
      BY DEF Epochs
    <2> QED
      BY <1>3, <2>1, <2>2
  <1>6. CASE Resolve
    BY <1>1, <1>6 DEF Resolve
  <1>7. CASE UNCHANGED claims
    BY <1>7
  <1> QED
    BY <1>4, <1>5, <1>6, <1>7, BridgeSteps
       DEF BridgeStill, bridge, Tick, SendMessage, SavesStep, vars

LEMMA ProvidedStays ==
    ASSUME Typed, ClaimTimes, [Next]_vars, NEW e \in Epochs, e < EpochOf(clock), Provided(e)
    PROVE  Provided(e)'
  <1>1. snapshots'[e] = snapshots[e] /\ snapshots[e] \in Nat
    BY SnapshotsStay DEF Typed, TypeOK, BridgeTypeOK
  <1>2. CASE snapshots[e] = 0
    BY <1>1, <1>2 DEF Provided
  <1>3. CASE Claimed(e)
    BY <1>3, ClaimsRemain DEF Provided, Claimed
  <1>4. ASSUME NEW f \in Epochs, claims[f].root = snapshots[e], snapshots[e] > 0
        PROVE  Provided(e)'
    <2>1. claims'[f].root = snapshots'[e]
      BY <1>1, <1>4, RootsRemain
    <2> QED
      BY <2>1 DEF Provided, Epochs, EpochOf
  <1> QED
    BY <1>1, <1>2, <1>3, <1>4 DEF Provided

LEMMA VerifiedStep ==
    ASSUME Typed, VerifiedWasClaimed, [Next]_vars
    PROVE  VerifiedWasClaimed'
  <1> SUFFICES ASSUME stateRoot' > 0
               PROVE  \E f \in Epochs : claims'[f].root = stateRoot'
    BY DEF VerifiedWasClaimed, Epochs, EpochOf
  <1>1. CASE stateRoot' = stateRoot
    BY <1>1, RootsRemain DEF VerifiedWasClaimed
  <1>2. CASE Resolve
    <2>1. PICK f \in Epochs : stateRoot' = IF claims[f].root = snapshots[f]
                                           THEN claims[f].root ELSE stateRoot
      BY <1>2 DEF Resolve
    <2>2. CASE stateRoot' = claims[f].root
      BY <2>2, RootsRemain
    <2> QED
      BY <1>1, <2>1, <2>2
  <1> QED
    BY <1>1, <1>2, BridgeSteps
       DEF BridgeStill, bridge, Tick, SendMessage, SavesStep, RivalStep, OwnStep, vars

-----------------------------------------------------------------------------
(* How a turn comes to its end.                                            *)

Forgets == lastAfter' \in {lastAfter, None}

Settles ==
    /\ lastAfter' = Claiming /\ phase \in ClaimPhases
    /\ clock' = clock /\ \A e \in Epochs : e = Claiming => Provided(e)'

LEMMA SettleKeeps ==
    Settle => lastAfter' = Claiming /\ UNCHANGED <<clock, snapshots, stateRoot>>
  BY DEF Settle, ClaimFrame

LEMMA FailForgets ==
    ASSUME NEW e, Fail(e)
    PROVE  Forgets
  BY DEF Fail, Panic, Forgets

LEMMA StepForgets ==
    ASSUME NEW from, NEW to, Step(from, to)
    PROVE  Forgets
  BY DEF Step, Forgets

LEMMA ClaimingOver ==
    ASSUME Typed, phase \in ClaimPhases
    PROVE  Claiming \in Epochs /\ Claiming < EpochOf(clock)
  <1>1. /\ EpochOf(clock) \in Epochs /\ Current \in Epochs /\ Current <= EpochOf(clock)
        /\ Current > 0 => Claiming \in Epochs
    BY EpochsOccur
  <1>2. Current > 0
    BY DEF Typed, Turn, Current
  <1> QED
    BY <1>1, <1>2 DEF Claiming, Epochs

(* The epoch claimed has an open claim.                                    *)
LEMMA OpenSettles ==
    ASSUME Typed, phase \in ClaimPhases, claims[Claiming].open, Settle, UNCHANGED claims
    PROVE  Settles
  BY SettleKeeps DEF Settles, Provided, Claimed, NoClaim

(* The root held has a claim.                                              *)
LEMMA RootSettles ==
    ASSUME Typed, Held, phase \in Holding, Settle, UNCHANGED claims,
           answer > 0 => \E f \in Epochs : claims[f].root = answer
    PROVE  Settles
  <1>1. answer = snapshots[Claiming] /\ phase \in ClaimPhases
    BY DEF Held, Holding, ClaimPhases
  <1>2. lastAfter' = Claiming /\ UNCHANGED <<clock, snapshots, claims>>
    BY SettleKeeps
  <1>3. ASSUME NEW e \in Epochs, e = Claiming
        PROVE  Provided(e)'
    BY <1>1, <1>2, <1>3 DEF Provided, Epochs, EpochOf
  <1> QED
    BY <1>1, <1>2, <1>3 DEF Settles

LEMMA LandSettles ==
    ASSUME Typed, ClaimLands
    PROVE  Settles
  <1>1. /\ phase = "claim" /\ MakeClaim(Claiming, answer, TRUE) /\ Settle
    BY DEF ClaimLands
  <1>2. Claiming \in Epochs
    BY <1>1, ClaimingOver DEF ClaimPhases
  <1>3. claims \in [Epochs -> [root : Nat, at : Nat, mine : BOOLEAN, open : BOOLEAN]]
    BY DEF Typed, TypeOK, BridgeTypeOK
  <1>4. claims'[Claiming].open
    BY <1>1, <1>2, <1>3 DEF MakeClaim
  <1> QED
    BY <1>1, <1>4, SettleKeeps DEF Settles, Provided, Claimed, NoClaim, ClaimPhases

LEMMA WatcherSettles ==
    ASSUME Typed, Held, VerifiedWasClaimed, Next
    PROVE  Forgets \/ Settles
  <1>0. phase \in Holding \cup {"snapshot", "recheck"} => phase \in ClaimPhases
    BY DEF Holding, ClaimPhases
  <1>1. CASE Tick \/ SendMessage \/ RivalSaves \/ RivalClaims \/ Resolve \/ Start
    BY <1>1 DEF Tick, SendMessage, RivalSaves, RivalClaims, Resolve, Start, locals, Forgets
  <1>2. CASE Indexer
    BY <1>2 DEF Indexer, ScanNothing, ScanChunk, HandleSnapshotSaved, FinishScan, Forget,
                locals, Forgets
  <1>3. CASE Kill \/ SaveFails \/ BatchNotPosted
    BY <1>3 DEF Kill, SaveFails, BatchNotPosted, Panic, Forgets
  <1>4. CASE ReadTimestamp \/ ReadCount \/ Compare \/ SaveSnapshot
    BY <1>4 DEF ReadTimestamp, ReadCount, Compare, SaveSnapshot, Forgets
  <1>5. CASE CheckFinality
    BY <1>5, StepForgets DEF CheckFinality, Forgets
  <1>6. CASE ReadSnapshot
    <2>1. CASE snapshots[Claiming] = 0 /\ Settle
      BY <1>0, <1>6, <2>1, SettleKeeps DEF ReadSnapshot, Settles, Provided
    <2> QED
      BY <1>6, <2>1 DEF ReadSnapshot, Forgets
  <1>7. CASE ReadHash
    BY <1>0, <1>7, OpenSettles, StepForgets DEF ReadHash, Holding
  <1>8. CASE ReadStateRoot
    <2>1. CASE phase = "verified" /\ stateRoot = answer /\ Settle /\ UNCHANGED claims
      BY <2>1, RootSettles DEF VerifiedWasClaimed, Holding
    <2> QED
      BY <1>8, <2>1, StepForgets DEF ReadStateRoot
  <1>9. CASE LookForRoot
    <2>1. CASE phase = "pending" /\ HasRecentRoot /\ Settle /\ UNCHANGED claims
      <3>1. \E f \in Epochs : claims[f].root = answer
        BY <2>1 DEF HasRecentRoot, Typed, TypeOK, IndexerTypeOK
      <3> QED
        BY <2>1, <3>1, RootSettles DEF Holding
    <2> QED
      BY <1>9, <2>1, StepForgets DEF LookForRoot
  <1>10. CASE ClaimLands
    BY <1>10, LandSettles
  <1>11. CASE ClaimFails
    BY <1>11 DEF ClaimFails, Forgets
  <1>12. CASE Recheck
    BY <1>0, <1>12, OpenSettles, FailForgets DEF Recheck
  <1>13. CASE ClaimRequestFails
    BY <1>13, FailForgets DEF ClaimRequestFails
  <1> QED
    BY <1>1, <1>2, <1>3, <1>4, <1>5, <1>6, <1>7, <1>8, <1>9, <1>10, <1>11, <1>12, <1>13
       DEF Next, Watcher

LEMMA SettledStep ==
    ASSUME Typed, Held, ClaimTimes, VerifiedWasClaimed, SettledProvided, [Next]_vars
    PROVE  SettledProvided'
  <1> SUFFICES ASSUME lastAfter' # None
               PROVE  /\ lastAfter' \in Epochs /\ lastAfter' < EpochOf(clock')
                      /\ \A e \in Epochs : e = lastAfter' => Provided(e)'
    BY DEF SettledProvided, Provided, Claimed, Epochs, EpochOf
  <1>0. /\ EpochOf(clock) \in Epochs /\ EpochOf(clock) <= EpochOf(clock')
        /\ EpochOf(clock') \in Nat
    BY EpochsOccur, ClockSteps, EpochBounds
  <1>1. CASE lastAfter' = lastAfter
    BY <1>0, <1>1, ProvidedStays DEF SettledProvided, Epochs
  <1>2. CASE Settles
    <2>1. Claiming \in Epochs /\ Claiming < EpochOf(clock) /\ Claiming = lastAfter'
      BY <1>2, ClaimingOver DEF Settles
    <2>2. clock' = clock /\ phase \in ClaimPhases
      BY <1>2 DEF Settles
    <2> QED
      BY <1>2, <2>1, <2>2 DEF Settles, Provided, Claimed, EpochOf
  <1> QED
    BY <1>1, <1>2, WatcherSettles DEF Forgets, vars, locals

-----------------------------------------------------------------------------
(* A smooth epoch is not left before the epoch before it is provided for.  *)

LEMMA LastSecondClaims ==
    ASSUME NEW e \in Nat, NEW t \in Nat, t < (e + 1) * Period, t + 1 >= (e + 1) * Period, e > 0
    PROVE  EpochOf(t) = e /\ ClaimTime(t)
  <1>1. EpochOf(t) = e
    BY LastSecond
  <1>2. (e + 1) * Period = e * Period + Period /\ e * Period \in Nat
    BY WatcherAssumption, SMTT(30)
  <1>3. t - e * Period >= AfterBuffer
    BY <1>2, WatcherAssumption
  <1> QED
    BY <1>1, <1>3 DEF ClaimTime

LEMMA OverLater ==
    ASSUME NEW e \in Nat, NEW t \in Nat, t >= (e + 1) * Period
    PROVE  e < EpochOf(t)
  <1>1. /\ EpochOf(t) \in Nat /\ Period \in Nat \ {0} /\ t < Period * EpochOf(t) + Period
    BY EpochBounds, WatcherAssumption
  <1>2. /\ (e + 1) * Period = Period * (e + 1) /\ Period * (e + 1) \in Nat
        /\ Period * EpochOf(t) \in Nat
    BY <1>1, SMTT(30)
  <1>3. Period * (e + 1) < Period * EpochOf(t) + Period /\ e + 1 \in Nat
    BY <1>1, <1>2
  <1>4. e + 1 <= EpochOf(t)
    BY ONLY <1>1, <1>3, Multiples
  <1> QED
    BY <1>1, <1>4

LEMMA EachClaimedStep ==
    Typed /\ ClaimTimes /\ SettledProvided /\ EachEpochClaimed /\ [Next]_vars
        => EachEpochClaimed'
  <1> SUFFICES ASSUME Typed, ClaimTimes, SettledProvided, EachEpochClaimed, [Next]_vars,
                      NEW e \in Epochs, MakeClaims, Over(e + 1)', Smooth(e + 1)'
               PROVE  Provided(e)'
    BY DEF EachEpochClaimed, Provided, Claimed, Epochs, EpochOf
  <1>0. Times /\ e \in Nat /\ e + 1 \in Nat /\ ((e + 1) + 1) * Period \in Nat
    <2>1. e \in Nat /\ Period \in Nat
      BY EpochBounds, WatcherAssumption DEF Epochs
    <2> QED
      BY <2>1, TypedTimes, SMTT(30)
  <1>1. Smooth(e + 1) /\ (Tick /\ EpochOf(clock) = e + 1 => AtRest)
    BY <1>0, SmoothSoFar
  <1>2. CASE Over(e + 1)
    <2>1. e < EpochOf(clock)
      BY <1>0, <1>2, OverLater DEF Over, Times
    <2>2. Provided(e)
      BY <1>1, <1>2 DEF EachEpochClaimed, Provided
    <2> QED
      BY <2>1, <2>2, ProvidedStays
  <1>3. CASE ~Over(e + 1)
    <2>1. clock < ((e + 1) + 1) * Period /\ clock' >= ((e + 1) + 1) * Period
      BY <1>0, <1>3 DEF Over, Times
    <2>2. Tick
      <3>1. clock' # clock
        BY <1>0, <2>1 DEF Times
      <3>2. Next
        BY <3>1 DEF vars
      <3> QED
        BY ONLY <3>1, <3>2, BridgeSteps
           DEF BridgeStill, SendMessage, SavesStep, RivalStep, Resolve, OwnStep
    <2>3. clock + 1 >= ((e + 1) + 1) * Period
      BY <2>1, <2>2 DEF Tick
    <2>4. EpochOf(clock) = e + 1 /\ ClaimTime(clock)
      BY <1>0, <2>1, <2>3, LastSecondClaims DEF Times
    <2>5. lastAfter = e
      BY <1>0, <1>1, <2>2, <2>4 DEF AtRest
    <2>6. Provided(e)
      BY <1>0, <2>5 DEF SettledProvided, None
    <2>7. e < EpochOf(clock)
      BY <1>0, <2>4
    <2> QED
      BY <2>6, <2>7, ProvidedStays
  <1> QED
    BY <1>2, <1>3

LEMMA InitClaiming ==
    Init => ClaimTimes /\ VerifiedWasClaimed /\ SettledProvided /\ EachEpochClaimed
  BY DEF Init, ClaimTimes, Claimed, VerifiedWasClaimed, SettledProvided, EachEpochClaimed

(* The snapshot of an epoch is claimed in the next one, or its root was    *)
(* claimed before, unless something went wrong (watch_epochs, claim).      *)
THEOREM EpochsAreClaimed == Spec => []EachEpochClaimed
  <1>1. Spec => [](Typed /\ Held)
    BY TypedHolds, ClaimsHold, PTL
  <1>2. Typed /\ Held /\ ClaimTimes /\ VerifiedWasClaimed /\ SettledProvided /\ [Next]_vars
            => ClaimTimes' /\ VerifiedWasClaimed' /\ SettledProvided'
    BY ClaimTimesStep, VerifiedStep, SettledStep
  <1> QED
    BY <1>1, <1>2, InitClaiming, EachClaimedStep, PTL DEF Spec

-----------------------------------------------------------------------------
(* No deposit goes into a root that an open claim has.                     *)

(* The cursor has passed no block that can still get a claim.              *)
Past(t) == t < clock \/ t <= 0

CursorPast ==
    /\ Past(inboxBlock)
    /\ scan.to = None => scan.left = {}
    /\ scan.to # None => Past(scan.to) /\ inboxBlock <= scan.to

(* An open claim that is not in the file is ahead of the cursor, or older  *)
(* than the lookback.                                                      *)
UnknownAhead ==
    \A f \in Epochs :
        claims[f].open /\ f \notin known =>
            inboxBlock < claims[f].at \/ claims[f].at <= Truncated(clock, Lookback)

(* A smooth second ends with the cursor at the end of what is final.       *)
Fresh ==
    \A last \in Nat :
        clock = last + 1 /\ Smooth(EpochOf(last)) => Truncated(last, Finality) <= inboxBlock

(* A claim is made no sooner than the buffer after its epoch.              *)
InTime == phase \in ClaimPhases => ClaimTime(now)

(* What the file told before a claim is sent still holds when it lands.    *)
Looked ==
    phase = "claim" /\ Current = EpochOf(clock) /\ Smooth(Claiming) /\ Smooth(Current) =>
        \A f \in Epochs \ {Claiming} :
            claims[f].open /\ claims[f].root = answer =>
                claims[f].at < Truncated(clock, Recent)

TimelyBuffers == Finality \in 1 .. AfterBuffer /\ Recent < Lookback

LEMMA WatcherNumbers ==
    ASSUME Typed
    PROVE  /\ clock \in Nat /\ now \in Nat /\ now <= clock /\ answer \in Nat
           /\ inboxBlock \in Nat \cup {-1} /\ scan.to \in Nat \cup {-1}
           /\ claims \in [Epochs -> [root : Nat, at : Nat, mine : BOOLEAN, open : BOOLEAN]]
           /\ hindered \in Seq(Nat)
  BY DEF Typed, TypeOK, BridgeTypeOK, IndexerTypeOK, WatcherTypeOK, Turn, None

LEMMA CursorPastStep ==
    ASSUME TimelyBuffers, Typed, CursorPast, [Next]_vars
    PROVE  CursorPast' /\ inboxBlock <= inboxBlock'
  <1>0. /\ clock \in Nat /\ clock' \in Nat /\ clock <= clock'
        /\ inboxBlock \in Int /\ inboxBlock >= -1 /\ scan.to \in Nat \cup {-1}
        /\ Finality \in Nat \ {0} /\ Lookback \in Nat \ {0}
    BY WatcherNumbers, ClockSteps, WatcherAssumption DEF TimelyBuffers
  <1>1. CASE UNCHANGED indexer
    BY <1>0, <1>1 DEF CursorPast, Past, indexer, files, None
  <1>2. CASE Start
    <2>1. UNCHANGED clock /\ scan' = Nothing
      BY <1>2 DEF Start
    <2>2. \/ inboxBlock' = inboxBlock
          \/ inboxBlock' = Truncated(clock, Lookback) /\ inboxBlock <= inboxBlock'
      BY <1>0, <1>2 DEF Start, Truncated, None
    <2>3. inboxBlock <= inboxBlock' /\ Past(inboxBlock)'
      BY <1>0, <2>1, <2>2 DEF CursorPast, Past, Truncated, None
    <2> QED
      BY <2>1, <2>3 DEF CursorPast, Nothing
  <1>3. CASE ScanNothing \/ Forget
    BY <1>0, <1>3 DEF ScanNothing, Forget, CursorPast, Past, None
  <1>4. CASE ScanChunk
    <2>1. UNCHANGED <<clock, inboxBlock>> /\ scan'.to = Final /\ inboxBlock < Final
      BY <1>4 DEF ScanChunk, files
    <2>2. Final \in Nat /\ (Final < clock \/ Final <= 0)
      BY <1>0 DEF Final, Truncated
    <2>3. scan'.to # None
      BY <2>1, <2>2 DEF None
    <2> QED
      BY <1>0, <2>1, <2>2, <2>3 DEF CursorPast, Past
  <1>5. CASE HandleSnapshotSaved
    <2>1. /\ UNCHANGED <<clock, inboxBlock>> /\ scan'.to = scan.to /\ scan.left # {}
      BY <1>5 DEF HandleSnapshotSaved, Typed, TypeOK, IndexerTypeOK
    <2> QED
      BY <1>0, <2>1 DEF CursorPast, Past
  <1>6. CASE FinishScan
    <2>1. UNCHANGED clock /\ inboxBlock' = scan.to /\ scan' = Nothing /\ scan.to # None
      BY <1>6 DEF FinishScan, Nothing, Typed, TypeOK, IndexerTypeOK
    <2> QED
      BY <1>0, <2>1 DEF CursorPast, Past, Nothing, None
  <1>7. UNCHANGED vars => UNCHANGED indexer
    BY DEF vars
  <1> QED
    BY <1>1, <1>2, <1>3, <1>4, <1>5, <1>6, <1>7, IndexerSteps DEF Indexer

(* What a step does to one claim.                                          *)
LEMMA OneClaim ==
    ASSUME Typed, [Next]_vars, NEW f \in Epochs
    PROVE  \/ claims'[f] = claims[f]
           \/ claims[f].open /\ ~claims'[f].open /\ claims'[f].mine = claims[f].mine
           \/ /\ f + 1 = EpochOf(clock) /\ ~Claimed(f)
              /\ claims'[f].at = clock /\ clock' = clock
              /\ claims'[f].mine => OwnStep /\ f = Claiming /\ claims'[f].root = answer
  <1>1. claims \in [Epochs -> [root : Nat, at : Nat, mine : BOOLEAN, open : BOOLEAN]]
    BY WatcherNumbers
  <1>2. CASE RivalStep
    <2>1. PICK g \in Epochs, r \in 1 .. MaxCount : Claimable(g) /\ MakeClaim(g, r, FALSE)
      BY <1>2 DEF RivalStep
    <2> QED
      BY <1>1, <1>2, <2>1 DEF RivalStep, MakeClaim, Claimable
  <1>3. CASE OwnStep
    BY <1>1, <1>3 DEF OwnStep, MakeClaim, Claimable
  <1>4. CASE Resolve
    <2>1. PICK g \in Epochs : claims[g].open /\ claims' = [claims EXCEPT ![g].open = FALSE]
      BY <1>4 DEF Resolve
    <2> QED
      BY <1>1, <2>1
  <1>5. CASE UNCHANGED claims
    BY <1>5
  <1> QED
    BY <1>2, <1>3, <1>4, <1>5, BridgeSteps
       DEF BridgeStill, bridge, Tick, SendMessage, SavesStep, vars

LEMMA Truncations ==
    ASSUME NEW a \in Nat, NEW b \in Nat, NEW c \in Nat, a <= b
    PROVE  Truncated(a, c) <= Truncated(b, c) /\ Truncated(a, c) \in Nat /\ Truncated(b, c) \in Nat
  BY DEF Truncated

LEMMA UnknownAheadStep ==
    ASSUME TimelyBuffers, Typed, ClaimTimes, CursorPast, UnknownAhead, [Next]_vars
    PROVE  UnknownAhead'
  <1> SUFFICES ASSUME NEW f \in Epochs, claims'[f].open, f \notin known'
               PROVE  inboxBlock' < claims'[f].at \/ claims'[f].at <= Truncated(clock', Lookback)
    BY DEF UnknownAhead
  <1>0. /\ clock \in Nat /\ clock' \in Nat /\ clock <= clock'
        /\ inboxBlock \in Nat \cup {-1} /\ scan.to \in Nat \cup {-1} /\ claims[f].at \in Nat
        /\ claims \in [Epochs -> [root : Nat, at : Nat, mine : BOOLEAN, open : BOOLEAN]]
    BY WatcherNumbers, ClockSteps
  <1>1. /\ Truncated(clock, Lookback) \in Nat /\ Truncated(clock', Lookback) \in Nat
        /\ Truncated(clock, Lookback) <= Truncated(clock', Lookback)
    BY <1>0, Truncations, WatcherAssumption
  <1>2. CASE UNCHANGED indexer
    <2>1. inboxBlock' = inboxBlock /\ known' = known
      BY <1>2 DEF indexer, files
    <2>2. CASE claims'[f] = claims[f]
      BY <1>0, <1>1, <2>1, <2>2 DEF UnknownAhead
    <2>3. CASE f + 1 = EpochOf(clock) /\ claims'[f].at = clock
      <3>1. clock # 0
        BY <2>3, FirstEpoch DEF Epochs
      <3> QED
        BY <1>0, <2>1, <2>3, <3>1 DEF CursorPast, Past
    <2> QED
      BY <2>2, <2>3, OneClaim
  <1>3. CASE Start
    <2>1. UNCHANGED <<claims, known, clock>>
      BY <1>3 DEF Start, bridge
    <2>2. inboxBlock' = inboxBlock \/ inboxBlock' = Truncated(clock, Lookback)
      BY <1>3 DEF Start
    <2> QED
      BY <1>0, <1>1, <2>1, <2>2 DEF UnknownAhead
  <1>4. CASE ScanNothing \/ ScanChunk \/ HandleSnapshotSaved
    BY <1>4 DEF ScanNothing, ScanChunk, HandleSnapshotSaved, bridge, files, UnknownAhead
  <1>5. CASE Forget
    BY <1>5 DEF Forget, bridge, UnknownAhead
  <1>6. CASE FinishScan
    <2>1. /\ UNCHANGED <<claims, clock>> /\ inboxBlock' = scan.to
          /\ known' = known \cup {e \in Epochs : /\ Claimed(e)
                                               /\ claims[e].at \in inboxBlock .. scan.to}
      BY <1>6 DEF FinishScan, bridge
    <2>2. Claimed(f)
      BY <2>1 DEF Claimed, NoClaim
    <2>3. claims[f].at < inboxBlock \/ scan.to < claims[f].at
      BY <1>0, <2>1, <2>2
    <2> QED
      BY <1>0, <1>1, <2>1, <2>3 DEF UnknownAhead
  <1>7. UNCHANGED vars => UNCHANGED indexer
    BY DEF vars
  <1> QED
    BY <1>2, <1>3, <1>4, <1>5, <1>6, <1>7, IndexerSteps DEF Indexer

LEMMA FreshStep ==
    ASSUME TimelyBuffers, Typed, CursorPast, Fresh, [Next]_vars
    PROVE  Fresh'
  <1> SUFFICES ASSUME NEW last \in Nat, clock' = last + 1, Smooth(EpochOf(last))'
               PROVE  Truncated(last, Finality) <= inboxBlock'
    BY DEF Fresh
  <1>1. /\ clock \in Nat /\ inboxBlock \in Int /\ Truncated(last, Finality) \in Nat
        /\ EpochOf(last) \in Nat
    <2>1. EpochOf(last) \in Nat
      BY EpochBounds
    <2>2. Truncated(last, Finality) \in Nat
      BY Subtractions, WatcherAssumption
    <2> QED
      BY <2>1, <2>2, WatcherNumbers
  <1>2. inboxBlock <= inboxBlock' /\ inboxBlock' \in Int
    <2>1. Typed'
      BY TypedStep
    <2>2. inboxBlock' \in Nat \cup {-1}
      BY <2>1 DEF Typed, TypeOK, IndexerTypeOK, None
    <2> QED
      BY <2>2, CursorPastStep
  <1>3. PICK e \in Nat : e = EpochOf(last)
    BY <1>1
  <1>4. Smooth(e) /\ (Tick /\ EpochOf(clock) = e => AtRest)
    BY <1>3, SmoothSoFar
  <1>5. CASE Tick
    <2>1. clock = last
      BY <1>1, <1>5 DEF Tick
    <2>2. Truncated(last, Finality) <= inboxBlock
      BY <1>1, <1>3, <1>4, <1>5, <2>1 DEF AtRest, Final
    <2> QED
      BY <1>1, <1>2, <2>2
  <1>6. CASE clock' = clock
    <2>1. Truncated(last, Finality) <= inboxBlock
      BY <1>3, <1>4, <1>6 DEF Fresh
    <2> QED
      BY <1>1, <1>2, <2>1
  <1> QED
    BY <1>5, <1>6, BridgeSteps
       DEF BridgeStill, bridge, SendMessage, SavesStep, RivalStep, Resolve, OwnStep, vars

LEMMA InTimeStep ==
    ASSUME Typed, InTime, [Next]_vars
    PROVE  InTime'
  <1> SUFFICES ASSUME phase' \in ClaimPhases
               PROVE  ClaimTime(now')
    BY DEF InTime, ClaimTime, EpochOf
  <1>1. CASE Turns
    BY <1>1 DEF Turns
  <1>2. CASE phase \in ClaimPhases /\ now' = now
    BY <1>2 DEF InTime
  <1> QED
    BY <1>1, <1>2, WatcherMoves
       DEF Moves, Stays, Sleeps, AsksSnapshot, Takes, Holds, Doubts, ClaimPhases, Holding,
           vars, locals

LEMMA ClaimsAfterLook ==
    ASSUME Next, phase' = "claim", phase # "claim"
    PROVE  Step("pending", "claim") /\ ~HasRecentRoot
  <1>1. ~Sleep /\ ~Settle /\ \A t : ~TurnToClaim(t)
    BY DEF Sleep, Settle, TurnToClaim
  <1>2. (\A why : ~Panic(why)) /\ (\A e : ~Fail(e))
    BY <1>1 DEF Panic, Fail
  <1>3. ~(Tick \/ SendMessage \/ RivalSaves \/ RivalClaims \/ Resolve \/ Start \/ Kill)
    BY <1>2 DEF Tick, SendMessage, RivalSaves, RivalClaims, Resolve, Start, Kill, locals
  <1>4. ~Indexer
    BY DEF Indexer, ScanNothing, ScanChunk, HandleSnapshotSaved, FinishScan, Forget, locals
  <1>5. ~(ReadTimestamp \/ ReadCount \/ Compare \/ SaveSnapshot \/ SaveFails)
    BY <1>1, <1>2 DEF ReadTimestamp, ReadCount, Compare, SaveSnapshot, SaveFails, Saved
  <1>6. ~(CheckFinality \/ BatchNotPosted \/ ReadSnapshot \/ ReadHash \/ ReadStateRoot)
    BY <1>1, <1>2 DEF CheckFinality, BatchNotPosted, ReadSnapshot, ReadHash, ReadStateRoot, Step
  <1>7. ~(ClaimLands \/ ClaimFails \/ Recheck \/ ClaimRequestFails)
    BY <1>1, <1>2 DEF ClaimLands, ClaimFails, Recheck, ClaimRequestFails
  <1>8. LookForRoot
    BY <1>3, <1>4, <1>5, <1>6, <1>7 DEF Next, Watcher
  <1> QED
    BY <1>1, <1>8 DEF LookForRoot

(* The last second before a claim's time was in its epoch or in the next.  *)
LEMMA SecondBefore ==
    ASSUME Typed, InTime, phase \in ClaimPhases, Current = EpochOf(clock)
    PROVE  \E last \in Nat :
              /\ clock = last + 1 /\ EpochOf(last) \in {Claiming, Current}
              /\ Period * Current + AfterBuffer <= last + 1
  <1>1. /\ clock \in Nat /\ now \in Nat /\ now <= clock /\ Current \in Nat /\ Current > 0
        /\ EpochOf(now) = Current /\ Period \in Nat \ {0} /\ AfterBuffer \in Nat
    <2>1. Current \in Nat
      BY EpochsOccur DEF Epochs
    <2>2. Current > 0
      BY DEF Typed, Turn, Current
    <2> QED
      BY <2>1, <2>2, WatcherNumbers, WatcherAssumption DEF Current
  <1>2. now - Current * Period >= AfterBuffer
    BY <1>1 DEF InTime, ClaimTime
  <1>3. Current * Period = Period * Current /\ Period * Current \in Nat
    BY <1>1, SMTT(30)
  <1>4. Period * Current + AfterBuffer <= clock
    BY <1>1, <1>2, <1>3
  <1>5. Period * Current = Period * (Current - 1) + Period
    BY <1>1, SMTT(30)
  <1>6. Period * (Current - 1) \in Nat /\ Current - 1 \in Nat
    BY <1>1, SMTT(30)
  <1>7. PICK last \in Nat : clock = last + 1
    <2>1. clock >= 1
      BY <1>1, <1>3, <1>4, <1>5, <1>6
    <2> QED
      BY <1>1, <2>1
  <1>8. /\ EpochOf(last) \in Nat /\ EpochOf(last) <= Current
        /\ last < Period * EpochOf(last) + Period
    <2>1. last <= clock
      BY <1>1, <1>7
    <2> QED
      BY <1>1, <2>1, EpochsGrow, EpochBounds
  <1>9. Current - 1 <= EpochOf(last)
    <2>1. Period * EpochOf(last) \in Nat
      BY <1>1, <1>8, SMTT(30)
    <2>2. Period * (Current - 1) < Period * EpochOf(last) + Period
      BY <1>1, <1>3, <1>4, <1>5, <1>6, <1>7, <1>8, <2>1
    <2> QED
      BY <1>1, <1>6, <1>8, <2>2, Multiples
  <1>10. EpochOf(last) \in {Claiming, Current}
    BY <1>1, <1>8, <1>9 DEF Claiming
  <1> QED
    BY <1>4, <1>7, <1>10

(* A claim of an earlier epoch was made before this one began.             *)
LEMMA EarlierClaim ==
    ASSUME Typed, ClaimTimes, Current = EpochOf(clock),
           NEW f \in Epochs \ {Claiming}, claims[f].open
    PROVE  /\ claims[f].at \in Nat /\ claims[f].at > 0
           /\ claims[f].at < Period * Current
  <1>1. claims[f].at \in Nat /\ Claimed(f)
    BY WatcherNumbers DEF Claimed, NoClaim
  <1>2. /\ f \in Nat /\ Current \in Nat /\ clock \in Nat
        /\ EpochOf(claims[f].at) = f + 1 /\ claims[f].at <= clock
    BY <1>1, EpochsOccur, WatcherNumbers DEF ClaimTimes, Epochs
  <1>3. f + 1 <= Current
    BY <1>1, <1>2, EpochsGrow
  <1>4. f + 2 <= Current
    BY <1>2, <1>3 DEF Claiming
  <1>5. claims[f].at < Period * (f + 1) + Period
    BY <1>1, <1>2, EpochBounds
  <1>6. Period * (f + 1) + Period = Period * (f + 2)
    BY <1>2, WatcherAssumption, SMTT(30)
  <1>7. Period * (f + 2) <= Period * Current
    BY <1>2, <1>4, WatcherAssumption, SMTT(30)
  <1>8. Period * (f + 2) \in Nat /\ Period * Current \in Nat
    BY <1>2, WatcherAssumption, SMTT(30)
  <1>9. claims[f].at # 0
    BY <1>2, FirstEpoch
  <1> QED
    BY <1>1, <1>5, <1>6, <1>7, <1>8, <1>9

LEMMA FileTells ==
    ASSUME TimelyBuffers, Typed, ClaimTimes, CursorPast, UnknownAhead, Fresh, InTime,
           phase = "pending", ~HasRecentRoot, Current = EpochOf(clock),
           Smooth(Claiming), Smooth(Current),
           NEW f \in Epochs \ {Claiming}, claims[f].open, claims[f].root = answer
    PROVE  claims[f].at < Truncated(clock, Recent)
  <1>0. /\ clock \in Nat /\ now \in Nat /\ now <= clock /\ inboxBlock \in Int
        /\ Recent \in Nat /\ Lookback \in Nat /\ Finality \in Nat /\ AfterBuffer \in Nat
        /\ Finality <= AfterBuffer /\ Recent < Lookback
    BY WatcherNumbers, WatcherAssumption DEF TimelyBuffers
  <1>1. /\ claims[f].at \in Nat /\ claims[f].at > 0
        /\ claims[f].at < Period * Current
    BY EarlierClaim
  <1>2. CASE f \in known
    <2>1. claims[f].at < Truncated(now, Recent)
      <3>1. Truncated(now, Recent) \in Nat
        BY <1>0, Truncations
      <3> QED
        BY <1>1, <1>2, <3>1 DEF HasRecentRoot
    <2>2. /\ Truncated(now, Recent) <= Truncated(clock, Recent)
          /\ Truncated(now, Recent) \in Nat /\ Truncated(clock, Recent) \in Nat
      BY <1>0, Truncations
    <2> QED
      BY <1>1, <2>1, <2>2
  <1>3. CASE f \notin known
    <2>1. PICK last \in Nat :
              /\ clock = last + 1 /\ EpochOf(last) \in {Claiming, Current}
              /\ Period * Current + AfterBuffer <= last + 1
      BY SecondBefore DEF ClaimPhases
    <2>2. Truncated(last, Finality) <= inboxBlock
      BY <2>1 DEF Fresh
    <2>3. Period * Current \in Nat
      <3>1. Current \in Nat /\ Period \in Nat
        BY EpochsOccur, WatcherAssumption DEF Epochs
      <3> QED
        BY <3>1, SMTT(30)
    <2>4. claims[f].at <= inboxBlock
      BY <1>0, <1>1, <2>1, <2>2, <2>3 DEF Truncated
    <2>5. claims[f].at <= Truncated(clock, Lookback)
      BY <1>0, <1>1, <1>3, <2>4 DEF UnknownAhead
    <2> QED
      BY <1>0, <1>1, <2>5 DEF Truncated
  <1> QED
    BY <1>2, <1>3

LEMMA LookedStep ==
    ASSUME TimelyBuffers, Typed, ClaimTimes, CursorPast, UnknownAhead, Fresh, InTime, Looked,
           [Next]_vars
    PROVE  Looked'
  <1> SUFFICES ASSUME phase' = "claim", Current' = EpochOf(clock'),
                      Smooth(Claiming)', Smooth(Current)',
                      NEW f \in Epochs, f # Claiming', claims'[f].open,
                      claims'[f].root = answer'
               PROVE  claims'[f].at < Truncated(clock', Recent)
    BY DEF Looked, Epochs, EpochOf
  <1>0. /\ clock \in Nat /\ clock' \in Nat /\ clock <= clock' /\ claims[f].at \in Nat
        /\ EpochOf(clock) \in Nat /\ EpochOf(clock') \in Nat
        /\ EpochOf(clock) <= EpochOf(clock') /\ Current \in Nat /\ Current <= EpochOf(clock)
    <2>1. clock \in Nat /\ claims[f].at \in Nat
      BY WatcherNumbers
    <2>2. clock' \in Nat /\ clock <= clock' /\ EpochOf(clock) <= EpochOf(clock')
      BY ClockSteps
    <2>3. EpochOf(clock) \in Nat /\ EpochOf(clock') \in Nat
      BY <2>1, <2>2, EpochBounds
    <2>4. Current \in Nat /\ Current <= EpochOf(clock)
      BY EpochsOccur DEF Epochs
    <2> QED
      BY <2>1, <2>2, <2>3, <2>4
  <1>1. now' = now /\ answer' = answer /\ phase \in ClaimPhases
    BY WatcherMoves
       DEF Moves, Stays, Sleeps, Turns, AsksSnapshot, Takes, Holds, Doubts, ClaimPhases,
           Holding, vars, locals
  <1>2. /\ Current' = Current /\ Claiming' = Claiming /\ Current = EpochOf(clock)
        /\ Claiming \in Nat
    <2>1. Current' = Current /\ Claiming' = Claiming
      BY <1>1 DEF Claiming, Current, EpochOf
    <2> QED
      BY <1>0, <1>1, <2>1, ClaimingOver DEF Epochs
  <1>3. Smooth(Claiming) /\ Smooth(Current)
    <2>1. PICK e \in Nat, g \in Nat : e = Current /\ g = Claiming
      BY <1>0, <1>2
    <2>2. Smooth(e)' /\ Smooth(g)'
      BY <1>2, <2>1 DEF Smooth
    <2> QED
      BY <2>1, <2>2, SmoothSoFar
  <1>4. claims'[f] = claims[f]
    <2>1. f + 1 # EpochOf(clock)
      <3>1. f \in Nat /\ f # Claiming /\ Claiming = EpochOf(clock) - 1
        BY <1>2 DEF Claiming, Epochs
      <3> QED
        BY <1>0, <3>1
    <2> QED
      BY <2>1, OneClaim
  <1>5. claims[f].at < Truncated(clock, Recent)
    <2>1. CASE phase = "claim"
      BY <1>1, <1>2, <1>3, <1>4, <2>1 DEF Looked
    <2>2. CASE phase # "claim"
      <3>1. phase = "pending" /\ ~HasRecentRoot
        BY <2>2, ClaimsAfterLook DEF Step, vars, locals
      <3> QED
        BY <1>1, <1>2, <1>3, <1>4, <3>1, FileTells
    <2> QED
      BY <2>1, <2>2
  <1>6. Truncated(clock, Recent) <= Truncated(clock', Recent)
        /\ Truncated(clock, Recent) \in Nat /\ Truncated(clock', Recent) \in Nat
    BY <1>0, Truncations, WatcherAssumption
  <1> QED
    BY <1>0, <1>4, <1>5, <1>6

LEMMA DepositStep ==
    ASSUME Typed, Looked, [Next]_vars, NEW e \in Epochs,
           ~Claimed(e), claims'[e].mine, Smooth(e), Smooth(e + 1),
           NEW f \in Epochs \ {e}, claims[f].open, claims[f].root = claims'[e].root
    PROVE  claims[f].at < Truncated(clock, Recent)
  <1>1. OwnStep /\ e = Claiming /\ claims'[e].root = answer
    BY OneClaim DEF Claimed, NoClaim
  <1>2. phase = "claim" /\ Claiming + 1 = EpochOf(clock)
    BY <1>1 DEF OwnStep, Claimable
  <1>3. Claiming + 1 = Current
    BY EpochsOccur DEF Claiming, Epochs
  <1> QED
    BY <1>1, <1>2, <1>3 DEF Looked

InTouch ==
    ClaimTimes /\ CursorPast /\ UnknownAhead /\ Fresh /\ InTime /\ Looked

LEMMA InitInTouch == Init => InTouch
  <1> SUFFICES ASSUME Init PROVE InTouch
    OBVIOUS
  <1>1. ClaimTimes /\ InTime /\ Looked
    BY DEF Init, ClaimTimes, Claimed, InTime, ClaimPhases, Looked
  <1>2. CursorPast /\ UnknownAhead
    BY DEF Init, CursorPast, Past, UnknownAhead, Nothing, None, NoClaim
  <1>3. Fresh
    BY DEF Init, Fresh
  <1> QED
    BY <1>1, <1>2, <1>3 DEF InTouch

(* No deposit goes into a root that an open claim of the last days has, if *)
(* nothing goes wrong (claim.rs, has_state_root_in_recent_claims): the     *)
(* file the watcher looks into tells of every such claim, as long as the   *)
(* buffer after an epoch's end (epoch_watcher.rs) is not shorter than the  *)
(* indexer's (indexer.rs; both are twenty minutes), and the lookback of    *)
(* the route is longer than the seven days of claim.rs.                    *)
THEOREM DepositsAreNotWasted ==
    ASSUME Finality \in 1 .. AfterBuffer, Recent < Lookback
    PROVE  Spec => NoWastedDeposit
  <1>1. TimelyBuffers
    BY DEF TimelyBuffers
  <1>2. Typed /\ InTouch /\ [Next]_vars => InTouch'
    BY <1>1, ClaimTimesStep, CursorPastStep, UnknownAheadStep, FreshStep, InTimeStep, LookedStep
       DEF InTouch
  <1>3. Typed /\ InTouch /\ [Next]_vars
            => [\A e \in Epochs :
                  ~Claimed(e) /\ claims'[e].mine /\ Smooth(e) /\ Smooth(e + 1) =>
                      \A f \in Epochs \ {e} :
                          claims[f].open /\ claims[f].root = claims'[e].root =>
                              claims[f].at < Truncated(clock, Recent)]_vars
    BY DepositStep DEF InTouch
  <1> QED
    BY <1>2, <1>3, InitInTouch, TypedHolds, PTL DEF Spec, NoWastedDeposit
=============================================================================
