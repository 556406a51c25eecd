---------------------------- MODULE RouteProofs -----------------------------
(***************************************************************************)
(* Theorems about Route for every value of its constants: its types, with  *)
(* what keeps them (Typed), and that tasks wait until the indexer has      *)
(* caught up (InStep).  Both invariants carry the proofs of the modules    *)
(* that extend this one.                                                   *)
(***************************************************************************)
EXTENDS RouteProperties, FiniteSetTheorems, SequenceTheorems, TLAPS

-----------------------------------------------------------------------------
(* The task store's operators keep a finite set of tasks. *)

LEMMA RetainType ==
    ASSUME NEW kept \in SUBSET Task, IsFiniteSet(kept)
    PROVE  Retain(kept) \in SUBSET Task /\ IsFiniteSet(Retain(kept))
<1> DEFINE place(t) == 1 + Cardinality({u \in kept : u.place < t.place})
           moved(t) == [t EXCEPT !.place = place(t)]
<1>1. ASSUME NEW t \in kept PROVE moved(t) \in Task
  <2>1. IsFiniteSet({u \in kept : u.place < t.place})
    BY FS_Subset, {u \in kept : u.place < t.place} \subseteq kept
  <2>2. place(t) \in Nat
    BY <2>1, FS_CardinalityType
  <2> QED
    BY <2>2 DEF Task
<1>2. IsFiniteSet({moved(t) : t \in kept})
  <2> DEFINE f == [t \in kept |-> moved(t)]
  <2>1. f \in Surjection(kept, {moved(t) : t \in kept})
    BY DEF Surjection
  <2> QED
    BY <2>1, FS_Surjection
<1>3. Retain(kept) = {moved(t) : t \in kept}
  BY DEF Retain
<1> QED
  BY <1>1, <1>2, <1>3

LEMMA AddTaskType ==
    ASSUME NEW ts \in SUBSET Task, IsFiniteSet(ts), NEW e \in Epochs,
           NEW kind \in Kinds, NEW after \in Nat, NEW position \in Nat
    PROVE  /\ AddTask(ts, e, kind, after, position) \in SUBSET Task
           /\ IsFiniteSet(AddTask(ts, e, kind, after, position))
<1>1. Cardinality(ts) \in Nat
  BY FS_CardinalityType
<1> DEFINE new == [place |-> 1 + Cardinality(ts), epoch |-> e, kind |-> kind,
                   after |-> after, position |-> position]
<1>2. new \in Task
  BY <1>1 DEF Task
<1>3. IsFiniteSet(ts \cup {new})
  BY FS_AddElement
<1> QED
  BY <1>2, <1>3 DEF AddTask

LEMMA InvalidateType ==
    ASSUME NEW ts \in SUBSET Task, IsFiniteSet(ts), NEW e, NEW kinds
    PROVE  /\ Invalidate(ts, e, kinds) \in SUBSET Task
           /\ IsFiniteSet(Invalidate(ts, e, kinds))
<1>1. IsFiniteSet(ts \ TasksOf(ts, e, kinds))
  BY FS_Subset, ts \ TasksOf(ts, e, kinds) \subseteq ts
<1> QED
  BY <1>1, RetainType DEF Invalidate

LEMMA RemoveTaskType ==
    ASSUME NEW ts \in SUBSET Task, IsFiniteSet(ts), NEW task
    PROVE  /\ RemoveTask(ts, task) \in SUBSET Task
           /\ IsFiniteSet(RemoveTask(ts, task))
<1>1. IsFiniteSet(ts \ TasksOf(ts, task.epoch, {task.kind}))
  BY FS_Subset, ts \ TasksOf(ts, task.epoch, {task.kind}) \subseteq ts
<1> QED
  BY <1>1, RetainType DEF RemoveTask

LEMMA RescheduleTaskType ==
    ASSUME NEW ts \in SUBSET Task, IsFiniteSet(ts), NEW task, NEW after \in Nat
    PROVE  /\ RescheduleTask(ts, task, after) \in SUBSET Task
           /\ IsFiniteSet(RescheduleTask(ts, task, after))
<1> DEFINE same  == TasksOf(ts, task.epoch, {task.kind})
           first == {t \in same : \A u \in same : t.place <= u.place}
           later == {[t EXCEPT !.after = after] : t \in first}
<1>1. first \subseteq ts
  BY DEF TasksOf
<1>2. IsFiniteSet(first) /\ IsFiniteSet(ts \ first)
  BY <1>1, FS_Subset, ts \ first \subseteq ts
<1>3. IsFiniteSet(later)
  <2> DEFINE f == [t \in first |-> [t EXCEPT !.after = after]]
  <2>1. f \in Surjection(first, later)
    BY DEF Surjection
  <2> QED
    BY <1>2, <2>1, FS_Surjection
<1>4. IsFiniteSet((ts \ first) \cup later)
  BY <1>2, <1>3, FS_Union
<1>5. later \in SUBSET Task
  BY <1>1 DEF Task
<1>6. RescheduleTask(ts, task, after) = (ts \ first) \cup later
  BY DEF RescheduleTask
<1> QED
  BY <1>4, <1>5, <1>6

(* What comes out of a schedule came from it: same epoch, kind, position.  *)
SameAs(t, u) == t.kind = u.kind /\ t.epoch = u.epoch /\ t.position = u.position

From(new, old) == \A t \in new : \E u \in old : SameAs(t, u)

LEMMA RetainFrom ==
    ASSUME NEW kept \in SUBSET Task, NEW ts, kept \subseteq ts
    PROVE  From(Retain(kept), ts)
<1> SUFFICES ASSUME NEW t \in Retain(kept) PROVE \E u \in ts : SameAs(t, u)
  BY DEF From
<1>1. PICK u \in kept : t = [u EXCEPT !.place =
                               1 + Cardinality({w \in kept : w.place < u.place})]
  BY DEF Retain
<1> QED
  BY <1>1 DEF SameAs, Task

LEMMA InvalidateFrom ==
    ASSUME NEW ts \in SUBSET Task, NEW e, NEW kinds
    PROVE  From(Invalidate(ts, e, kinds), ts)
BY RetainFrom DEF Invalidate

LEMMA RemoveTaskFrom ==
    ASSUME NEW ts \in SUBSET Task, NEW task
    PROVE  From(RemoveTask(ts, task), ts)
BY RetainFrom DEF RemoveTask

LEMMA RescheduleTaskFrom ==
    ASSUME NEW ts \in SUBSET Task, NEW task, NEW after
    PROVE  From(RescheduleTask(ts, task, after), ts)
<1> SUFFICES ASSUME NEW t \in RescheduleTask(ts, task, after)
             PROVE  \E u \in ts : SameAs(t, u)
  BY DEF From
<1>1. CASE t \in ts
  BY <1>1 DEF SameAs
<1>2. CASE \E u \in ts : t = [u EXCEPT !.after = after]
  BY <1>2 DEF SameAs, Task
<1> QED
  BY <1>1, <1>2 DEF RescheduleTask, TasksOf

LEMMA AddTaskFrom ==
    ASSUME NEW ts, NEW e, NEW kind, NEW after, NEW position,
           NEW t \in AddTask(ts, e, kind, after, position)
    PROVE  t \in ts \/ (t.kind = kind /\ t.epoch = e)
BY DEF AddTask

-----------------------------------------------------------------------------
(* The invariant, part one: types. *)

Busy == {"finality", "compare", "hash", "spent", "send", "result"}

EventsTyped ==
    \A i \in DOMAIN log :
        /\ log[i].kind = "Claimed" => log[i].arg \in Roots
        /\ log[i].kind = "Challenged" => log[i].arg \in Addresses

(* What is left of a chunk are entries of the log it was read from. *)
ScanOK ==
    /\ Running => \A s \in Sides : cursor[s] \in Nat
    /\ idx.phase = "query" => idx.queue = {}
    /\ idx.side = "inbox" => idx.queue \subseteq DOMAIN sent
    /\ idx.side = "outbox" => idx.queue \subseteq DOMAIN log
    /\ idx.phase = "await" => idx.side = "outbox" /\ idx.at \in DOMAIN log

(* A pass holds a task, and its claim before it is judged or sent.         *)
HoldsTask(x) ==
    /\ x.task \in Task
    /\ x.phase = "send" /\ x.task.kind = "SendSnapshot" => x.claim # NoClaim
    /\ x.phase = "compare" => x.claim # NoClaim

PassOK == disp.phase \in Busy => HoldsTask(disp)

ChainsOK == ChainsTypeOK /\ EventsTyped

FilesOK == tasks \in SUBSET Task /\ IsFiniteSet(tasks)
           /\ claims \in [Epochs -> ClaimData \cup {NoClaim}]

Typed == ChainsOK /\ ProcessTypeOK /\ IsFiniteSet(tasks) /\ ScanOK /\ PassOK

(* Logs only grow. *)
Grows ==
    /\ \A i \in DOMAIN log : i \in DOMAIN log' /\ log'[i] = log[i]
    /\ \A i \in DOMAIN sent : i \in DOMAIN sent' /\ sent'[i] = sent[i]

MaybeClaim == ClaimData \cup {NoClaim}

(* Any step of a contract, whoever calls it; this validator challenges the *)
(* epochs of `mine` only.                                                  *)
ChainStep(mine) ==
    \/ Tick
    \/ \E e \in Epochs, root \in Roots : Claim(e, root)
    \/ \E e \in Epochs, c \in MaybeClaim, who \in {"me", "other"} :
          (who = "me" => e \in mine) /\ Challenge(e, c, who)
    \/ \E e \in Epochs, c \in MaybeClaim : StartVerification(e, c)
    \/ \E e \in Epochs, c \in MaybeClaim : VerifySnapshot(e, c)
    \/ \E e \in Epochs, c \in ClaimData, own \in BOOLEAN : SendSnapshot(e, c, own)
    \/ \E e \in Epochs, c \in MaybeClaim : WithdrawDeposit(e, c)
    \/ \E i \in DOMAIN sent : Relay(i)
    \/ UNCHANGED chainVars

LEMMA EmitType ==
    ASSUME ChainsOK, NEW kind \in EventKinds, NEW e \in Epochs,
           NEW arg \in Roots \cup Addresses \cup {"-"}, Emit(kind, e, arg),
           kind = "Claimed" => arg \in Roots, kind = "Challenged" => arg \in Addresses,
           UNCHANGED sent
    PROVE  log' \in Seq(Event) /\ EventsTyped' /\ Grows
<1> DEFINE ev == [kind |-> kind, epoch |-> e, ts |-> clock, arg |-> arg]
<1>1. ev \in Event
  BY DEF ChainsOK, ChainsTypeOK, Event
<1>2. log' = Append(log, ev) /\ log \in Seq(Event)
  BY DEF Emit, ChainsOK, ChainsTypeOK
<1> HIDE DEF ev
<1>3. /\ log' \in Seq(Event)
      /\ DOMAIN log' = 1..(Len(log) + 1) /\ DOMAIN log = 1..Len(log)
      /\ \A i \in 1..Len(log) : log'[i] = log[i]
      /\ log'[Len(log) + 1] = ev
      /\ Len(log) \in Nat
  BY <1>1, <1>2, AppendProperties, LenProperties
<1>4. Grows
  BY <1>3 DEF Grows
<1>5. EventsTyped'
  <2> SUFFICES ASSUME NEW i \in DOMAIN log'
               PROVE /\ log'[i].kind = "Claimed" => log'[i].arg \in Roots
                     /\ log'[i].kind = "Challenged" => log'[i].arg \in Addresses
    BY DEF EventsTyped
  <2>1. CASE i \in DOMAIN log
    BY <2>1, <1>3 DEF ChainsOK, EventsTyped
  <2>2. CASE i = Len(log) + 1
    BY <2>2, <1>3 DEF ev
  <2> QED
    BY <2>1, <2>2, <1>3
<1> QED
  BY <1>3, <1>4, <1>5

LEMMA ChainStepType ==
    ASSUME NEW mine, ChainsOK, ChainStep(mine)
    PROVE  ChainsOK' /\ Grows
<1> USE ChainsAssumption DEF ChainsOK, ChainsTypeOK
<1>1. CASE Tick
  BY <1>1 DEF Tick, EventsTyped, Grows
<1>2. ASSUME NEW e \in Epochs, NEW root \in Roots, Claim(e, root)
      PROVE  ChainsOK' /\ Grows
  <2>1. NewClaim(root, clock) \in ClaimData
    BY DEF NewClaim, ClaimData, Parties, Addresses
  <2> QED
    BY <1>2, <2>1, EmitType DEF Claim, EventKinds
<1>3. ASSUME NEW e \in Epochs, NEW c \in MaybeClaim, NEW who \in {"me", "other"},
             Challenge(e, c, who)
      PROVE  ChainsOK' /\ Grows
  <2>1. [c EXCEPT !.challenger = who] \in ClaimData /\ who \in Addresses
    BY <1>3 DEF Challenge, CanChallenge, Open, MaybeClaim, ClaimData, Addresses
  <2> QED
    BY <1>3, <2>1, EmitType DEF Challenge, EventKinds
<1>4. ASSUME NEW e \in Epochs, NEW c \in MaybeClaim, StartVerification(e, c)
      PROVE  ChainsOK' /\ Grows
  <2>1. [c EXCEPT !.verification = clock] \in ClaimData
    BY <1>4 DEF StartVerification, CanStart, Open, MaybeClaim, ClaimData
  <2> QED
    BY <1>4, <2>1, EmitType DEF StartVerification, EventKinds
<1>5. ASSUME NEW e \in Epochs, NEW c \in MaybeClaim, VerifySnapshot(e, c)
      PROVE  ChainsOK' /\ Grows
  <2>1. [c EXCEPT !.honest = "Claimer"] \in ClaimData
    BY <1>5 DEF VerifySnapshot, CanVerify, Open, MaybeClaim, ClaimData, Parties
  <2> QED
    BY <1>5, <2>1, EmitType DEF VerifySnapshot, EventKinds
<1>6. ASSUME NEW e \in Epochs, NEW c \in ClaimData, NEW own \in BOOLEAN,
             SendSnapshot(e, c, own)
      PROVE  ChainsOK' /\ Grows
  <2>1. [epoch |-> e, ts |-> clock, mine |-> own, claim |-> c] \in Message
    BY DEF Message
  <2>2. /\ sent' \in Seq(Message)
        /\ \A i \in DOMAIN sent : i \in DOMAIN sent' /\ sent'[i] = sent[i]
    BY <1>6, <2>1, AppendProperties, LenProperties DEF SendSnapshot
  <2> QED
    BY <1>6, <2>2 DEF SendSnapshot, EventsTyped, Grows
<1>7. ASSUME NEW e \in Epochs, NEW c \in MaybeClaim, WithdrawDeposit(e, c)
      PROVE  ChainsOK' /\ Grows
  BY <1>7 DEF WithdrawDeposit, EventsTyped, Grows
<1>8. ASSUME NEW i \in DOMAIN sent, Relay(i)
      PROVE  ChainsOK' /\ Grows
  <2> DEFINE m == sent[i]
             winner == IF m.claim.root = "correct" THEN "Claimer" ELSE "Challenger"
  <2>1. m \in Message /\ i \in Nat
    BY ElementOfSeq, LenProperties
  <2>2. [m.claim EXCEPT !.honest = winner] \in ClaimData /\ m.epoch \in Epochs
    BY <2>1 DEF Message, ClaimData, Parties
  <2> QED
    BY <1>8, <2>1, <2>2, EmitType DEF Relay, EventKinds
<1>9. CASE UNCHANGED chainVars
  BY <1>9 DEF chainVars, EventsTyped, Grows
<1> QED
  BY <1>1, <1>2, <1>3, <1>4, <1>5, <1>6, <1>7, <1>8, <1>9 DEF ChainStep

-----------------------------------------------------------------------------
(* Each action keeps the types. *)

LEMMA IdleType ==
    /\ IdleIndexer \in Indexing
    /\ IdleDispatcher \in Dispatching
    /\ IdleIndexer.queue = {} /\ IdleIndexer.phase = "query"
    /\ IdleDispatcher.phase = "idle" /\ IdleDispatcher.ready = {}
BY DEF IdleIndexer, Indexing, Sides, Parties, IdleDispatcher, Dispatching,
       Phases, Results

LEMMA EnvironmentTyped ==
    ASSUME Typed, Environment
    PROVE  Typed'
<1>1. ChainStep({})
  <2>1. \A e \in Epochs : claimHash[e] \in MaybeClaim
    BY DEF Typed, ChainsOK, ChainsTypeOK, MaybeClaim
  <2>2. Tick => ChainStep({})
    BY DEF ChainStep
  <2>3. Others => ChainStep({})
    BY <2>1, ChainsAssumption
    DEF Others, ChainStep, Addresses, Open, MaybeClaim
  <2> QED
    BY <2>2, <2>3 DEF Environment
<1>2. ChainsOK' /\ Grows
  BY <1>1, ChainStepType DEF Typed
<1>3. UNCHANGED <<tasks, claims, cursor, indexingSince, onSync, route, idx, disp,
                  restarts, booted>>
  BY DEF Environment, storeVars, procVars, bootVars
<1>4. ScanOK'
  BY <1>2, <1>3 DEF Typed, ScanOK, Running, Grows
<1> QED
  BY <1>2, <1>3, <1>4 DEF Typed, ProcessTypeOK, PassOK

LEMMA StartTyped ==
    ASSUME Typed, FirstStart \/ Restart
    PROVE  Typed'
<1>1. Start /\ restarts' \in Nat
  BY DEF FirstStart, Restart, Typed, ProcessTypeOK
<1>2. SyncStart \in Nat
  BY ProcessAssumption
  DEF Typed, ChainsOK, ChainsTypeOK, SyncStart, Truncated
<1>3. cursor' \in [Sides -> Nat] /\ indexingSince' \in Nat
  BY <1>1, <1>2 DEF Start, NeedsInit, Typed, ProcessTypeOK
<1>4. /\ UNCHANGED <<clock, claimHash, log, sent, spent, tasks, claims, idx, disp>>
      /\ route' = "up" /\ onSync' = FALSE /\ booted' = clock
  BY <1>1 DEF Start, chainVars
<1>5. ChainsOK'
  BY <1>4 DEF Typed, ChainsOK, ChainsTypeOK, EventsTyped
<1>6. ProcessTypeOK'
  BY <1>1, <1>3, <1>4 DEF Typed, ProcessTypeOK, ChainsOK, ChainsTypeOK
<1> QED
  BY <1>3, <1>4, <1>5, <1>6 DEF Typed, ScanOK, PassOK

(* A panic or a kill leaves the files as a step of the process left them.  *)
LEMMA DieTyped ==
    ASSUME Typed, NEW why \in {"down"} \cup Panics, Die(why), FilesOK',
           UNCHANGED <<chainVars, cursor, indexingSince, onSync, restarts, booted>>
    PROVE  Typed'
<1>1. route' = why /\ idx' = IdleIndexer /\ disp' = IdleDispatcher
  BY DEF Die
<1>2. why # "up"
  BY DEF Panics
<1>3. ChainsOK'
  BY DEF Typed, ChainsOK, ChainsTypeOK, EventsTyped, chainVars
<1>4. ProcessTypeOK'
  BY <1>1, IdleType DEF Typed, ProcessTypeOK, FilesOK
<1>5. ScanOK' /\ PassOK'
  BY <1>1, <1>2, IdleType DEF ScanOK, PassOK, Running, Busy
<1> QED
  BY <1>3, <1>4, <1>5 DEF Typed, FilesOK

LEMMA PanicTyped ==
    ASSUME Typed, NEW why \in {"down"} \cup Panics, Panic(why),
           UNCHANGED <<chainVars, bootVars>>
    PROVE  Typed'
<1>1. /\ Die(why) /\ FilesOK'
      /\ UNCHANGED <<chainVars, cursor, indexingSince, onSync, restarts, booted>>
  BY DEF Panic, storeVars, bootVars, FilesOK, Typed, ProcessTypeOK
<1> QED
  BY <1>1, DieTyped

LEMMA KillTyped ==
    ASSUME Typed, Kill
    PROVE  Typed'
BY PanicTyped DEF Kill, Panic

(* A step of the indexer within a chunk. *)
ScanStateOK(x) ==
    /\ x \in Indexing
    /\ x.phase = "query" => x.queue = {}
    /\ x.side = "inbox" => x.queue \subseteq DOMAIN sent
    /\ x.side = "outbox" => x.queue \subseteq DOMAIN log
    /\ x.phase = "await" => x.side = "outbox" /\ x.at \in DOMAIN log

LEMMA IndexerMoveTyped ==
    ASSUME Typed, Running, NEW x, ScanStateOK(x), idx' = x, FilesOK',
           cursor' \in [Sides -> Nat \cup {NoBlock}], \A s \in Sides : cursor'[s] \in Nat,
           onSync' \in BOOLEAN, indexerFrame, UNCHANGED <<indexingSince, route, disp>>
    PROVE  Typed'
<1>1. ChainsOK'
  BY DEF Typed, ChainsOK, ChainsTypeOK, EventsTyped, chainVars, indexerFrame
<1>2. ProcessTypeOK'
  BY DEF Typed, ProcessTypeOK, FilesOK, ScanStateOK, indexerFrame, bootVars
<1>3. ScanOK' /\ PassOK'
  BY DEF Typed, ScanOK, PassOK, ScanStateOK, indexerFrame, chainVars
<1> QED
  BY <1>1, <1>2, <1>3 DEF Typed, FilesOK

LEMMA ProceedTyped ==
    ASSUME Typed, Running, NEW x, ScanStateOK(x), Proceed(x), indexerFrame
    PROVE  Typed'
<1>1. FilesOK' /\ onSync' \in BOOLEAN /\ cursor' \in [Sides -> Nat \cup {NoBlock}]
  BY DEF Typed, ProcessTypeOK, FilesOK, Proceed, storeVars
<1>2. \A s \in Sides : cursor'[s] \in Nat
  BY DEF Typed, ScanOK, Proceed, storeVars
<1> QED
  BY <1>1, <1>2, IndexerMoveTyped DEF Proceed, storeVars

LEMMA ScheduleTyped ==
    ASSUME Typed, Running, NEW x, ScanStateOK(x), NEW ts \in SUBSET Task,
           IsFiniteSet(ts), Schedule(ts, x), indexerFrame
    PROVE  Typed'
<1>1. FilesOK' /\ onSync' \in BOOLEAN /\ cursor' \in [Sides -> Nat \cup {NoBlock}]
  BY DEF Typed, ProcessTypeOK, FilesOK, Schedule
<1>2. \A s \in Sides : cursor'[s] \in Nat
  BY DEF Typed, ScanOK, Schedule
<1> QED
  BY <1>1, <1>2, IndexerMoveTyped DEF Schedule

LEMMA CommitTyped ==
    ASSUME Typed, Running, NEW x, ScanStateOK(x),
           NEW cs \in [Epochs -> ClaimData \cup {NoClaim}],
           NEW torn, \A u \in torn : u \in SUBSET Task /\ IsFiniteSet(u),
           NEW ts \in SUBSET Task, IsFiniteSet(ts),
           Commit(cs, torn, ts, x), indexerFrame
    PROVE  Typed'
<1>1. claims' = cs /\ UNCHANGED <<cursor, indexingSince, onSync>>
  BY DEF Commit
<1>2. CASE tasks' = ts /\ idx' = x /\ UNCHANGED <<route, disp>>
  <2>1. FilesOK' /\ onSync' \in BOOLEAN /\ cursor' \in [Sides -> Nat \cup {NoBlock}]
    BY <1>1, <1>2 DEF Typed, ProcessTypeOK, FilesOK
  <2>2. \A s \in Sides : cursor'[s] \in Nat
    BY <1>1 DEF Typed, ScanOK
  <2> QED
    BY <1>1, <1>2, <2>1, <2>2, IndexerMoveTyped
<1>3. CASE tasks' \in torn /\ Die("down")
  <2>1. FilesOK'
    BY <1>1, <1>3 DEF FilesOK
  <2> QED
    BY <1>1, <1>3, <2>1, DieTyped DEF indexerFrame, bootVars
<1> QED
  BY <1>2, <1>3 DEF Commit

LEMMA HandledOK ==
    ASSUME Typed, NEW s \in Sides, NEW i \in idx.queue, Delivers(s, i)
    PROVE  ScanStateOK(Handled(i))
BY DEF Typed, ProcessTypeOK, ScanOK, Indexing, ScanStateOK, Delivers, Handled

LEMMA AwaitingOK ==
    ASSUME Typed, NEW i \in idx.queue, Delivers("outbox", i), NEW v \in Parties
    PROVE  /\ ScanStateOK(Awaiting(i))
           /\ ScanStateOK([Awaiting(i) EXCEPT !.verdict = v])
<1>1. i \in DOMAIN log /\ i \in Nat
  BY LenProperties
  DEF Typed, ChainsOK, ChainsTypeOK, ScanOK, Delivers
<1> QED
  BY <1>1 DEF Typed, ProcessTypeOK, ScanOK, Indexing, ScanStateOK, Delivers, Awaiting

LEMMA ResumedOK ==
    ASSUME Typed
    PROVE  ScanStateOK(Resumed)
BY DEF Typed, ProcessTypeOK, ScanOK, Indexing, ScanStateOK, Resumed, Parties

LEMMA ScanTyped ==
    ASSUME Typed, ScanNothing \/ ScanChunk \/ ScanFailed \/ FinishChunk
    PROVE  Typed'
<1> DEFINE s == idx.side
<1>1. /\ Running /\ idx \in Indexing /\ s \in Sides /\ onSync \in BOOLEAN
      /\ cursor \in [Sides -> Nat \cup {NoBlock}]
      /\ \A r \in Sides : cursor[r] \in Nat
  BY DEF ScanNothing, ScanChunk, ScanFailed, FinishChunk, Typed, ProcessTypeOK,
         ScanOK, Indexing
<1>2. Target(s) \in Nat /\ idx.target[s] \in Nat /\ idx.to \in Nat
  BY <1>1, ProcessAssumption
  DEF Target, FinalBlock, Truncated, Indexing, Typed, ChainsOK, ChainsTypeOK
<1>3. ASSUME NEW done \in BOOLEAN
      PROVE  /\ ScanResult(s, done).phase = "query"
             /\ ScanResult(s, done).queue = idx.queue
             /\ ScanResult(s, done) \in Indexing
  BY <1>1 DEF ScanResult, Indexing, Sides
<1>4. /\ \A i \in DOMAIN sent : i \in Nat
      /\ \A i \in DOMAIN log : i \in Nat
  BY LenProperties DEF Typed, ChainsOK, ChainsTypeOK
<1>5. FilesOK
  BY DEF Typed, FilesOK, ProcessTypeOK
<1>6. CASE ScanNothing
  <2>1. ScanStateOK(ScanResult(s, TRUE))
    BY <1>3, <1>6 DEF ScanStateOK, ScanNothing, Typed, ScanOK
  <2>2. onSync' \in BOOLEAN
    BY <1>1, <1>6 DEF ScanNothing, SyncReached, Indexing
  <2>3. FilesOK'
    BY <1>5, <1>6 DEF FilesOK, ScanNothing
  <2> QED
    BY <1>1, <1>6, <2>1, <2>2, <2>3, IndexerMoveTyped DEF ScanNothing
<1>7. CASE ScanChunk
  <2> DEFINE to == Least(cursor[s] + Chunk, Target(s))
             x == [idx EXCEPT !.phase = "logs", !.target[s] = Target(s),
                              !.to = to, !.queue = InRange(s, cursor[s], to)]
  <2>1. to \in Nat
    BY <1>1, <1>2, ProcessAssumption DEF Least
  <2>2. /\ s = "inbox" => InRange(s, cursor[s], to) \subseteq DOMAIN sent
        /\ s = "outbox" => InRange(s, cursor[s], to) \subseteq DOMAIN log
    BY DEF InRange, LogBlocks
  <2>3. InRange(s, cursor[s], to) \subseteq Nat
    BY <1>1, <1>4, <2>2 DEF Sides
  <2>4. ScanStateOK(x)
    BY <1>1, <1>2, <2>1, <2>2, <2>3 DEF ScanStateOK, Indexing, Sides
  <2>5. idx' = x
    BY <1>7 DEF ScanChunk
  <2>6. FilesOK' /\ cursor' = cursor /\ onSync' = onSync /\ indexerFrame
        /\ UNCHANGED <<indexingSince, route, disp>>
    BY <1>5, <1>7 DEF FilesOK, ScanChunk, storeVars
  <2> QED
    BY <1>1, <2>4, <2>5, <2>6, IndexerMoveTyped
<1>8. CASE ScanFailed
  <2>1. PICK t \in {idx.target[s], Target(s)} :
               idx' = [ScanResult(s, FALSE) EXCEPT !.target[s] = t]
    BY <1>8 DEF ScanFailed
  <2>2. ScanStateOK([ScanResult(s, FALSE) EXCEPT !.target[s] = t])
    BY <1>1, <1>2, <1>3, <1>8 DEF ScanStateOK, ScanFailed, Typed, ScanOK, Indexing
  <2>3. FilesOK' /\ cursor' = cursor /\ onSync' = onSync /\ indexerFrame
        /\ UNCHANGED <<indexingSince, route, disp>>
    BY <1>5, <1>8 DEF FilesOK, ScanFailed, storeVars
  <2> QED
    BY <1>1, <2>1, <2>2, <2>3, IndexerMoveTyped
<1>9. CASE FinishChunk
  <2> DEFINE done == idx.to >= idx.target[s]
  <2>0. done \in BOOLEAN
    BY <1>2
  <2>1. ScanStateOK(ScanResult(s, done))
    <3> HIDE DEF done
    <3> QED
      BY <2>0, <1>3, <1>9 DEF ScanStateOK, FinishChunk
  <2>2. onSync' \in BOOLEAN
    BY <1>1, <1>9 DEF FinishChunk, SyncReached, Indexing
  <2>3. /\ cursor' \in [Sides -> Nat \cup {NoBlock}]
        /\ \A r \in Sides : cursor'[r] \in Nat
    BY <1>1, <1>2, <1>9 DEF FinishChunk
  <2>4. FilesOK'
    BY <1>5, <1>9 DEF FilesOK, FinishChunk
  <2> QED
    BY <1>1, <1>9, <2>1, <2>2, <2>3, <2>4, IndexerMoveTyped DEF FinishChunk
<1> QED
  BY <1>6, <1>7, <1>8, <1>9

LEMMA EventType ==
    ASSUME ChainsOK, NEW i \in DOMAIN log
    PROVE  /\ log[i] \in Event /\ log[i].epoch \in Epochs /\ log[i].ts \in Nat
           /\ log[i].kind = "Claimed" => log[i].arg \in Roots
           /\ log[i].kind = "Challenged" => log[i].arg \in Addresses
<1>1. log[i] \in Event
  BY ElementOfSeq, LenProperties DEF ChainsOK, ChainsTypeOK
<1> QED
  BY <1>1 DEF Event, ChainsOK, EventsTyped

LEMMA HandleTyped ==
    ASSUME Typed, NEW i \in idx.queue,
           HandleSnapshotSent(i) \/ HandleClaimed(i) \/ HandleUnknown(i)
             \/ Begin(i) \/ BeginChallenged(i)
    PROVE  Typed'
<1>1. tasks \in SUBSET Task /\ IsFiniteSet(tasks) /\ ChainsOK
      /\ claims \in [Epochs -> ClaimData \cup {NoClaim}]
  BY DEF Typed, ProcessTypeOK
<1>2. \A s \in Sides : Delivers(s, i) => Running /\ ScanStateOK(Handled(i))
  BY HandledOK DEF Delivers
<1>3. Delivers("outbox", i) => i \in DOMAIN log
  BY DEF Delivers, Typed, ScanOK
<1>4. indexerFrame
  BY DEF HandleSnapshotSent, HandleClaimed, HandleUnknown, Begin, BeginChallenged
<1>5. /\ UNCHANGED <<chainVars, bootVars>>
      /\ {"Duplicate claim", "claim not found"} \subseteq Panics
  BY <1>4 DEF indexerFrame, Panics
<1>6. CASE HandleSnapshotSent(i)
  <2>1. Delivers("inbox", i) /\ i \in DOMAIN sent
    BY <1>6 DEF HandleSnapshotSent, Delivers, Typed, ScanOK
  <2>2. sent[i].epoch \in Epochs /\ sent[i].ts \in Nat /\ i \in Nat
    <3>1. sent \in Seq(Message)
      BY <1>1 DEF ChainsOK, ChainsTypeOK
    <3>2. sent[i] \in Message /\ i \in Nat
      BY <2>1, <3>1, ElementOfSeq, LenProperties
    <3> QED
      BY <3>2 DEF Message
  <2>3. Running /\ ScanStateOK(Handled(i))
    BY <1>2, <2>1 DEF Sides
  <2>4. CASE Proceed(Handled(i))
    BY <1>4, <2>3, <2>4, ProceedTyped
  <2> DEFINE m == sent[i]
             ts == AddTask(tasks, m.epoch, "ExecuteRelay", m.ts + RelayDelay, i)
  <2>5. CASE Schedule(ts, Handled(i))
    <3>1. "ExecuteRelay" \in Kinds /\ m.ts + RelayDelay \in Nat
      BY <2>2, ProcessAssumption DEF Kinds
    <3>2. ts \in SUBSET Task /\ IsFiniteSet(ts)
      BY <1>1, <2>2, <3>1, AddTaskType
    <3> HIDE DEF ts
    <3> QED
      BY <1>4, <2>3, <2>5, <3>2, ScheduleTyped
  <2> QED
    BY <1>6, <2>4, <2>5 DEF HandleSnapshotSent
<1>7. CASE HandleClaimed(i)
  <2> DEFINE e == log[i].epoch
             cs == StoreClaim(claims, e, NewClaim(log[i].arg, log[i].ts))
             ts == AddTask(tasks, e, "ValidateClaim", log[i].ts, 0)
  <2>1. /\ Delivers("outbox", i) /\ e \in Epochs /\ log[i].ts \in Nat
        /\ log[i].arg \in Roots
    BY <1>1, <1>3, <1>7, EventType DEF HandleClaimed
  <2>2. Running /\ ScanStateOK(Handled(i))
    BY <1>2, <2>1 DEF Sides
  <2>3. CASE Proceed(Handled(i))
    BY <1>4, <2>2, <2>3, ProceedTyped
  <2>4. CASE Panic("Duplicate claim")
    BY <1>5, <2>4, PanicTyped
  <2>5. CASE Commit(cs, {tasks}, ts, Handled(i))
    <3>1. NewClaim(log[i].arg, log[i].ts) \in ClaimData
      BY <2>1 DEF NewClaim, ClaimData, Parties, Addresses
    <3>2. cs \in [Epochs -> ClaimData \cup {NoClaim}]
      BY <1>1, <3>1 DEF StoreClaim
    <3>3. ts \in SUBSET Task /\ IsFiniteSet(ts)
      BY <1>1, <2>1, AddTaskType DEF Kinds
    <3>4. \A u \in {tasks} : u \in SUBSET Task /\ IsFiniteSet(u)
      BY <1>1
    <3> HIDE DEF cs, ts
    <3> QED
      BY <1>4, <2>2, <2>5, <3>2, <3>3, <3>4, CommitTyped
  <2> QED
    BY <1>7, <2>3, <2>4, <2>5 DEF HandleClaimed
<1>8. CASE HandleUnknown(i)
  <2>1. Running /\ ScanStateOK(Handled(i))
    BY <1>2, <1>8 DEF HandleUnknown, Sides
  <2> QED
    BY <1>4, <1>5, <1>8, <2>1, ProceedTyped, PanicTyped DEF HandleUnknown
<1>9. CASE Begin(i)
  <2> DEFINE v == IF claims[log[i].epoch].root = "correct" THEN "Claimer" ELSE "Challenger"
  <2>1. Running /\ v \in Parties
    BY <1>9 DEF Begin, Delivers, Parties
  <2>2. ScanStateOK(Awaiting(i)) /\ ScanStateOK([Awaiting(i) EXCEPT !.verdict = v])
    BY <1>9, <2>1, AwaitingOK DEF Begin
  <2>3. Proceed(Awaiting(i)) \/ Proceed([Awaiting(i) EXCEPT !.verdict = v])
    BY <1>9 DEF Begin
  <2> QED
    BY <1>4, <2>1, <2>2, <2>3, ProceedTyped
<1>10. CASE BeginChallenged(i)
  <2> DEFINE e == log[i].epoch
             cs == [claims EXCEPT ![e].challenger = log[i].arg]
             ts == Invalidate(tasks, e, Doomed)
  <2>1. /\ Delivers("outbox", i) /\ Running /\ e \in Epochs /\ log[i].arg \in Addresses
        /\ claims[e] \in ClaimData
    BY <1>1, <1>3, <1>10, EventType DEF BeginChallenged, Exists, Delivers
  <2>2. "None" \in Parties
    BY DEF Parties
  <2>3. ScanStateOK(Awaiting(i))
    BY <2>1, <2>2, AwaitingOK
  <2>4. cs \in [Epochs -> ClaimData \cup {NoClaim}]
    BY <1>1, <2>1 DEF ClaimData
  <2>5. ts \in SUBSET Task /\ IsFiniteSet(ts)
    BY <1>1, InvalidateType
  <2>6. \A u \in {tasks} : u \in SUBSET Task /\ IsFiniteSet(u)
    BY <1>1
  <2>7. Commit(cs, {tasks}, ts, Awaiting(i))
    BY <1>10 DEF BeginChallenged
  <2> HIDE DEF cs, ts
  <2> QED
    BY <1>4, <2>1, <2>3, <2>4, <2>5, <2>6, <2>7, CommitTyped
<1> QED
  BY <1>6, <1>7, <1>8, <1>9, <1>10

LEMMA FinishTyped ==
    ASSUME Typed, FinishVerificationStarted \/ FinishChallenged \/ FinishVerified
    PROVE  Typed'
<1> DEFINE ev == log[idx.at]
<1>1. tasks \in SUBSET Task /\ IsFiniteSet(tasks) /\ ChainsOK
      /\ claims \in [Epochs -> ClaimData \cup {NoClaim}] /\ idx.verdict \in Parties
  BY DEF Typed, ProcessTypeOK, Indexing
<1>2. Running /\ idx.phase = "await" /\ indexerFrame
  BY DEF FinishVerificationStarted, FinishChallenged, FinishVerified, Awaits
<1>3. idx.at \in DOMAIN log
  BY <1>2 DEF Typed, ScanOK
<1>4. ev.epoch \in Epochs /\ ev.ts \in Nat
  BY <1>1, <1>3, EventType
<1>5. ScanStateOK(Resumed)
  BY ResumedOK
<1>6. "Cannot update claim" \in Panics /\ UNCHANGED <<chainVars, bootVars>>
  BY <1>2 DEF Panics, indexerFrame
<1>7. Exists(claims, ev.epoch) => claims[ev.epoch] \in ClaimData
  BY <1>1, <1>4 DEF Exists
<1>8. ASSUME NEW kinds PROVE LET u == Invalidate(tasks, ev.epoch, kinds)
                             IN  u \in SUBSET Task /\ IsFiniteSet(u)
  BY <1>1, InvalidateType
<1>9. CASE FinishVerificationStarted
  <2> DEFINE without == Invalidate(tasks, ev.epoch, {"StartVerification"})
             cs == [claims EXCEPT ![ev.epoch].verification = ev.ts]
             after == ev.ts + ChallengePeriod + Slack
             ts == AddTask(without, ev.epoch, "VerifySnapshot", after, 0)
  <2>1. CASE Panic("Cannot update claim")
    BY <1>6, <2>1, PanicTyped
  <2>2. CASE Exists(claims, ev.epoch) /\ Commit(cs, {tasks, without}, ts, Resumed)
    <3>1. cs \in [Epochs -> ClaimData \cup {NoClaim}]
      BY <1>1, <1>4, <1>7, <2>2 DEF ClaimData
    <3>2. without \in SUBSET Task /\ IsFiniteSet(without)
      BY <1>8
    <3>3. after \in Nat /\ "VerifySnapshot" \in Kinds /\ 0 \in Nat
      BY <1>4, ChainsAssumption, ProcessAssumption DEF Kinds
    <3> HIDE DEF without, after
    <3>4. ts \in SUBSET Task /\ IsFiniteSet(ts)
      BY <1>4, <3>2, <3>3, AddTaskType
    <3>5. \A u \in {tasks, without} : u \in SUBSET Task /\ IsFiniteSet(u)
      BY <1>1, <3>2
    <3> HIDE DEF cs, ts
    <3> QED
      BY <1>2, <1>5, <2>2, <3>1, <3>4, <3>5, CommitTyped
  <2> QED
    BY <1>9, <2>1, <2>2 DEF FinishVerificationStarted
<1>10. CASE FinishChallenged
  <2> DEFINE ts == AddTask(tasks, ev.epoch, "SendSnapshot", ev.ts, 0)
  <2>1. ts \in SUBSET Task /\ IsFiniteSet(ts)
    BY <1>1, <1>4, AddTaskType DEF Kinds
  <2>2. Schedule(ts, Resumed)
    BY <1>10 DEF FinishChallenged
  <2> HIDE DEF ts
  <2> QED
    BY <1>2, <1>5, <2>1, <2>2, ScheduleTyped
<1>11. CASE FinishVerified
  <2> DEFINE without == Invalidate(tasks, ev.epoch, Doomed \cup {"ExecuteRelay"})
             cs == [claims EXCEPT ![ev.epoch].honest = idx.verdict]
             ts == AddTask(without, ev.epoch, "WithdrawDeposit", ev.ts, 0)
  <2>1. CASE Panic("Cannot update claim")
    BY <1>6, <2>1, PanicTyped
  <2>2. CASE Exists(claims, ev.epoch) /\ Commit(cs, {tasks, without}, ts, Resumed)
    <3>1. cs \in [Epochs -> ClaimData \cup {NoClaim}]
      BY <1>1, <1>4, <1>7, <2>2 DEF ClaimData
    <3>2. without \in SUBSET Task /\ IsFiniteSet(without)
      BY <1>8
    <3> HIDE DEF without
    <3>3. ts \in SUBSET Task /\ IsFiniteSet(ts)
      BY <1>4, <3>2, AddTaskType DEF Kinds
    <3>4. \A u \in {tasks, without} : u \in SUBSET Task /\ IsFiniteSet(u)
      BY <1>1, <3>2
    <3> HIDE DEF cs, ts
    <3> QED
      BY <1>2, <1>5, <2>2, <3>1, <3>3, <3>4, CommitTyped
  <2> QED
    BY <1>11, <2>1, <2>2 DEF FinishVerified
<1> QED
  BY <1>9, <1>10, <1>11

LEMMA IndexerTyped ==
    ASSUME Typed, IndexerStep \/ IndexerFault
    PROVE  Typed'
<1>1. CASE HandlerFails \/ TargetSearchFailed
  BY <1>1, PanicTyped DEF HandlerFails, TargetSearchFailed, Panics, indexerFrame
<1>2. CASE Handle
  BY <1>2, HandleTyped, FinishTyped DEF Handle
<1>3. CASE ScanNothing \/ ScanChunk \/ ScanFailed \/ FinishChunk
  BY <1>3, ScanTyped
<1> QED
  BY <1>1, <1>2, <1>3 DEF IndexerStep, IndexerFault
(* A step of the dispatcher, with or without a transaction. *)
LEMMA DispatcherMoveTyped ==
    ASSUME Typed, NEW x \in Dispatching, x.phase \in Busy => HoldsTask(x),
           disp' = x, FilesOK', ChainsOK', Grows, dispatcherFrame,
           UNCHANGED <<route, idx>>
    PROVE  Typed'
<1>1. ProcessTypeOK'
  BY DEF Typed, ProcessTypeOK, FilesOK, dispatcherFrame, bootVars
<1>2. ScanOK' /\ PassOK'
  BY DEF Typed, ScanOK, PassOK, dispatcherFrame, Running, Grows
<1> QED
  BY <1>1, <1>2 DEF Typed, FilesOK

LEMMA SilentTyped ==
    ASSUME Typed, noTransaction
    PROVE  ChainsOK' /\ Grows
BY DEF Typed, ChainsOK, ChainsTypeOK, EventsTyped, chainVars, noTransaction, Grows

LEMMA PassType ==
    ASSUME NEW ready \in SUBSET Task, NEW now \in Nat
    PROVE  /\ Pass(ready, now) \in Dispatching
           /\ Pass(ready, now).phase \notin Busy
           /\ Pass(ready, now).ready = ready
BY DEF Pass, IdleDispatcher, Dispatching, Phases, Results, Busy

LEMMA EndTyped ==
    ASSUME Typed, Complete \/ Reschedule \/ Keep \/ Forget,
           dispatcherFrame, noTransaction
    PROVE  Typed'
<1>1. tasks \in SUBSET Task /\ IsFiniteSet(tasks)
      /\ claims \in [Epochs -> ClaimData \cup {NoClaim}]
      /\ disp.ready \in SUBSET Task /\ disp.now \in Nat
  BY DEF Typed, ProcessTypeOK, Dispatching
<1>2. \/ disp' = Pass(disp.ready, disp.now) /\ UNCHANGED <<route, idx>>
      \/ Die("down")
  BY DEF Complete, Reschedule, Keep, Forget, Succeed, MoveOn
<1>3. claims' \in [Epochs -> ClaimData \cup {NoClaim}]
  BY <1>1 DEF Complete, Reschedule, Keep, Forget, RemoveClaim
<1>4. disp.now + RetryDelay \in Nat
  BY <1>1, ProcessAssumption
<1>5. tasks' \in SUBSET Task /\ IsFiniteSet(tasks')
  <2>1. CASE Keep
    BY <1>1, <2>1 DEF Keep
  <2>2. CASE Complete \/ Forget
    BY <1>1, <2>2, RemoveTaskType DEF Complete, Forget, Succeed
  <2>3. CASE Reschedule
    <3> DEFINE later == RescheduleTask(tasks, disp.task, disp.now + RetryDelay)
    <3>1. later \in SUBSET Task /\ IsFiniteSet(later)
      BY <1>1, <1>4, RescheduleTaskType
    <3>2. tasks' = RemoveTask(later, disp.task) \/ tasks' = later
      BY <2>3 DEF Reschedule, Succeed
    <3> HIDE DEF later
    <3> QED
      BY <3>1, <3>2, RemoveTaskType
  <2> QED
    BY <2>1, <2>2, <2>3
<1>6. FilesOK'
  BY <1>3, <1>5 DEF FilesOK
<1>7. CASE Die("down")
  BY <1>6, <1>7, DieTyped DEF dispatcherFrame, noTransaction, bootVars
<1>8. CASE disp' = Pass(disp.ready, disp.now) /\ UNCHANGED <<route, idx>>
  BY <1>1, <1>6, <1>8, PassType, SilentTyped, DispatcherMoveTyped
<1> QED
  BY <1>2, <1>7, <1>8

(* Waiting for the next answer, the files as they are. *)
LEMMA WaitTyped ==
    ASSUME Typed, NEW phase \in Phases, NEW claim \in MaybeClaim,
           disp.task \in Task, disp.task.kind # "SendSnapshot",
           phase = "compare" => claim # NoClaim,
           Wait(phase, claim), dispatcherFrame, noTransaction
    PROVE  Typed'
<1>1. disp' \in Dispatching /\ HoldsTask(disp')
  BY DEF Wait, Typed, ProcessTypeOK, Dispatching, MaybeClaim, HoldsTask
<1>2. FilesOK' /\ UNCHANGED <<route, idx>>
  BY DEF Wait, FilesOK, Typed, ProcessTypeOK
<1> QED
  BY <1>1, <1>2, SilentTyped, DispatcherMoveTyped

LEMMA TaskPanicTyped ==
    ASSUME Typed, NEW why \in Panics, Die(why), UNCHANGED <<tasks, claims>>,
           dispatcherFrame, noTransaction
    PROVE  Typed'
<1>1. FilesOK'
  BY DEF FilesOK, Typed, ProcessTypeOK
<1> QED
  BY <1>1, DieTyped DEF dispatcherFrame, noTransaction, bootVars

LEMMA PollTyped ==
    ASSUME Typed, Poll \/ ReadNow \/ ReadNowFailed
    PROVE  Typed'
<1>1. /\ dispatcherFrame /\ noTransaction /\ UNCHANGED <<tasks, claims, route, idx>>
      /\ disp \in Dispatching /\ tasks \in SUBSET Task /\ clock \in Nat
  BY DEF Poll, ReadNow, ReadNowFailed, Typed, ProcessTypeOK, ChainsOK, ChainsTypeOK
<1>2. disp' \in Dispatching /\ disp'.phase \notin Busy
  <2>1. CASE Poll
    BY <1>1, <2>1 DEF Poll, Dispatching, Phases, Busy
  <2>2. CASE ReadNow
    <3>1. {t \in disp.ready : clock >= t.after} \in SUBSET Task
      BY <1>1 DEF Dispatching
    <3> QED
      BY <1>1, <2>2, <3>1, PassType DEF ReadNow
  <2>3. CASE ReadNowFailed
    BY <2>3, IdleType DEF ReadNowFailed, Busy
  <2> QED
    BY <2>1, <2>2, <2>3
<1>3. FilesOK'
  BY <1>1 DEF FilesOK, Typed, ProcessTypeOK
<1> QED
  BY <1>1, <1>2, <1>3, SilentTyped, DispatcherMoveTyped

LEMMA BeginTaskTyped ==
    ASSUME Typed, NEW t \in disp.ready, BeginTask(t)
    PROVE  Typed'
<1> DEFINE claim == claims[t.epoch]
           taken == [disp EXCEPT !.ready = @ \ {t}, !.task = t]
<1>1. /\ dispatcherFrame /\ noTransaction /\ disp.phase = "next"
      /\ disp \in Dispatching /\ t \in Task /\ disp.now \in Nat
      /\ disp.ready \in SUBSET Task
      /\ tasks \in SUBSET Task /\ IsFiniteSet(tasks)
      /\ claims \in [Epochs -> ClaimData \cup {NoClaim}]
  BY DEF BeginTask, Typed, ProcessTypeOK, Dispatching
<1>2. claim \in MaybeClaim
  BY <1>1 DEF MaybeClaim, Task
<1>3. ASSUME NEW phase \in Phases, NEW c \in MaybeClaim,
             disp' = [taken EXCEPT !.phase = phase, !.claim = c],
             phase \in {"send", "compare"} => c # NoClaim,
             UNCHANGED <<tasks, claims, route, idx>>
      PROVE  Typed'
  <2>1. disp' \in Dispatching /\ HoldsTask(disp')
    BY <1>1, <1>3 DEF Dispatching, MaybeClaim, HoldsTask
  <2>2. FilesOK'
    BY <1>1, <1>3 DEF FilesOK
  <2> QED
    BY <1>1, <1>3, <2>1, <2>2, SilentTyped, DispatcherMoveTyped
<1>4. CASE /\ t.kind \in DOMAIN FirstWait
           /\ disp' = [taken EXCEPT !.phase = FirstWait[t.kind]]
           /\ UNCHANGED <<tasks, claims, route, idx>>
  <2>1. FirstWait[t.kind] \in Phases /\ FirstWait[t.kind] \notin {"send", "compare"}
    BY <1>4 DEF FirstWait, Phases
  <2>2. disp' = [taken EXCEPT !.phase = FirstWait[t.kind], !.claim = disp.claim]
    BY <1>1, <1>4 DEF Dispatching
  <2>3. disp.claim \in MaybeClaim
    BY <1>1 DEF Dispatching, MaybeClaim
  <2> QED
    BY <1>3, <1>4, <2>1, <2>2, <2>3
<1>5. CASE Die("No claim found") /\ UNCHANGED <<tasks, claims>>
  BY <1>1, <1>5, TaskPanicTyped DEF Panics
<1>6. CASE /\ tasks' = RemoveTask(tasks, t)
           /\ disp' = Pass(disp.ready \ {t}, disp.now)
           /\ UNCHANGED <<claims, route, idx>>
  <2>1. FilesOK'
    BY <1>1, <1>6, RemoveTaskType DEF FilesOK
  <2>2. disp.ready \ {t} \in SUBSET Task
    BY <1>1
  <2> QED
    BY <1>1, <1>6, <2>1, <2>2, PassType, SilentTyped, DispatcherMoveTyped
<1>7. CASE /\ disp' = [taken EXCEPT !.phase = "send", !.claim = claim] /\ claim # NoClaim
           /\ UNCHANGED <<tasks, claims, route, idx>>
  <2>1. "send" \in Phases
    BY DEF Phases
  <2> QED
    BY <1>2, <1>3, <1>7, <2>1
<1> QED
  BY <1>4, <1>5, <1>6, <1>7 DEF BeginTask
(* Every action of a task under way: what it does besides its transaction. *)
Ends == Complete \/ Reschedule \/ Keep \/ Forget

Pauses == /\ disp.task.kind # "SendSnapshot"
          /\ \E phase \in Phases, claim \in MaybeClaim :
                (phase = "compare" => claim # NoClaim) /\ Wait(phase, claim)

TaskPanics == \E why \in Panics : Die(why) /\ UNCHANGED <<tasks, claims>>

LEMMA TaskStepTyped ==
    ASSUME Typed, disp.task \in Task, Ends \/ Pauses \/ TaskPanics,
           dispatcherFrame, noTransaction
    PROVE  Typed'
BY EndTyped, WaitTyped, TaskPanicTyped DEF Ends, Pauses, TaskPanics

LEMMA CheckTyped ==
    ASSUME Typed,
           \/ CheckFinality \/ CheckHash \/ CheckSpent
           \/ RequestFailed \/ BlockSearchFailed \/ OutOfFunds
    PROVE  Typed'
<1>1. dispatcherFrame /\ noTransaction
  BY DEF CheckFinality, CheckHash, CheckSpent, RequestFailed, BlockSearchFailed, OutOfFunds
<1>2. disp.phase \in Busy
  BY DEF CheckFinality, CheckHash, CheckSpent, RequestFailed, BlockSearchFailed, OutOfFunds,
         Doing, Busy
<1>3. disp.task \in Task /\ disp.task.epoch \in Epochs
  BY <1>2 DEF Typed, PassOK, HoldsTask, Task
<1>4. claims[disp.task.epoch] \in MaybeClaim /\ NoClaim \in MaybeClaim
  BY <1>3 DEF Typed, ProcessTypeOK, MaybeClaim
<1>5. /\ {"compare", "send"} \subseteq Phases
      /\ {"No claim found", "honest party not determined", "rpc"} \subseteq Panics
  BY DEF Phases, Panics
<1>6. Ends \/ Pauses \/ TaskPanics
  <2>1. CASE CheckFinality
    BY <1>4, <1>5, <2>1 DEF CheckFinality, Doing, Ends, Pauses, TaskPanics
  <2>2. CASE CheckHash
    BY <1>4, <1>5, <2>2 DEF CheckHash, Doing, Ends, Pauses, TaskPanics
  <2>3. CASE CheckSpent
    BY <1>4, <1>5, <2>3 DEF CheckSpent, Doing, Ends, Pauses
  <2>4. CASE RequestFailed \/ OutOfFunds
    BY <2>4 DEF RequestFailed, OutOfFunds, Ends
  <2>5. CASE BlockSearchFailed
    BY <1>5, <2>5 DEF BlockSearchFailed, TaskPanics
  <2> QED
    BY <2>1, <2>2, <2>3, <2>4, <2>5
<1> QED
  BY <1>1, <1>3, <1>6, TaskStepTyped

LEMMA JudgeTyped ==
    ASSUME Typed, Judge
    PROVE  Typed'
<1> DEFINE e == disp.task.epoch
           start == AddTask(tasks, e, "StartVerification",
                            disp.now + StartDelay + Slack, 0)
           challenge == AddTask(tasks, e, "Challenge", disp.now, 0)
<1>1. /\ dispatcherFrame /\ noTransaction /\ claims' = claims
      /\ disp.task \in Task /\ e \in Epochs
      /\ disp \in Dispatching /\ disp.now \in Nat /\ disp.ready \in SUBSET Task
      /\ tasks \in SUBSET Task /\ IsFiniteSet(tasks)
      /\ claims \in [Epochs -> ClaimData \cup {NoClaim}]
  BY DEF Judge, Doing, Busy, Typed, PassOK, HoldsTask, ProcessTypeOK, Dispatching, Task
<1>2. disp.now + StartDelay + Slack \in Nat
  BY <1>1, ChainsAssumption, ProcessAssumption
<1>3. /\ start \in SUBSET Task /\ IsFiniteSet(start)
      /\ challenge \in SUBSET Task /\ IsFiniteSet(challenge)
  <2>1. {"StartVerification", "Challenge"} \subseteq Kinds /\ 0 \in Nat
    BY DEF Kinds
  <2> QED
    BY <1>1, <1>2, <2>1, AddTaskType
<1>4. Succeed(start) \/ Succeed(challenge)
  BY DEF Judge
<1> HIDE DEF start, challenge
<1>5. FilesOK'
  BY <1>1, <1>3, <1>4, RemoveTaskType DEF Succeed, FilesOK
<1>6. CASE Die("down")
  BY <1>1, <1>5, <1>6, DieTyped DEF dispatcherFrame, noTransaction, bootVars
<1>7. CASE disp' = Pass(disp.ready, disp.now) /\ UNCHANGED <<route, idx>>
  BY <1>1, <1>5, <1>7, PassType, SilentTyped, DispatcherMoveTyped
<1> QED
  BY <1>4, <1>6, <1>7 DEF Succeed, MoveOn

LEMMA AnsweredTyped ==
    ASSUME Typed, disp.phase = "send", NEW result \in Results, Answered(result),
           dispatcherFrame, ChainsOK', Grows, UNCHANGED <<tasks, claims, route, idx>>
    PROVE  Typed'
<1>1. disp' \in Dispatching /\ HoldsTask(disp')
  <2>1. disp \in Dispatching /\ disp.task \in Task /\ "result" \in Phases
    BY DEF Typed, ProcessTypeOK, PassOK, HoldsTask, Busy, Phases
  <2> QED
    BY <2>1 DEF Answered, Dispatching, HoldsTask
<1>2. FilesOK'
  BY DEF FilesOK, Typed, ProcessTypeOK
<1> QED
  BY <1>1, <1>2, DispatcherMoveTyped

LEMMA SendTyped ==
    ASSUME Typed, Land \/ Revert
    PROVE  Typed'
<1>1. /\ disp.phase = "send" /\ dispatcherFrame
      /\ UNCHANGED <<tasks, claims, route, idx>>
  BY DEF Land, Revert
<1>2. disp.task \in Task /\ disp.task.epoch \in Epochs
      /\ disp.claim \in MaybeClaim
  BY <1>1
  DEF Typed, ProcessTypeOK, PassOK, HoldsTask, Busy, Task, Dispatching, MaybeClaim
<1>3. {"ok", "error", "invalid"} \subseteq Results
  BY DEF Results
<1>4. CASE Revert
  BY <1>1, <1>3, <1>4, SilentTyped, AnsweredTyped DEF Revert
<1>5. CASE Land
  <2>1. disp.task.kind = "SendSnapshot" => disp.claim # NoClaim
    BY <1>1 DEF Typed, PassOK, HoldsTask, Busy
  <2>2. ChainStep(Epochs)
    BY <1>2, <1>5, <2>1
    DEF Land, Transaction, ChainStep, Addresses, Relay, CanRelay, MaybeClaim
  <2>3. ChainsOK' /\ Grows
    BY <2>2, ChainStepType DEF Typed
  <2> QED
    BY <1>1, <1>3, <1>5, <2>3, AnsweredTyped DEF Land
<1> QED
  BY <1>4, <1>5

LEMMA ResultTyped ==
    ASSUME Typed,
           Confirmed \/ ChallengeFailed \/ StartVerificationFailed
             \/ VerifySnapshotFailed \/ WithdrawFailed \/ SendFailed \/ RelayFailed
    PROVE  Typed'
<1>1. dispatcherFrame /\ noTransaction
  BY DEF Confirmed, ChallengeFailed, StartVerificationFailed, VerifySnapshotFailed,
         WithdrawFailed, SendFailed, RelayFailed
<1>2. Ends
  BY DEF Ends, Confirmed, ChallengeFailed, StartVerificationFailed,
         VerifySnapshotFailed, DropIfEmitted, WithdrawFailed, SendFailed, RelayFailed,
         RescheduleIfInvalid
<1> QED
  BY <1>1, <1>2, EndTyped DEF Ends

LEMMA DispatcherTyped ==
    ASSUME Typed, DispatcherStep \/ DispatcherFault
    PROVE  Typed'
<1>1. CASE Work \/ DispatcherFault
  BY <1>1, PollTyped, BeginTaskTyped, CheckTyped, JudgeTyped DEF Work, DispatcherFault
<1>2. CASE Sending
  BY <1>2, SendTyped, ResultTyped DEF Sending
<1> QED
  BY <1>1, <1>2 DEF DispatcherStep

-----------------------------------------------------------------------------

LEMMA InitTyped == Init => Typed
<1> SUFFICES ASSUME Init PROVE Typed
  OBVIOUS
<1> USE DEF Init, ChainsInit, ProcessInit
<1>1. ChainsOK
  BY EmptySeq DEF ChainsOK, ChainsTypeOK, EventsTyped
<1>2. IsFiniteSet(tasks)
  BY FS_EmptySet
<1>3. ProcessTypeOK
  BY IdleType DEF ProcessTypeOK
<1>4. ScanOK /\ PassOK
  BY IdleType DEF ScanOK, PassOK, Running, Busy
<1> QED
  BY <1>1, <1>2, <1>3, <1>4 DEF Typed

LEMMA NextTyped == Typed /\ [Next]_vars => Typed'
<1> SUFFICES ASSUME Typed, [Next]_vars PROVE Typed'
  OBVIOUS
<1>1. CASE Next
  BY <1>1, EnvironmentTyped, StartTyped, KillTyped, IndexerTyped, DispatcherTyped
  DEF Next
<1>2. CASE UNCHANGED vars
  BY <1>2
  DEF vars, chainVars, storeVars, procVars, bootVars, Typed, ChainsOK, ChainsTypeOK,
      EventsTyped, ProcessTypeOK, ScanOK, PassOK, Running
<1> QED
  BY <1>1, <1>2

(* Every variable keeps its type, for every value of the constants: no     *)
(* subtraction falls below zero, no task loses its place in the schedule,  *)
(* no record is read that is not there.                                    *)
THEOREM TypeCorrect == Spec => []TypeOK
<1>1. Typed => TypeOK
  BY DEF Typed, ChainsOK, TypeOK
<1> QED
  BY <1>1, InitTyped, NextTyped, PTL DEF Spec

-----------------------------------------------------------------------------
(* Tasks are executed only in sync with what was final when the route was  *)
(* started.  The flag on_sync is a file and outlives the run that set it;  *)
(* catchup_target and what the scan of the inbox returned are memory.      *)

(* What was final when the route was started.                              *)
Due == Truncated(booted, Finality)

CaughtUp == \A s \in Sides : cursor[s] >= Due

(* What an indexer x in memory knows: no target is from before the start,  *)
(* a chunk does not take its cursor back, the inbox is done when said so.  *)
ScanAhead(x) ==
    /\ \A s \in Sides : x.target[s] = 0 \/ x.target[s] >= Due
    /\ x.phase # "query" => x.target[x.side] >= Due /\ x.to >= cursor[x.side]
    /\ x.inboxDone => x.side = "outbox" /\ cursor["inbox"] >= Due

Stopped == idx = IdleIndexer /\ disp = IdleDispatcher

InStep ==
    /\ booted <= clock
    /\ ~Running => Stopped
    /\ Running /\ onSync => CaughtUp
    /\ Running => ScanAhead(idx)
    /\ disp.phase # "idle" => Running /\ onSync

-----------------------------------------------------------------------------
(* Steps of the process.                                                   *)

LEMMA DueFinal ==
    ASSUME Typed, InStep
    PROVE  Due \in Nat /\ FinalBlock \in Nat /\ Due <= FinalBlock
BY ProcessAssumption
DEF Due, FinalBlock, Truncated, InStep, Typed, ChainsOK, ChainsTypeOK, ProcessTypeOK

(* Memory that was never used knows nothing wrong.                         *)
LEMMA DieInStep ==
    ASSUME Typed, InStep, NEW why \in {"down"} \cup Panics, Die(why),
           UNCHANGED <<clock, booted>>
    PROVE  InStep'
<1>1. route' # "up" /\ Stopped' /\ disp'.phase = "idle"
  BY IdleType DEF Die, Panics, Stopped
<1> QED
  BY <1>1 DEF InStep, Running

LEMMA StartInStep ==
    ASSUME Typed, InStep, FirstStart \/ Restart
    PROVE  InStep'
<1>1. Start /\ ~Running
  BY DEF FirstStart, Restart, Start, Running
<1>2. Stopped /\ Stopped' /\ booted' = clock /\ clock' = clock /\ ~onSync'
  BY <1>1 DEF Start, InStep, chainVars, Stopped
<1>3. idx'.target = [s \in Sides |-> 0] /\ idx'.phase = "query" /\ ~idx'.inboxDone
  BY <1>2 DEF Stopped, IdleIndexer
<1>4. disp'.phase = "idle"
  BY <1>2, IdleType DEF Stopped
<1>5. route' = "up"
  BY <1>1 DEF Start
<1>6. ScanAhead(idx)'
  BY <1>3 DEF ScanAhead
<1> QED
  BY <1>2, <1>4, <1>5, <1>6 DEF InStep, Running, Typed, ChainsOK, ChainsTypeOK

(* Whatever leaves the route and its indexer alone.                        *)
LEMMA ElsewhereInStep ==
    ASSUME Typed, InStep, clock' >= clock, clock' \in Nat,
           UNCHANGED <<booted, cursor, onSync, route, idx>>,
           disp' = disp \/ (Running /\ (disp'.phase # "idle" => onSync))
    PROVE  InStep'
<1>1. CASE Running
  <2>1. ScanAhead(idx)' /\ (onSync => CaughtUp')
    BY <1>1 DEF InStep, ScanAhead, CaughtUp, Due
  <2> QED
    BY <1>1, <2>1 DEF InStep, Running, Typed, ProcessTypeOK, ChainsOK, ChainsTypeOK
<1>2. CASE ~Running
  <2>1. Stopped' /\ disp'.phase = "idle"
    BY <1>2, IdleType DEF InStep, Stopped
  <2> QED
    BY <1>2, <2>1 DEF InStep, Running, Typed, ProcessTypeOK, ChainsOK, ChainsTypeOK
<1> QED
  BY <1>1, <1>2

LEMMA EnvironmentInStep ==
    ASSUME Typed, InStep, Environment
    PROVE  InStep'
<1>1. UNCHANGED <<booted, cursor, onSync, route, idx, disp>>
  BY DEF Environment, storeVars, procVars, bootVars
<1>2. clock' \in Nat
  BY EnvironmentTyped DEF Typed, ChainsOK, ChainsTypeOK
<1>3. clock' >= clock
  <2>1. clock \in Nat
    BY DEF Typed, ChainsOK, ChainsTypeOK
  <2>2. CASE Tick
    BY <2>1, <2>2 DEF Tick
  <2>3. CASE Others
    <3>1. clock' = clock
      BY <2>3 DEF Others, Claim, Challenge, StartVerification, VerifySnapshot, SendSnapshot,
                  Relay, WithdrawDeposit
    <3> QED
      BY <2>1, <3>1
  <2> QED
    BY <2>2, <2>3 DEF Environment
<1> QED
  BY <1>1, <1>2, <1>3, ElsewhereInStep

(* Every action of the dispatcher but Poll finds it awake.                 *)
LEMMA DispatcherInStep ==
    ASSUME Typed, InStep, DispatcherStep \/ DispatcherFault
    PROVE  InStep'
<1>1. Running /\ onSync
  <2>1. Running
    BY DEF DispatcherStep, DispatcherFault, Work, Sending, Poll, ReadNow, BeginTask,
           CheckFinality, Judge, CheckHash, CheckSpent, Doing, Failed, Land, Revert,
           Confirmed, ChallengeFailed, StartVerificationFailed, VerifySnapshotFailed,
           WithdrawFailed, SendFailed, RelayFailed, ReadNowFailed, RequestFailed, OutOfFunds,
           BlockSearchFailed
  <2>2. Poll \/ disp.phase # "idle"
    BY DEF DispatcherStep, DispatcherFault, Work, Sending, ReadNow, BeginTask,
           CheckFinality, Judge, CheckHash, CheckSpent, Doing, Failed, Land, Revert,
           Confirmed, ChallengeFailed, StartVerificationFailed, VerifySnapshotFailed,
           WithdrawFailed, SendFailed, RelayFailed, ReadNowFailed, RequestFailed, OutOfFunds,
           BlockSearchFailed
  <2> QED
    BY <2>1, <2>2 DEF Poll, InStep
<1>2. UNCHANGED <<booted, cursor, onSync>> /\ clock' = clock
  <2>1. dispatcherFrame
    BY DEF DispatcherStep, DispatcherFault, Work, Sending, Poll, ReadNow, BeginTask,
           CheckFinality, Judge, CheckHash, CheckSpent, Land, Revert,
           Confirmed, ChallengeFailed, StartVerificationFailed, VerifySnapshotFailed,
           WithdrawFailed, SendFailed, RelayFailed, ReadNowFailed, RequestFailed, OutOfFunds,
           BlockSearchFailed
  <2>2. noTransaction \/ Land
    BY DEF DispatcherStep, DispatcherFault, Work, Sending, Poll, ReadNow, BeginTask,
           CheckFinality, Judge, CheckHash, CheckSpent, Revert,
           Confirmed, ChallengeFailed, StartVerificationFailed, VerifySnapshotFailed,
           WithdrawFailed, SendFailed, RelayFailed, ReadNowFailed, RequestFailed, OutOfFunds,
           BlockSearchFailed
  <2>3. Land => clock' = clock
    BY DEF Land, Transaction, Challenge, StartVerification, VerifySnapshot, SendSnapshot,
           Relay, WithdrawDeposit
  <2> QED
    BY <2>1, <2>2, <2>3 DEF dispatcherFrame, noTransaction, chainVars, bootVars
<1>3. UNCHANGED <<route, idx>> \/ \E why \in {"down"} \cup Panics : Die(why)
  <2>1. CASE Poll \/ ReadNow \/ Land \/ Revert \/ ReadNowFailed
    BY <2>1 DEF Poll, ReadNow, Land, Revert, ReadNowFailed
  <2>2. ASSUME NEW t \in disp.ready, BeginTask(t)
        PROVE  UNCHANGED <<route, idx>> \/ \E why \in {"down"} \cup Panics : Die(why)
    <3>1. "No claim found" \in Panics
      BY DEF Panics
    <3> QED
      BY <2>2, <3>1 DEF BeginTask
  <2>3. CASE \/ CheckFinality \/ CheckHash \/ CheckSpent
             \/ RequestFailed \/ BlockSearchFailed \/ OutOfFunds
    <3>1. {"No claim found", "honest party not determined", "rpc"} \subseteq Panics
      BY DEF Panics
    <3> QED
      BY <2>3, <3>1
      DEF CheckFinality, CheckHash, CheckSpent, RequestFailed, BlockSearchFailed,
          OutOfFunds, Wait, Keep, Reschedule, Complete, Forget, Succeed, MoveOn
  <2>4. CASE Judge
    BY <2>4 DEF Judge, Succeed, MoveOn
  <2>5. CASE \/ Confirmed \/ ChallengeFailed \/ StartVerificationFailed
             \/ VerifySnapshotFailed \/ WithdrawFailed \/ SendFailed \/ RelayFailed
    BY <2>5
    DEF Confirmed, ChallengeFailed, StartVerificationFailed, VerifySnapshotFailed,
        DropIfEmitted, WithdrawFailed, SendFailed, RelayFailed, RescheduleIfInvalid,
        Keep, Reschedule, Complete, Forget, Succeed, MoveOn
  <2> QED
    BY <2>1, <2>2, <2>3, <2>4, <2>5 DEF DispatcherStep, DispatcherFault, Work, Sending
<1>4. clock' >= clock /\ clock' \in Nat
  BY <1>2 DEF Typed, ChainsOK, ChainsTypeOK
<1> QED
  BY <1>1, <1>2, <1>3, <1>4, ElsewhereInStep, DieInStep

-----------------------------------------------------------------------------
(* Steps of the indexer.                                                   *)

(* Inside a chunk nothing changes that InStep speaks of.                   *)
SameScan(x) ==
    /\ x.phase # "query" /\ x.side = idx.side /\ x.target = idx.target
    /\ x.to = idx.to /\ x.inboxDone = idx.inboxDone

LEMMA ChunkInStep ==
    ASSUME Typed, InStep, Running, idx.phase # "query", NEW x, SameScan(x), idx' = x,
           UNCHANGED <<clock, booted, cursor, onSync, route, disp>>
    PROVE  InStep'
<1>1. ScanAhead(idx)' /\ (onSync => CaughtUp')
  BY DEF InStep, ScanAhead, CaughtUp, Due, SameScan
<1> QED
  BY <1>1 DEF InStep, Running

LEMMA HandlerInStep ==
    ASSUME Typed, InStep, Running, idx.phase # "query", indexerFrame, NEW x, SameScan(x),
           \/ Proceed(x)
           \/ \E ts : Schedule(ts, x)
           \/ \E cs, torn, ts : Commit(cs, torn, ts, x)
           \/ \E why \in Panics : Panic(why)
    PROVE  InStep'
<1>1. UNCHANGED <<clock, booted>>
  BY DEF indexerFrame, chainVars, bootVars
<1>2. CASE idx' = x /\ UNCHANGED <<cursor, onSync, route, disp>>
  BY <1>1, <1>2, ChunkInStep
<1>3. CASE \E why \in {"down"} \cup Panics : Die(why)
  BY <1>1, <1>3, DieInStep
<1> QED
  BY <1>2, <1>3 DEF Proceed, Schedule, Commit, Panic, storeVars

LEMMA HandleInStep ==
    ASSUME Typed, InStep, Handle \/ HandlerFails \/ TargetSearchFailed
    PROVE  InStep'
<1>1. /\ idx \in Indexing
      /\ {"Duplicate claim", "claim not found", "Cannot update claim", "rpc"} \subseteq Panics
  BY DEF Typed, ProcessTypeOK, Panics
<1>2. CASE HandlerFails
  <2>1. Running /\ idx.phase # "query" /\ indexerFrame /\ SameScan(idx)
    BY <1>2 DEF HandlerFails, SameScan
  <2> QED
    BY <1>1, <1>2, <2>1, HandlerInStep DEF HandlerFails
<1>3. CASE TargetSearchFailed
  BY <1>1, <1>3, DieInStep DEF TargetSearchFailed, Panic, indexerFrame, chainVars, bootVars
<1>4. ASSUME NEW i \in idx.queue,
             HandleSnapshotSent(i) \/ HandleClaimed(i) \/ HandleUnknown(i)
               \/ Begin(i) \/ BeginChallenged(i)
      PROVE  InStep'
  <2>1. Running /\ idx.phase = "logs" /\ indexerFrame
    BY <1>4
    DEF HandleSnapshotSent, HandleClaimed, HandleUnknown, Begin, BeginChallenged, Delivers
  <2>2. /\ SameScan(Handled(i)) /\ SameScan(Awaiting(i))
        /\ \A v : SameScan([Awaiting(i) EXCEPT !.verdict = v])
    BY <1>1, <2>1 DEF SameScan, Handled, Awaiting, Indexing
  <2>3. CASE HandleSnapshotSent(i)
    BY <2>1, <2>2, <2>3, HandlerInStep DEF HandleSnapshotSent
  <2>4. CASE HandleClaimed(i)
    BY <1>1, <2>1, <2>2, <2>4, HandlerInStep DEF HandleClaimed
  <2>5. CASE HandleUnknown(i)
    BY <1>1, <2>1, <2>2, <2>5, HandlerInStep DEF HandleUnknown
  <2>6. CASE Begin(i)
    BY <2>1, <2>2, <2>6, HandlerInStep DEF Begin
  <2>7. CASE BeginChallenged(i)
    BY <2>1, <2>2, <2>7, HandlerInStep DEF BeginChallenged
  <2> QED
    BY <1>4, <2>3, <2>4, <2>5, <2>6, <2>7
<1>5. CASE FinishVerificationStarted \/ FinishChallenged \/ FinishVerified
  <2>1. Running /\ idx.phase = "await" /\ indexerFrame
    BY <1>5 DEF FinishVerificationStarted, FinishChallenged, FinishVerified, Awaits
  <2>2. SameScan(Resumed)
    BY <1>1 DEF SameScan, Resumed, Indexing
  <2>3. CASE FinishVerificationStarted
    BY <1>1, <2>1, <2>2, <2>3, HandlerInStep DEF FinishVerificationStarted
  <2>4. CASE FinishChallenged
    BY <2>1, <2>2, <2>4, HandlerInStep DEF FinishChallenged
  <2>5. CASE FinishVerified
    BY <1>1, <2>1, <2>2, <2>5, HandlerInStep DEF FinishVerified
  <2> QED
    BY <1>5, <2>3, <2>4, <2>5
<1> QED
  BY <1>2, <1>3, <1>4, <1>5 DEF Handle

(* What scan_once does with the result of a scan of side s.                *)
LEMMA ResultInStep ==
    ASSUME Typed, InStep, Running, NEW done \in BOOLEAN,
           idx'.phase = "query", idx'.side = IF idx.side = "inbox" THEN "outbox" ELSE "inbox",
           idx'.inboxDone = (idx.side = "inbox" /\ done),
           \A r \in Sides : idx'.target[r] = 0 \/ idx'.target[r] >= Due,
           \A r \in Sides : cursor[r] \in Nat /\ cursor'[r] \in Nat /\ cursor'[r] >= cursor[r],
           done => cursor'[idx.side] >= Due,
           onSync' = (onSync \/ SyncReached(idx.side, done)),
           UNCHANGED <<clock, booted, route, disp>>
    PROVE  InStep'
<1>1. Due \in Nat /\ Due' = Due /\ idx.side \in Sides
  BY DueFinal DEF Due, Typed, ProcessTypeOK, Indexing
<1>2. ASSUME NEW r \in Sides, cursor[r] >= Due PROVE cursor'[r] >= Due
  BY <1>1, <1>2
<1>3. ScanAhead(idx)'
  BY <1>1 DEF ScanAhead, Sides
<1>4. onSync' => CaughtUp'
  <2>1. CASE onSync
    BY <1>1, <1>2, <2>1 DEF InStep, CaughtUp
  <2>2. CASE SyncReached(idx.side, done)
    <3>1. done /\ idx.side = "outbox" /\ cursor["inbox"] >= Due
      BY <2>2 DEF SyncReached, InStep, ScanAhead
    <3> QED
      BY <1>1, <1>2, <3>1 DEF CaughtUp, Sides
  <2> QED
    BY <2>1, <2>2
<1> QED
  BY <1>3, <1>4 DEF InStep, Running

LEMMA ScanInStep ==
    ASSUME Typed, InStep, ScanNothing \/ ScanChunk \/ ScanFailed \/ FinishChunk
    PROVE  InStep'
<1> DEFINE s == idx.side
<1>1. /\ Running /\ idx \in Indexing /\ s \in Sides /\ indexerFrame
      /\ \A r \in Sides : cursor[r] \in Nat
      /\ cursor \in [Sides -> Nat \cup {NoBlock}]
  BY DEF ScanNothing, ScanChunk, ScanFailed, FinishChunk, Typed, ProcessTypeOK, ScanOK, Indexing
<1>2. UNCHANGED <<clock, booted, route, disp>>
  BY <1>1 DEF indexerFrame, chainVars, bootVars, ScanNothing, ScanChunk, ScanFailed, FinishChunk
<1>3. ScanAhead(idx) /\ Due \in Nat /\ idx.target[s] \in Nat /\ idx.to \in Nat
  BY <1>1, DueFinal DEF InStep, Indexing
<1>4. Target(s) \in Nat /\ Target(s) >= Due
  BY <1>1, <1>3, DueFinal DEF Target, TargetReached, ScanAhead
<1>5. ASSUME NEW done \in BOOLEAN
      PROVE  /\ ScanResult(s, done).phase = "query"
             /\ ScanResult(s, done).side = IF s = "inbox" THEN "outbox" ELSE "inbox"
             /\ ScanResult(s, done).inboxDone = (s = "inbox" /\ done)
             /\ ScanResult(s, done).target \in [Sides -> Nat]
             /\ \A r \in Sides : \/ ScanResult(s, done).target[r] = 0
                               \/ ScanResult(s, done).target[r] >= Due
  BY <1>1, <1>3 DEF ScanResult, Indexing, Sides, ScanAhead
<1>6. CASE ScanNothing
  <2>1. /\ idx' = ScanResult(s, TRUE) /\ cursor' = cursor /\ cursor[s] >= Due
        /\ onSync' = (onSync \/ SyncReached(s, TRUE))
    BY <1>1, <1>3, <1>4, <1>6 DEF ScanNothing
  <2> QED
    <3>1. /\ idx'.phase = "query" /\ idx'.side = IF s = "inbox" THEN "outbox" ELSE "inbox"
          /\ idx'.inboxDone = (s = "inbox" /\ TRUE)
          /\ \A r \in Sides : idx'.target[r] = 0 \/ idx'.target[r] >= Due
      BY <1>5, <2>1
    <3>2. \A r \in Sides : cursor[r] \in Nat /\ cursor'[r] \in Nat /\ cursor'[r] >= cursor[r]
      BY <1>1, <2>1
    <3>3. cursor'[s] >= Due
      BY <2>1
    <3> QED
      BY <1>1, <1>2, <2>1, <3>1, <3>2, <3>3, ResultInStep
<1>7. CASE ScanFailed
  <2>1. PICK t \in {idx.target[s], Target(s)} :
               idx' = [ScanResult(s, FALSE) EXCEPT !.target[s] = t]
    BY <1>7 DEF ScanFailed
  <2>2. ScanResult(s, FALSE) \in Indexing
    BY <1>1 DEF ScanResult, Indexing, Sides
  <2>3. /\ idx'.phase = "query" /\ idx'.side = ScanResult(s, FALSE).side
        /\ idx'.inboxDone = ScanResult(s, FALSE).inboxDone
        /\ idx'.target = [ScanResult(s, FALSE).target EXCEPT ![s] = t]
    BY <1>5, <2>1, <2>2 DEF Indexing
  <2>4. t = 0 \/ t >= Due
    BY <1>1, <1>3, <1>4 DEF ScanAhead
  <2>5. \A r \in Sides : idx'.target[r] = 0 \/ idx'.target[r] >= Due
    BY <1>5, <2>3, <2>4
  <2>6. cursor' = cursor /\ onSync' = (onSync \/ SyncReached(s, FALSE))
    BY <1>7 DEF ScanFailed, storeVars, SyncReached, Typed, ProcessTypeOK
  <2>7. /\ idx'.side = IF s = "inbox" THEN "outbox" ELSE "inbox"
        /\ idx'.inboxDone = (s = "inbox" /\ FALSE)
    BY <1>5, <2>3
  <2>8. \A r \in Sides : cursor[r] \in Nat /\ cursor'[r] \in Nat /\ cursor'[r] >= cursor[r]
    BY <1>1, <2>6
  <2> QED
    BY <1>1, <1>2, <2>3, <2>5, <2>6, <2>7, <2>8, ResultInStep
<1>8. CASE FinishChunk
  <2> DEFINE done == idx.to >= idx.target[s]
  <2>1. idx.phase = "logs" /\ done \in BOOLEAN
    BY <1>3, <1>8 DEF FinishChunk
  <2>2. idx.target[s] >= Due /\ idx.to >= cursor[s]
    BY <1>3, <2>1 DEF ScanAhead
  <2>3. cursor' = [cursor EXCEPT ![s] = idx.to] /\ idx' = ScanResult(s, done)
        /\ onSync' = (onSync \/ SyncReached(s, done))
    BY <1>8 DEF FinishChunk
  <2>4. \A r \in Sides : cursor'[r] \in Nat /\ cursor'[r] >= cursor[r]
    BY <1>1, <1>3, <2>2, <2>3
  <2>5. done => cursor'[s] >= Due
    BY <1>1, <1>3, <2>2, <2>3
  <2> HIDE DEF done
  <2>6. /\ idx'.phase = "query" /\ idx'.side = IF s = "inbox" THEN "outbox" ELSE "inbox"
        /\ idx'.inboxDone = (s = "inbox" /\ done)
        /\ \A r \in Sides : idx'.target[r] = 0 \/ idx'.target[r] >= Due
    BY <1>5, <2>1, <2>3
  <2>7. \A r \in Sides : cursor[r] \in Nat /\ cursor'[r] \in Nat /\ cursor'[r] >= cursor[r]
    BY <1>1, <2>4
  <2> QED
    BY <1>1, <1>2, <2>1, <2>3, <2>5, <2>6, <2>7, ResultInStep
<1>9. CASE ScanChunk
  <2> DEFINE to == Least(cursor[s] + Chunk, Target(s))
  <2>1. /\ idx' = [idx EXCEPT !.phase = "logs", !.target[s] = Target(s),
                              !.to = to, !.queue = InRange(s, cursor[s], to)]
        /\ cursor[s] < Target(s) /\ UNCHANGED <<cursor, onSync>>
    BY <1>9 DEF ScanChunk, storeVars
  <2>2. to \in Nat /\ to >= cursor[s]
    BY <1>1, <1>4, <2>1, ProcessAssumption DEF Least
  <2>3. /\ idx'.side = s /\ idx'.inboxDone = idx.inboxDone /\ idx'.to = to
        /\ idx'.target = [idx.target EXCEPT ![s] = Target(s)]
    BY <1>1, <2>1 DEF Indexing
  <2>4. /\ \A r \in Sides : idx'.target[r] = 0 \/ idx'.target[r] >= Due
        /\ idx'.target[s] >= Due
    BY <1>1, <1>3, <1>4, <2>3 DEF ScanAhead, Indexing
  <2>5. Due' = Due
    BY <1>2 DEF Due
  <2>6. ScanAhead(idx)'
    BY <1>3, <2>1, <2>2, <2>3, <2>4, <2>5 DEF ScanAhead
  <2> QED
    BY <1>1, <1>2, <2>1, <2>5, <2>6 DEF InStep, Running, CaughtUp
<1> QED
  BY <1>6, <1>7, <1>8, <1>9

-----------------------------------------------------------------------------

LEMMA InitInStep == Init => InStep
<1> SUFFICES ASSUME Init PROVE InStep
  OBVIOUS
<1>1. booted = 0 /\ clock = 1 /\ ~Running /\ Stopped
  BY DEF Init, ChainsInit, ProcessInit, Running, Stopped
<1> QED
  BY <1>1, IdleType DEF InStep, Stopped

LEMMA NextInStep == Typed /\ InStep /\ [Next]_vars => InStep'
<1> SUFFICES ASSUME Typed, InStep, [Next]_vars PROVE InStep'
  OBVIOUS
<1>1. CASE Kill
  BY <1>1, DieInStep DEF Kill, chainVars, bootVars
<1>2. CASE IndexerStep \/ IndexerFault
  BY <1>2, ScanInStep, HandleInStep DEF IndexerStep, IndexerFault
<1>3. CASE UNCHANGED vars
  BY <1>3 DEF vars, chainVars, storeVars, procVars, bootVars, InStep, Running, Stopped,
              CaughtUp, ScanAhead, Due
<1> QED
  BY <1>1, <1>2, <1>3, EnvironmentInStep, StartInStep, DispatcherInStep DEF Next

(* Tasks are executed only when both scans have reached the blocks that    *)
(* were final at the last start, whatever failed before or after it.       *)
THEOREM TasksInSync == Spec => []ActsInSync
<1>1. InStep => ActsInSync
  BY DEF InStep, ActsInSync, CaughtUp, Due
<1> QED
  BY <1>1, InitTyped, NextTyped, InitInStep, NextInStep, PTL DEF Spec
=============================================================================
