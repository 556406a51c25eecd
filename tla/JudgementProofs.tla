--------------------------- MODULE JudgementProofs ---------------------------
(***************************************************************************)
(* The validator challenges wrong claims only, for every value of the      *)
(* constants.  JudgedRight is not inductive: a Challenge task was made from *)
(* a claim read earlier, copied by a pass, perhaps read from a file that a *)
(* kill tore.  The invariant says, wherever a root or a verdict is kept,   *)
(* that the Claimed event it comes from is in the outbox's log; an epoch   *)
(* has one such event.  The second half follows a claim to its end: the    *)
(* winner is known when a withdrawal looks for it (WinnerIsKnown), and the *)
(* record goes only after the deposit (ForgetsOnlySettled).                *)
(***************************************************************************)
EXTENDS RouteProofs

(* A record of a claim, on chain or off, has the root that was claimed.    *)
Witnessed(e, c) == c # NoClaim => ClaimedAs(e, c.root)

(* A verdict is about a claim that exists. *)
Judgement(t) ==
    /\ t.kind = "Challenge" => ClaimedAs(t.epoch, "wrong")
    /\ t.kind = "StartVerification" => ClaimedAs(t.epoch, "correct")

ChainJudged ==
    \A e \in Epochs :
        /\ ~(ClaimedAs(e, "correct") /\ ClaimedAs(e, "wrong"))
        /\ Witnessed(e, claimHash[e])
        /\ claimHash[e] # NoClaim /\ claimHash[e].challenger = "me" =>
              claimHash[e].root = "wrong"

FilesJudged ==
    /\ \A e \in Epochs : Witnessed(e, claims[e])
    /\ \A t \in tasks : Judgement(t)

PassJudged ==
    /\ \A t \in disp.ready : Judgement(t)
    /\ disp.phase \in Busy =>
          Judgement(disp.task) /\ Witnessed(disp.task.epoch, disp.claim)
    /\ disp.phase \notin Busy => disp.claim = NoClaim

Judged == ChainJudged /\ FilesJudged /\ PassJudged

-----------------------------------------------------------------------------
(* Verdicts survive whatever happens to logs and schedules.                *)

LEMMA ClaimedAsGrows ==
    ASSUME Grows, NEW e, NEW root, ClaimedAs(e, root)
    PROVE  ClaimedAs(e, root)'
BY DEF Grows, ClaimedAs

LEMMA JudgementGrows ==
    ASSUME Grows, NEW t, Judgement(t)
    PROVE  Judgement(t)'
BY ClaimedAsGrows DEF Judgement

LEMMA WitnessedGrows ==
    ASSUME Grows, NEW e, NEW c, Witnessed(e, c)
    PROVE  Witnessed(e, c)'
BY ClaimedAsGrows DEF Witnessed

(* A schedule the task store makes of another judges the same epochs.      *)
LEMMA RetainJudged ==
    ASSUME NEW kept \in SUBSET Task, \A t \in kept : Judgement(t)
    PROVE  \A t \in Retain(kept) : Judgement(t)
<1> SUFFICES ASSUME NEW t \in Retain(kept) PROVE Judgement(t)
  OBVIOUS
<1>1. PICK u \in kept : t = [u EXCEPT !.place =
                               1 + Cardinality({w \in kept : w.place < u.place})]
  BY DEF Retain
<1>2. t.kind = u.kind /\ t.epoch = u.epoch
  BY <1>1 DEF Task
<1> QED
  BY <1>2 DEF Judgement

LEMMA AddTaskJudged ==
    ASSUME NEW ts, \A t \in ts : Judgement(t), NEW e, NEW kind, NEW after, NEW position,
           kind = "Challenge" => ClaimedAs(e, "wrong"),
           kind = "StartVerification" => ClaimedAs(e, "correct")
    PROVE  \A t \in AddTask(ts, e, kind, after, position) : Judgement(t)
BY DEF AddTask, Judgement

LEMMA InvalidateJudged ==
    ASSUME NEW ts \in SUBSET Task, \A t \in ts : Judgement(t), NEW e, NEW kinds
    PROVE  \A t \in Invalidate(ts, e, kinds) : Judgement(t)
BY RetainJudged DEF Invalidate

LEMMA RemoveTaskJudged ==
    ASSUME NEW ts \in SUBSET Task, \A t \in ts : Judgement(t), NEW task
    PROVE  \A t \in RemoveTask(ts, task) : Judgement(t)
BY RetainJudged DEF RemoveTask

LEMMA RescheduleTaskJudged ==
    ASSUME NEW ts \in SUBSET Task, \A t \in ts : Judgement(t), NEW task, NEW after
    PROVE  \A t \in RescheduleTask(ts, task, after) : Judgement(t)
<1> SUFFICES ASSUME NEW t \in RescheduleTask(ts, task, after) PROVE Judgement(t)
  OBVIOUS
<1>1. CASE t \in ts
  BY <1>1
<1>2. CASE \E u \in ts : t = [u EXCEPT !.after = after]
  <2>1. PICK u \in ts : t = [u EXCEPT !.after = after]
    BY <1>2
  <2>2. t.kind = u.kind /\ t.epoch = u.epoch
    BY <2>1 DEF Task
  <2> QED
    BY <2>2 DEF Judgement
<1> QED
  BY <1>1, <1>2 DEF RescheduleTask, TasksOf

-----------------------------------------------------------------------------
(* The contracts. *)

LEMMA EmitClaims ==
    ASSUME ChainsOK, NEW kind, NEW e, NEW arg, Emit(kind, e, arg)
    PROVE  \A x, root : ClaimedAs(x, root)' <=>
              ClaimedAs(x, root) \/ (kind = "Claimed" /\ e = x /\ arg = root)
<1> DEFINE ev == [kind |-> kind, epoch |-> e, ts |-> clock, arg |-> arg]
<1>1. log' = Append(log, ev) /\ \E S : log \in Seq(S)
  BY DEF Emit, ChainsOK, ChainsTypeOK
<1>2. PICK S : log \in Seq(S)
  BY <1>1
<1>3. log \in Seq(S \cup {ev})
  BY <1>2, SeqDef
<1>4. /\ DOMAIN log' = 1..(Len(log) + 1) /\ DOMAIN log = 1..Len(log)
      /\ Len(log) \in Nat
      /\ \A i \in 1..Len(log) : log'[i] = log[i]
      /\ log'[Len(log) + 1] = ev
  <2> HIDE DEF ev
  <2> QED
    BY <1>1, <1>3, AppendProperties, LenProperties
<1> QED
  BY <1>4 DEF ClaimedAs

LEMMA SameLogClaims ==
    ASSUME log' = log
    PROVE  \A x, root : ClaimedAs(x, root)' <=> ClaimedAs(x, root)
BY DEF ClaimedAs

(* A contract call that keeps the claims' roots and challengers.           *)
LEMMA SameRootsJudged ==
    ASSUME ChainJudged, NEW e \in Epochs, NEW c \in ClaimData, claimHash[e] # NoClaim,
           claimHash \in [Epochs -> MaybeClaim],
           claimHash' = [claimHash EXCEPT ![e] = c],
           c.root = claimHash[e].root,
           c.challenger = "me" => claimHash[e].challenger = "me" \/ c.root = "wrong",
           \A x, root : ClaimedAs(x, root)' <=> ClaimedAs(x, root)
    PROVE  ChainJudged'
<1> SUFFICES ASSUME NEW x \in Epochs
             PROVE  /\ ~(ClaimedAs(x, "correct") /\ ClaimedAs(x, "wrong"))'
                    /\ Witnessed(x, claimHash[x])'
                    /\ (claimHash[x] # NoClaim /\ claimHash[x].challenger = "me" =>
                          claimHash[x].root = "wrong")'
  BY DEF ChainJudged
<1>1. CASE x = e
  BY <1>1 DEF ChainJudged, Witnessed
<1>2. CASE x # e
  BY <1>2 DEF ChainJudged, Witnessed
<1> QED
  BY <1>1, <1>2

LEMMA ChainStepJudged ==
    ASSUME ChainsOK, ChainJudged, ChainStep({e \in Epochs : ClaimedAs(e, "wrong")})
    PROVE  ChainJudged'
<1> DEFINE mine == {e \in Epochs : ClaimedAs(e, "wrong")}
<1>1. /\ claimHash \in [Epochs -> MaybeClaim] /\ clock \in Nat
      /\ "Claimer" \in Parties /\ "Challenger" \in Parties
  BY DEF ChainsOK, ChainsTypeOK, MaybeClaim, Parties
<1>2. ASSUME claimHash' = claimHash, log' = log
      PROVE  ChainJudged'
  BY <1>2, SameLogClaims DEF ChainJudged, Witnessed
<1>3. ASSUME NEW e \in Epochs, NEW root \in Roots, Claim(e, root)
      PROVE  ChainJudged'
  <2>1. \A x, r : ClaimedAs(x, r)' <=> ClaimedAs(x, r) \/ (e = x /\ root = r)
    BY <1>3, EmitClaims DEF Claim
  <2>2. \A r : ~ClaimedAs(e, r)
    BY <1>3 DEF Claim, Emitted, ClaimedAs
  <2>3. claimHash' = [claimHash EXCEPT ![e] = NewClaim(root, clock)]
    BY <1>3 DEF Claim
  <2> SUFFICES ASSUME NEW x \in Epochs
               PROVE  /\ ~(ClaimedAs(x, "correct") /\ ClaimedAs(x, "wrong"))'
                      /\ Witnessed(x, claimHash[x])'
                      /\ (claimHash[x] # NoClaim /\ claimHash[x].challenger = "me" =>
                            claimHash[x].root = "wrong")'
    BY DEF ChainJudged
  <2>4. CASE x = e
    BY <1>1, <2>1, <2>2, <2>3, <2>4 DEF Witnessed, NewClaim
  <2>5. CASE x # e
    BY <1>1, <2>1, <2>3, <2>5 DEF ChainJudged, Witnessed
  <2> QED
    BY <2>4, <2>5
<1>4. ASSUME NEW e \in Epochs, NEW c \in MaybeClaim, NEW who \in {"me", "other"},
             who = "me" => e \in mine, Challenge(e, c, who)
      PROVE  ChainJudged'
  <2>1. \A x, r : ClaimedAs(x, r)' <=> ClaimedAs(x, r)
    BY <1>4, EmitClaims DEF Challenge
  <2>2. c \in ClaimData /\ claimHash[e] = c /\ c # NoClaim
    BY <1>4 DEF Challenge, CanChallenge, Open, MaybeClaim
  <2>3. who = "me" => c.root = "wrong"
    BY <1>4, <2>2 DEF ChainJudged, Witnessed, ClaimData, Roots
  <2>4. /\ claimHash' = [claimHash EXCEPT ![e] = [c EXCEPT !.challenger = who]]
        /\ [c EXCEPT !.challenger = who] \in ClaimData
        /\ [c EXCEPT !.challenger = who].root = c.root
        /\ [c EXCEPT !.challenger = who].challenger = who
    BY <1>4, <2>2 DEF Challenge, ClaimData, Addresses
  <2> QED
    BY <1>1, <2>1, <2>2, <2>3, <2>4, SameRootsJudged
<1>5. ASSUME NEW e \in Epochs, NEW c \in MaybeClaim, StartVerification(e, c)
      PROVE  ChainJudged'
  <2>1. \A x, r : ClaimedAs(x, r)' <=> ClaimedAs(x, r)
    BY <1>5, EmitClaims DEF StartVerification
  <2>2. c \in ClaimData /\ claimHash[e] = c /\ c # NoClaim
    BY <1>5 DEF StartVerification, CanStart, Open, MaybeClaim
  <2>3. /\ claimHash' = [claimHash EXCEPT ![e] = [c EXCEPT !.verification = clock]]
        /\ [c EXCEPT !.verification = clock] \in ClaimData
        /\ [c EXCEPT !.verification = clock].root = c.root
        /\ [c EXCEPT !.verification = clock].challenger = c.challenger
    BY <1>1, <1>5, <2>2 DEF StartVerification, ClaimData
  <2> QED
    BY <1>1, <2>1, <2>2, <2>3, SameRootsJudged
<1>6. ASSUME NEW e \in Epochs, NEW c \in MaybeClaim, VerifySnapshot(e, c)
      PROVE  ChainJudged'
  <2>1. \A x, r : ClaimedAs(x, r)' <=> ClaimedAs(x, r)
    BY <1>6, EmitClaims DEF VerifySnapshot
  <2>2. c \in ClaimData /\ claimHash[e] = c /\ c # NoClaim
    BY <1>6 DEF VerifySnapshot, CanVerify, Open, MaybeClaim
  <2>3. /\ claimHash' = [claimHash EXCEPT ![e] = [c EXCEPT !.honest = "Claimer"]]
        /\ [c EXCEPT !.honest = "Claimer"] \in ClaimData
        /\ [c EXCEPT !.honest = "Claimer"].root = c.root
        /\ [c EXCEPT !.honest = "Claimer"].challenger = c.challenger
    BY <1>1, <1>6, <2>2 DEF VerifySnapshot, ClaimData
  <2> QED
    BY <1>1, <2>1, <2>2, <2>3, SameRootsJudged
<1>7. ASSUME NEW e \in Epochs, NEW c \in MaybeClaim, WithdrawDeposit(e, c)
      PROVE  ChainJudged'
  <2>1. \A x, r : ClaimedAs(x, r)' <=> ClaimedAs(x, r)
    BY <1>7, SameLogClaims DEF WithdrawDeposit
  <2>2. \A x \in Epochs : claimHash'[x] \in {claimHash[x], NoClaim}
    BY <1>1, <1>7 DEF WithdrawDeposit
  <2> QED
    BY <2>1, <2>2 DEF ChainJudged, Witnessed
<1>8. ASSUME NEW i \in DOMAIN sent, Relay(i)
      PROVE  ChainJudged'
  <2> DEFINE e == sent[i].epoch
             c == sent[i].claim
             winner == IF c.root = "correct" THEN "Claimer" ELSE "Challenger"
  <2>1. \A x, r : ClaimedAs(x, r)' <=> ClaimedAs(x, r)
    BY <1>8, EmitClaims DEF Relay
  <2>2. e \in Epochs /\ c \in ClaimData /\ claimHash[e] = c /\ c # NoClaim
    <3>1. sent \in Seq(Message)
      BY DEF ChainsOK, ChainsTypeOK
    <3>2. sent[i] \in Message
      BY <3>1, ElementOfSeq, LenProperties
    <3> QED
      BY <1>8, <3>2 DEF Message, Relay, CanRelay, Open
  <2>3. /\ claimHash' = [claimHash EXCEPT ![e] = [c EXCEPT !.honest = winner]]
        /\ [c EXCEPT !.honest = winner] \in ClaimData
        /\ [c EXCEPT !.honest = winner].root = c.root
        /\ [c EXCEPT !.honest = winner].challenger = c.challenger
    BY <1>1, <1>8, <2>2 DEF Relay, ClaimData
  <2> HIDE DEF e, c
  <2> QED
    BY <1>1, <2>1, <2>2, <2>3, SameRootsJudged
<1>9. CASE Tick \/ UNCHANGED chainVars
             \/ \E e \in Epochs, c \in ClaimData, m \in BOOLEAN : SendSnapshot(e, c, m)
  BY <1>2, <1>9 DEF Tick, chainVars, SendSnapshot
<1> QED
  BY <1>3, <1>4, <1>5, <1>6, <1>7, <1>8, <1>9 DEF ChainStep

-----------------------------------------------------------------------------
(* The process.  Its steps are judged by what they leave, read in the log  *)
(* as it was: the log only grows.                                          *)
LEMMA MoveJudged ==
    ASSUME Grows, ChainJudged',
           \A t \in tasks' : Judgement(t),
           \A e \in Epochs : Witnessed(e, claims'[e]),
           \A t \in disp'.ready : Judgement(t),
           disp'.phase \in Busy =>
              Judgement(disp'.task) /\ Witnessed(disp'.task.epoch, disp'.claim),
           disp'.phase \notin Busy => disp'.claim = NoClaim
    PROVE  Judged'
<1>1. FilesJudged'
  <2>1. ASSUME NEW e \in Epochs PROVE Witnessed(e, claims[e])'
    BY ClaimedAsGrows DEF Witnessed
  <2>2. ASSUME NEW t \in tasks' PROVE Judgement(t)'
    BY JudgementGrows
  <2> QED
    BY <2>1, <2>2 DEF FilesJudged
<1>2. PassJudged'
  <2>1. ASSUME NEW t \in disp'.ready PROVE Judgement(t)'
    BY JudgementGrows
  <2>2. ASSUME disp'.phase \in Busy
        PROVE  Judgement(disp.task)' /\ Witnessed(disp.task.epoch, disp.claim)'
    BY <2>2, ClaimedAsGrows DEF Judgement, Witnessed
  <2> QED
    BY <2>1, <2>2 DEF PassJudged, Busy
<1> QED
  BY <1>1, <1>2 DEF Judged

(* A step that leaves the contracts alone. *)
LEMMA QuietJudged ==
    ASSUME Typed, Judged, UNCHANGED chainVars
    PROVE  Grows /\ ChainJudged'
BY SameLogClaims DEF Judged, ChainJudged, Witnessed, chainVars, Grows

(* A step of the indexer: the pass goes on, or everything ends.            *)
LEMMA IndexerMoveJudged ==
    ASSUME Typed, Judged, UNCHANGED chainVars, disp' = disp \/ disp' = IdleDispatcher,
           \A t \in tasks' : Judgement(t),
           \A e \in Epochs : Witnessed(e, claims'[e])
    PROVE  Judged'
<1>1. Grows /\ ChainJudged'
  BY QuietJudged
<1>2. CASE disp' = disp
  BY <1>1, <1>2, MoveJudged DEF Judged, PassJudged
<1>3. CASE disp' = IdleDispatcher
  <2>1. disp'.ready = {} /\ disp'.phase \notin Busy /\ disp'.claim = NoClaim
    BY <1>3 DEF IdleDispatcher, Busy
  <2> QED
    BY <1>1, <2>1, MoveJudged
<1> QED
  BY <1>2, <1>3

LEMMA FilesKeptJudged ==
    ASSUME Typed, Judged, UNCHANGED <<chainVars, tasks, claims>>,
           disp' = disp \/ disp' = IdleDispatcher
    PROVE  Judged'
<1>1. /\ \A t \in tasks' : Judgement(t)
      /\ \A e \in Epochs : Witnessed(e, claims'[e])
  BY DEF Judged, FilesJudged
<1> QED
  BY <1>1, IndexerMoveJudged

LEMMA CommitJudged ==
    ASSUME Typed, Judged, UNCHANGED chainVars, NEW x, NEW cs,
           \A e \in Epochs : Witnessed(e, cs[e]),
           NEW torn, \A ts \in torn : \A t \in ts : Judgement(t),
           NEW new, \A t \in new : Judgement(t),
           Commit(cs, torn, new, x)
    PROVE  Judged'
<1>1. claims' = cs
  BY DEF Commit
<1>2. disp' = disp \/ disp' = IdleDispatcher
  BY DEF Commit, Die
<1>3. \A t \in tasks' : Judgement(t)
  BY DEF Commit
<1> QED
  BY <1>1, <1>2, <1>3, IndexerMoveJudged

LEMMA HandleJudged ==
    ASSUME Typed, Judged, NEW i \in idx.queue,
           HandleSnapshotSent(i) \/ HandleClaimed(i) \/ HandleUnknown(i)
             \/ Begin(i) \/ BeginChallenged(i)
    PROVE  Judged'
<1>1. /\ UNCHANGED chainVars /\ tasks \in SUBSET Task
      /\ claims \in [Epochs -> MaybeClaim]
      /\ \A t \in tasks : Judgement(t)
      /\ \A e \in Epochs : Witnessed(e, claims[e])
      /\ ChainsOK
  BY DEF HandleSnapshotSent, HandleClaimed, HandleUnknown, Begin, BeginChallenged,
         indexerFrame, Typed, ProcessTypeOK, MaybeClaim, Judged, FilesJudged
<1>2. Delivers("outbox", i) => i \in DOMAIN log
  BY DEF Delivers, Typed, ScanOK
<1>3. ASSUME NEW x, Proceed(x) PROVE Judged'
  BY <1>1, <1>3, FilesKeptJudged DEF Proceed, storeVars
<1>4. ASSUME NEW why, Panic(why) PROVE Judged'
  BY <1>1, <1>4, FilesKeptJudged DEF Panic, Die, storeVars
<1>5. CASE HandleSnapshotSent(i)
  <2> DEFINE m == sent[i]
             ts == AddTask(tasks, m.epoch, "ExecuteRelay", m.ts + RelayDelay, i)
  <2>1. CASE Schedule(ts, Handled(i))
    <3>1. \A t \in ts : Judgement(t)
      BY <1>1, AddTaskJudged
    <3>2. tasks' = ts /\ claims' = claims /\ disp' = disp
      BY <2>1 DEF Schedule
    <3> HIDE DEF ts
    <3> QED
      BY <1>1, <3>1, <3>2, IndexerMoveJudged
  <2> QED
    BY <1>3, <1>5, <2>1 DEF HandleSnapshotSent
<1>6. CASE HandleClaimed(i)
  <2> DEFINE e == log[i].epoch
             cs == StoreClaim(claims, e, NewClaim(log[i].arg, log[i].ts))
             ts == AddTask(tasks, e, "ValidateClaim", log[i].ts, 0)
  <2>1. CASE Commit(cs, {tasks}, ts, Handled(i))
    <3>1. Delivers("outbox", i) /\ log[i].kind = "Claimed"
      BY <1>6 DEF HandleClaimed
    <3>2. ClaimedAs(e, log[i].arg)
      BY <1>2, <3>1 DEF ClaimedAs
    <3>3. \A x \in Epochs : Witnessed(x, cs[x])
      BY <1>1, <3>2 DEF StoreClaim, Witnessed, NewClaim
    <3>4. \A t \in ts : Judgement(t)
      BY <1>1, AddTaskJudged
    <3> HIDE DEF cs, ts
    <3> QED
      BY <1>1, <2>1, <3>3, <3>4, CommitJudged
  <2> QED
    BY <1>3, <1>4, <1>6, <2>1 DEF HandleClaimed
<1>7. CASE HandleUnknown(i) \/ Begin(i)
  BY <1>3, <1>4, <1>7 DEF HandleUnknown, Begin
<1>8. CASE BeginChallenged(i)
  <2> DEFINE e == log[i].epoch
             cs == [claims EXCEPT ![e].challenger = log[i].arg]
             ts == Invalidate(tasks, e, Doomed)
  <2>1. e \in Epochs /\ claims[e] \in ClaimData
    BY <1>1, <1>2, <1>8, EventType DEF BeginChallenged, Exists, MaybeClaim
  <2>2. \A x \in Epochs : Witnessed(x, cs[x])
    BY <1>1, <2>1, ChainsAssumption DEF Witnessed, ClaimData
  <2>3. \A t \in ts : Judgement(t)
    BY <1>1, InvalidateJudged
  <2>4. Commit(cs, {tasks}, ts, Awaiting(i))
    BY <1>8 DEF BeginChallenged
  <2> HIDE DEF cs, ts
  <2> QED
    BY <1>1, <2>2, <2>3, <2>4, CommitJudged
<1> QED
  BY <1>5, <1>6, <1>7, <1>8

LEMMA FinishJudged ==
    ASSUME Typed, Judged,
           FinishVerificationStarted \/ FinishChallenged \/ FinishVerified
    PROVE  Judged'
<1> DEFINE ev == log[idx.at]
<1>1. /\ UNCHANGED chainVars /\ tasks \in SUBSET Task /\ IsFiniteSet(tasks)
      /\ claims \in [Epochs -> MaybeClaim]
      /\ \A t \in tasks : Judgement(t)
      /\ \A e \in Epochs : Witnessed(e, claims[e])
      /\ ChainsOK
  BY DEF FinishVerificationStarted, FinishChallenged, FinishVerified,
         indexerFrame, Typed, ProcessTypeOK, MaybeClaim, Judged, FilesJudged
<1>2. idx.at \in DOMAIN log
  BY DEF FinishVerificationStarted, FinishChallenged, FinishVerified, Awaits,
         Typed, ScanOK
<1>3. ev.epoch \in Epochs
  BY <1>1, <1>2, EventType
<1>4. ASSUME NEW why, Panic(why) PROVE Judged'
  BY <1>1, <1>4, FilesKeptJudged DEF Panic, Die, storeVars
<1>5. ASSUME NEW kinds
      PROVE  /\ Invalidate(tasks, ev.epoch, kinds) \in SUBSET Task
             /\ \A t \in Invalidate(tasks, ev.epoch, kinds) : Judgement(t)
  BY <1>1, InvalidateType, InvalidateJudged
<1>6. CASE FinishVerificationStarted
  <2> DEFINE without == Invalidate(tasks, ev.epoch, {"StartVerification"})
             cs == [claims EXCEPT ![ev.epoch].verification = ev.ts]
             ts == AddTask(without, ev.epoch, "VerifySnapshot",
                           ev.ts + ChallengePeriod + Slack, 0)
  <2>1. CASE Exists(claims, ev.epoch) /\ Commit(cs, {tasks, without}, ts, Resumed)
    <3>1. \A x \in Epochs : Witnessed(x, cs[x])
      BY <1>1, <1>3, <2>1, ChainsAssumption DEF Witnessed, ClaimData, Exists, MaybeClaim
    <3>2. \A t \in without : Judgement(t)
      BY <1>5
    <3> HIDE DEF without
    <3>3. \A t \in ts : Judgement(t)
      BY <3>2, AddTaskJudged
    <3>4. \A u \in {tasks, without} : \A t \in u : Judgement(t)
      BY <1>1, <3>2
    <3> HIDE DEF cs, ts
    <3> QED
      BY <1>1, <2>1, <3>1, <3>3, <3>4, CommitJudged
  <2> QED
    BY <1>4, <1>6, <2>1 DEF FinishVerificationStarted
<1>7. CASE FinishChallenged
  <2> DEFINE ts == AddTask(tasks, ev.epoch, "SendSnapshot", ev.ts, 0)
  <2>1. \A t \in ts : Judgement(t)
    BY <1>1, AddTaskJudged
  <2>2. tasks' = ts /\ claims' = claims /\ disp' = disp
    BY <1>7 DEF FinishChallenged, Schedule
  <2> HIDE DEF ts
  <2> QED
    BY <1>1, <2>1, <2>2, IndexerMoveJudged
<1>8. CASE FinishVerified
  <2> DEFINE without == Invalidate(tasks, ev.epoch, Doomed \cup {"ExecuteRelay"})
             cs == [claims EXCEPT ![ev.epoch].honest = idx.verdict]
             ts == AddTask(without, ev.epoch, "WithdrawDeposit", ev.ts, 0)
  <2>1. CASE Exists(claims, ev.epoch) /\ Commit(cs, {tasks, without}, ts, Resumed)
    <3>1. \A x \in Epochs : Witnessed(x, cs[x])
      BY <1>1, <1>3, <2>1, ChainsAssumption DEF Witnessed, ClaimData, Exists, MaybeClaim
    <3>2. \A t \in without : Judgement(t)
      BY <1>5
    <3> HIDE DEF without
    <3>3. \A t \in ts : Judgement(t)
      BY <3>2, AddTaskJudged
    <3>4. \A u \in {tasks, without} : \A t \in u : Judgement(t)
      BY <1>1, <3>2
    <3> HIDE DEF cs, ts
    <3> QED
      BY <1>1, <2>1, <3>1, <3>3, <3>4, CommitJudged
  <2> QED
    BY <1>4, <1>8, <2>1 DEF FinishVerified
<1> QED
  BY <1>6, <1>7, <1>8

LEMMA IndexerJudged ==
    ASSUME Typed, Judged, IndexerStep \/ IndexerFault
    PROVE  Judged'
<1>1. CASE Handle
  BY <1>1, HandleJudged, FinishJudged DEF Handle
<1>2. CASE ScanNothing \/ ScanChunk \/ ScanFailed \/ TargetSearchFailed
             \/ FinishChunk \/ HandlerFails
  <2>1. UNCHANGED <<chainVars, tasks, claims>> /\ (disp' = disp \/ disp' = IdleDispatcher)
    BY <1>2 DEF ScanNothing, ScanChunk, ScanFailed, TargetSearchFailed, FinishChunk,
                HandlerFails, Panic, Die, indexerFrame, storeVars
  <2> QED
    BY <2>1, FilesKeptJudged
<1> QED
  BY <1>1, <1>2 DEF IndexerStep, IndexerFault
-----------------------------------------------------------------------------
(* The dispatcher. *)

LEMMA PassJudgedOK ==
    ASSUME NEW ready, NEW now
    PROVE  /\ Pass(ready, now).ready = ready
           /\ Pass(ready, now).phase \notin Busy
           /\ Pass(ready, now).claim = NoClaim
BY DEF Pass, IdleDispatcher, Busy

(* A pass that goes on to its next task. *)
LEMMA NextTaskJudged ==
    ASSUME Typed, Judged, noTransaction, NEW ready \in SUBSET disp.ready,
           disp' = Pass(ready, disp.now),
           \A t \in tasks' : Judgement(t),
           \A e \in Epochs : Witnessed(e, claims'[e])
    PROVE  Judged'
<1>1. Grows /\ ChainJudged'
  BY QuietJudged DEF noTransaction
<1>2. /\ disp'.ready = ready /\ disp'.phase \notin Busy /\ disp'.claim = NoClaim
  BY PassJudgedOK
<1> QED
  BY <1>1, <1>2, MoveJudged DEF Judged, PassJudged

LEMMA SucceedJudged ==
    ASSUME Typed, Judged, noTransaction, NEW ts \in SUBSET Task,
           \A t \in ts : Judgement(t), Succeed(ts),
           \A e \in Epochs : Witnessed(e, claims'[e])
    PROVE  Judged'
<1>1. CASE tasks' = RemoveTask(ts, disp.task) /\ disp' = Pass(disp.ready, disp.now)
  <2>1. \A t \in tasks' : Judgement(t)
    BY <1>1, RemoveTaskJudged
  <2> QED
    BY <1>1, <2>1, NextTaskJudged
<1>2. CASE tasks' = ts /\ Die("down")
  BY <1>2, IndexerMoveJudged DEF Die, noTransaction
<1> QED
  BY <1>1, <1>2 DEF Succeed, MoveOn

LEMMA EndJudged ==
    ASSUME Typed, Judged, Ends, noTransaction
    PROVE  Judged'
<1>1. /\ tasks \in SUBSET Task /\ IsFiniteSet(tasks) /\ disp.now + RetryDelay \in Nat
      /\ claims \in [Epochs -> MaybeClaim]
      /\ \A t \in tasks : Judgement(t)
      /\ \A e \in Epochs : Witnessed(e, claims[e])
  BY ProcessAssumption
  DEF Typed, ProcessTypeOK, Dispatching, MaybeClaim, Judged, FilesJudged
<1>2. CASE Keep
  BY <1>1, <1>2, NextTaskJudged DEF Keep, MoveOn
<1>3. CASE Complete
  BY <1>1, <1>3, SucceedJudged DEF Complete
<1>4. CASE Forget
  <2>1. \A e \in Epochs : Witnessed(e, claims'[e])
    BY <1>1, <1>4 DEF Forget, RemoveClaim, Witnessed
  <2> QED
    BY <1>1, <1>4, <2>1, SucceedJudged DEF Forget
<1>5. CASE Reschedule
  <2> DEFINE later == RescheduleTask(tasks, disp.task, disp.now + RetryDelay)
  <2>1. later \in SUBSET Task /\ \A t \in later : Judgement(t)
    BY <1>1, RescheduleTaskType, RescheduleTaskJudged
  <2>2. Succeed(later) /\ claims' = claims
    BY <1>5 DEF Reschedule
  <2> HIDE DEF later
  <2> QED
    BY <1>1, <2>1, <2>2, SucceedJudged
<1> QED
  BY <1>2, <1>3, <1>4, <1>5 DEF Ends

(* A task that goes on with a claim it has read.                           *)
LEMMA WaitJudged ==
    ASSUME Typed, Judged, noTransaction, disp.phase \in Busy, NEW phase \in Busy,
           NEW claim, Witnessed(disp.task.epoch, claim), Wait(phase, claim)
    PROVE  Judged'
<1>1. Grows /\ ChainJudged'
  BY QuietJudged DEF noTransaction
<1>2. /\ disp'.ready = disp.ready /\ disp'.task = disp.task
      /\ disp'.phase = phase /\ disp'.claim = claim
      /\ UNCHANGED <<tasks, claims>>
  BY DEF Wait, Typed, ProcessTypeOK, Dispatching
<1> QED
  BY <1>1, <1>2, MoveJudged DEF Judged, PassJudged, FilesJudged

LEMMA DieJudged ==
    ASSUME Typed, Judged, noTransaction, NEW why, Die(why), UNCHANGED <<tasks, claims>>
    PROVE  Judged'
BY FilesKeptJudged DEF Die, noTransaction, chainVars

LEMMA PollJudged ==
    ASSUME Typed, Judged, Poll \/ ReadNow \/ ReadNowFailed
    PROVE  Judged'
<1>1. /\ noTransaction /\ UNCHANGED <<tasks, claims>>
      /\ disp.phase \notin Busy /\ disp \in Dispatching
  BY DEF Poll, ReadNow, ReadNowFailed, Busy, Typed, ProcessTypeOK
<1>2. Grows /\ ChainJudged'
  BY <1>1, QuietJudged DEF noTransaction
<1>3. /\ \A t \in disp'.ready : Judgement(t)
      /\ disp'.phase \notin Busy /\ disp'.claim = NoClaim
  <2>1. CASE Poll
    BY <1>1, <2>1 DEF Poll, Dispatching, Busy, Judged, FilesJudged, PassJudged
  <2>2. CASE ReadNow
    <3> DEFINE ready == {t \in disp.ready : clock >= t.after}
    <3>1. disp' = Pass(ready, clock)
      BY <2>2 DEF ReadNow
    <3>2. \A t \in ready : Judgement(t)
      BY DEF Judged, PassJudged
    <3> HIDE DEF ready
    <3> QED
      BY <3>1, <3>2, PassJudgedOK
  <2>3. CASE ReadNowFailed
    BY <2>3, IdleType DEF ReadNowFailed, Busy, IdleDispatcher
  <2> QED
    BY <2>1, <2>2, <2>3
<1> QED
  BY <1>1, <1>2, <1>3, MoveJudged DEF Judged, FilesJudged

LEMMA BeginTaskJudged ==
    ASSUME Typed, Judged, NEW t \in disp.ready, BeginTask(t)
    PROVE  Judged'
<1> DEFINE claim == claims[t.epoch]
           taken == [disp EXCEPT !.ready = @ \ {t}, !.task = t]
<1>1. /\ noTransaction /\ disp.phase \notin Busy /\ disp.claim = NoClaim
      /\ disp \in Dispatching /\ t \in Task /\ Judgement(t)
      /\ tasks \in SUBSET Task /\ IsFiniteSet(tasks)
      /\ \A u \in tasks : Judgement(u)
      /\ \A e \in Epochs : Witnessed(e, claims[e])
  BY DEF BeginTask, Busy, Typed, ProcessTypeOK, Dispatching, Judged, FilesJudged,
         PassJudged
<1>2. Grows /\ ChainJudged'
  BY <1>1, QuietJudged DEF noTransaction
<1>3. Witnessed(t.epoch, claim) /\ Witnessed(t.epoch, NoClaim)
  BY <1>1 DEF Task, Witnessed
<1>4. ASSUME NEW phase \in Busy, NEW c, Witnessed(t.epoch, c),
             disp' = [taken EXCEPT !.phase = phase, !.claim = c],
             UNCHANGED <<tasks, claims>>
      PROVE  Judged'
  <2>1. /\ disp'.ready = disp.ready \ {t} /\ disp'.task = t
        /\ disp'.phase = phase /\ disp'.claim = c
    BY <1>1, <1>4 DEF Dispatching
  <2> QED
    BY <1>1, <1>2, <1>4, <2>1, MoveJudged DEF Judged, PassJudged
<1>5. CASE /\ t.kind \in DOMAIN FirstWait
           /\ disp' = [taken EXCEPT !.phase = FirstWait[t.kind]]
           /\ UNCHANGED <<tasks, claims, route, idx>>
  <2>1. FirstWait[t.kind] \in Busy
    BY <1>5 DEF FirstWait, Busy
  <2>2. disp' = [taken EXCEPT !.phase = FirstWait[t.kind], !.claim = NoClaim]
    BY <1>1, <1>5 DEF Dispatching
  <2> QED
    BY <1>3, <1>4, <1>5, <2>1, <2>2
<1>6. CASE Die("No claim found") /\ UNCHANGED <<tasks, claims>>
  BY <1>1, <1>6, DieJudged
<1>7. CASE /\ tasks' = RemoveTask(tasks, t)
           /\ disp' = Pass(disp.ready \ {t}, disp.now)
           /\ UNCHANGED <<claims, route, idx>>
  <2>1. \A u \in tasks' : Judgement(u)
    BY <1>1, <1>7, RemoveTaskJudged
  <2> QED
    BY <1>1, <1>7, <2>1, NextTaskJudged
<1>8. CASE /\ disp' = [taken EXCEPT !.phase = "send", !.claim = claim]
           /\ UNCHANGED <<tasks, claims, route, idx>>
  <2>1. "send" \in Busy
    BY DEF Busy
  <2> QED
    BY <1>3, <1>4, <1>8, <2>1
<1> QED
  BY <1>5, <1>6, <1>7, <1>8 DEF BeginTask

LEMMA CheckJudged ==
    ASSUME Typed, Judged,
           CheckFinality \/ CheckHash \/ CheckSpent
             \/ RequestFailed \/ BlockSearchFailed \/ OutOfFunds
    PROVE  Judged'
<1>1. noTransaction /\ disp.phase \in Busy
  BY DEF CheckFinality, CheckHash, CheckSpent, RequestFailed, BlockSearchFailed,
         OutOfFunds, Doing, Busy
<1>2. disp.task.epoch \in Epochs
  BY <1>1 DEF Typed, PassOK, HoldsTask, Task
<1>3. /\ Witnessed(disp.task.epoch, claims[disp.task.epoch])
      /\ Witnessed(disp.task.epoch, NoClaim)
  BY <1>2 DEF Judged, FilesJudged, Witnessed
<1>4. {"compare", "send"} \subseteq Busy
  BY DEF Busy
<1>5. CASE CheckFinality
  BY <1>1, <1>3, <1>4, <1>5, EndJudged, WaitJudged, DieJudged DEF CheckFinality, Ends
<1>6. CASE CheckHash
  BY <1>1, <1>3, <1>4, <1>6, EndJudged, WaitJudged, DieJudged DEF CheckHash, Ends
<1>7. CASE CheckSpent
  BY <1>1, <1>3, <1>4, <1>7, EndJudged, WaitJudged DEF CheckSpent, Ends
<1>8. CASE RequestFailed \/ OutOfFunds
  BY <1>1, <1>8, EndJudged DEF RequestFailed, OutOfFunds, Ends
<1>9. CASE BlockSearchFailed
  BY <1>1, <1>9, DieJudged DEF BlockSearchFailed
<1> QED
  BY <1>5, <1>6, <1>7, <1>8, <1>9

(* The verdict itself: the claim compared with the inbox is the epoch's.   *)
LEMMA JudgeJudged ==
    ASSUME Typed, Judged, Judge
    PROVE  Judged'
<1> DEFINE e == disp.task.epoch
           start == AddTask(tasks, e, "StartVerification",
                            disp.now + StartDelay + Slack, 0)
           challenge == AddTask(tasks, e, "Challenge", disp.now, 0)
<1>1. /\ noTransaction /\ claims' = claims /\ e \in Epochs
      /\ disp \in Dispatching /\ disp.now \in Nat
      /\ disp.now + StartDelay + Slack \in Nat
      /\ tasks \in SUBSET Task /\ IsFiniteSet(tasks)
      /\ \A t \in tasks : Judgement(t)
      /\ \A x \in Epochs : Witnessed(x, claims[x])
  BY ChainsAssumption, ProcessAssumption
  DEF Judge, Doing, Busy, Typed, PassOK, HoldsTask, ProcessTypeOK, Dispatching, Task,
      Judged, FilesJudged
<1>2. ClaimedAs(e, disp.claim.root) /\ disp.claim.root \in Roots
  BY DEF Judge, Doing, Busy, Judged, PassJudged, Witnessed, Typed, PassOK, HoldsTask,
         ProcessTypeOK, Dispatching, ClaimData
<1>3. {"StartVerification", "Challenge"} \subseteq Kinds /\ 0 \in Nat
  BY DEF Kinds
<1>4. start \in SUBSET Task /\ challenge \in SUBSET Task
  BY <1>1, <1>3, AddTaskType
<1>5. CASE disp.claim.root = "correct"
  <2>1. \A t \in start : Judgement(t)
    BY <1>1, <1>2, <1>5, AddTaskJudged
  <2>2. Succeed(start)
    BY <1>5 DEF Judge
  <2> HIDE DEF start
  <2> QED
    BY <1>1, <1>4, <2>1, <2>2, SucceedJudged
<1>6. CASE disp.claim.root # "correct"
  <2>1. ClaimedAs(e, "wrong")
    BY <1>2, <1>6 DEF Roots
  <2>2. \A t \in challenge : Judgement(t)
    BY <1>1, <2>1, AddTaskJudged
  <2>3. Succeed(challenge)
    BY <1>6 DEF Judge
  <2> HIDE DEF challenge
  <2> QED
    BY <1>1, <1>4, <2>2, <2>3, SucceedJudged
<1> QED
  BY <1>5, <1>6
LEMMA ResultJudged ==
    ASSUME Typed, Judged,
           Confirmed \/ ChallengeFailed \/ StartVerificationFailed
             \/ VerifySnapshotFailed \/ WithdrawFailed \/ SendFailed \/ RelayFailed
    PROVE  Judged'
<1>1. noTransaction
  BY DEF Confirmed, ChallengeFailed, StartVerificationFailed, VerifySnapshotFailed,
         WithdrawFailed, SendFailed, RelayFailed
<1>2. Ends
  BY DEF Ends, Confirmed, ChallengeFailed, StartVerificationFailed,
         VerifySnapshotFailed, DropIfEmitted, WithdrawFailed, SendFailed, RelayFailed,
         RescheduleIfInvalid
<1> QED
  BY <1>1, <1>2, EndJudged

(* The transactions: a challenge is sent for a claim judged wrong.         *)
LEMMA SendJudged ==
    ASSUME Typed, Judged, Land \/ Revert
    PROVE  Judged'
<1> DEFINE t == disp.task
           mine == {e \in Epochs : ClaimedAs(e, "wrong")}
<1>1. /\ disp.phase = "send" /\ UNCHANGED <<tasks, claims>>
      /\ t.epoch \in Epochs /\ Judgement(t) /\ disp.claim \in MaybeClaim
      /\ t.kind = "SendSnapshot" => disp.claim # NoClaim
  BY DEF Land, Revert, Typed, ProcessTypeOK, PassOK, HoldsTask, Busy, Task,
         Dispatching, MaybeClaim, Judged, PassJudged
<1>2. \E result : Answered(result)
  BY DEF Land, Revert
<1>3. /\ disp'.ready = disp.ready /\ disp'.task = t
      /\ disp'.phase = "result" /\ disp'.claim = disp.claim
  BY <1>2 DEF Answered, Typed, ProcessTypeOK, Dispatching
<1>4. Grows /\ ChainJudged'
  <2>1. CASE Revert
    BY <2>1, QuietJudged DEF Revert, noTransaction
  <2>2. CASE Land
    <3>1. Transaction(t.kind, t.epoch, disp.claim, t.position)
      BY <2>2 DEF Land
    <3>2. t.kind = "Challenge" => t.epoch \in mine
      BY <1>1 DEF Judgement
    <3>3. ChainStep(mine)
      BY <1>1, <3>1, <3>2
      DEF Transaction, ChainStep, Addresses, Relay, CanRelay, MaybeClaim
    <3>4. ChainJudged'
      BY <3>3, ChainStepJudged DEF Typed, Judged
    <3> HIDE DEF mine
    <3>5. Grows
      BY <3>3, ChainStepType DEF Typed
    <3> QED
      BY <3>4, <3>5
  <2> QED
    BY <2>1, <2>2
<1>5. {"send", "result"} \subseteq Busy
  BY DEF Busy
<1> QED
  BY <1>1, <1>3, <1>4, <1>5, MoveJudged DEF Judged, FilesJudged, PassJudged

LEMMA DispatcherJudged ==
    ASSUME Typed, Judged, DispatcherStep \/ DispatcherFault
    PROVE  Judged'
<1>1. CASE Work \/ DispatcherFault
  BY <1>1, PollJudged, BeginTaskJudged, CheckJudged, JudgeJudged
  DEF Work, DispatcherFault
<1>2. CASE Sending
  BY <1>2, SendJudged, ResultJudged DEF Sending
<1> QED
  BY <1>1, <1>2 DEF DispatcherStep

LEMMA EnvironmentJudged ==
    ASSUME Typed, Judged, Environment
    PROVE  Judged'
<1>1. ChainStep({}) /\ ChainStep({e \in Epochs : ClaimedAs(e, "wrong")})
  <2>1. \A e \in Epochs : claimHash[e] \in MaybeClaim
    BY DEF Typed, ChainsOK, ChainsTypeOK, MaybeClaim
  <2>2. Tick => ChainStep({}) /\ ChainStep({e \in Epochs : ClaimedAs(e, "wrong")})
    BY DEF ChainStep
  <2>3. Others => ChainStep({}) /\ ChainStep({e \in Epochs : ClaimedAs(e, "wrong")})
    BY <2>1, ChainsAssumption
    DEF Others, ChainStep, Addresses, Open, MaybeClaim
  <2> QED
    BY <2>2, <2>3 DEF Environment
<1>2. Grows /\ ChainJudged'
  BY <1>1, ChainStepType, ChainStepJudged DEF Typed, Judged
<1>3. UNCHANGED <<tasks, claims, disp>>
  BY DEF Environment, storeVars, procVars
<1> QED
  BY <1>2, <1>3, MoveJudged DEF Judged, FilesJudged, PassJudged

-----------------------------------------------------------------------------

LEMMA InitJudged == Init => Judged
<1> SUFFICES ASSUME Init PROVE Judged
  OBVIOUS
<1> USE DEF Init, ChainsInit, ProcessInit
<1>1. \A e, root : ~ClaimedAs(e, root)
  BY DEF ClaimedAs
<1>2. ChainJudged
  BY <1>1 DEF ChainJudged, Witnessed
<1>3. FilesJudged
  BY DEF FilesJudged, Witnessed
<1>4. PassJudged
  BY DEF PassJudged, IdleDispatcher, Busy
<1> QED
  BY <1>2, <1>3, <1>4 DEF Judged

LEMMA NextJudged == Typed /\ Judged /\ [Next]_vars => Judged'
<1> SUFFICES ASSUME Typed, Judged, [Next]_vars PROVE Judged'
  OBVIOUS
<1>1. CASE FirstStart \/ Restart \/ Kill \/ UNCHANGED vars
  <2>1. UNCHANGED <<chainVars, tasks, claims>> /\ (disp' = disp \/ disp' = IdleDispatcher)
    BY <1>1
    DEF FirstStart, Restart, Start, Kill, Die, vars, storeVars, procVars
  <2> QED
    BY <2>1, FilesKeptJudged
<1>2. CASE Next /\ ~(FirstStart \/ Restart \/ Kill)
  BY <1>2, EnvironmentJudged, IndexerJudged, DispatcherJudged DEF Next
<1> QED
  BY <1>1, <1>2

(* A claim this validator challenged is wrong, and the Challenge and       *)
(* StartVerification tasks in its file are for claims of the matching kind *)
(* (validate_claim.rs), whatever the other validators do, whichever        *)
(* requests fail and wherever the process is killed.                       *)
THEOREM ClaimsJudgedRight == Spec => []JudgedRight
<1>1. Judged => JudgedRight
  BY DEF Judged, ChainJudged, FilesJudged, Judgement, JudgedRight
<1>2. Typed /\ Judged /\ [Next]_vars => (Typed /\ Judged)'
  BY NextTyped, NextJudged
<1> QED
  BY <1>1, <1>2, InitTyped, InitJudged, PTL DEF Spec

-----------------------------------------------------------------------------
(* The other verdict, who has won, and the end of an epoch.  A withdrawal  *)
(* finds a winner in the file: its task is made when one is written, and a *)
(* record leaves the file only when the deposit has left the outbox, from  *)
(* which it never comes back.                                              *)

Paid(e) == claimHash[e] = NoClaim /\ Emitted("Claimed", e)

Known(e) == claims[e] # NoClaim \/ Paid(e)

Decided(e) == Paid(e) \/ (claims[e] # NoClaim /\ claims[e].honest # "None")

(* A task, a copy of one, and a message sent are about a known epoch.      *)
TaskKnown(t) == Known(t.epoch) /\ (t.kind = "WithdrawDeposit" => Decided(t.epoch))

PassKnown ==
    /\ \A t \in disp.ready : TaskKnown(t)
    /\ disp.phase \in Busy => TaskKnown(disp.task)
    /\ disp.phase = "result" /\ disp.result = "ok" /\ disp.task.kind = "WithdrawDeposit" =>
          Paid(disp.task.epoch)

AwaitKnown ==
    idx.phase = "await" =>
        /\ Known(log[idx.at].epoch)
        /\ log[idx.at].kind = "Verified" => idx.verdict # "None"

SentKnown == \A i \in DOMAIN sent : sent[i].mine => Known(sent[i].epoch)

Informed ==
    /\ \A t \in tasks : TaskKnown(t)
    /\ PassKnown /\ AwaitKnown /\ SentKnown /\ WinnerIsKnown

(* What a step may do to the record of an epoch and to its deposit.        *)
Remembers ==
    /\ \A e \in Epochs : /\ Paid(e) => Paid(e)'
                         /\ Known(e) => Known(e)'
                         /\ Decided(e) => Decided(e)'
    /\ claims' = claims \/ claimHash' = claimHash

LEMMA EmittedGrows ==
    ASSUME Grows, NEW kind, NEW e, Emitted(kind, e)
    PROVE  Emitted(kind, e)'
BY DEF Grows, Emitted

(* No call of a contract takes a deposit back in, or forgets an event.     *)
LEMMA ChainRemembers ==
    ASSUME ChainsOK, NEW mine, ChainStep(mine), claims' = claims
    PROVE  Remembers
<1>1. Grows
  BY ChainStepType
<1>2. claimHash \in [Epochs -> MaybeClaim]
  BY DEF ChainsOK, ChainsTypeOK, MaybeClaim
<1> SUFFICES ASSUME NEW e \in Epochs, Paid(e) PROVE claimHash'[e] = NoClaim
  BY <1>1, EmittedGrows DEF Remembers, Paid, Known, Decided
<1>3. ASSUME NEW x \in Epochs, NEW c, claimHash' = [claimHash EXCEPT ![x] = c],
             x # e \/ c = NoClaim
      PROVE  claimHash'[e] = NoClaim
  BY <1>2, <1>3 DEF Paid
<1>4. CASE \E x \in Epochs, root \in Roots : Claim(x, root)
  BY <1>3, <1>4 DEF Claim, Paid
<1>5. CASE \/ \E x \in Epochs, c \in MaybeClaim, who \in {"me", "other"} : Challenge(x, c, who)
           \/ \E x \in Epochs, c \in MaybeClaim : StartVerification(x, c) \/ VerifySnapshot(x, c)
  BY <1>3, <1>5
  DEF Challenge, CanChallenge, StartVerification, CanStart, VerifySnapshot, CanVerify,
      Open, Paid
<1>6. CASE \E x \in Epochs, c \in MaybeClaim : WithdrawDeposit(x, c)
  BY <1>3, <1>6 DEF WithdrawDeposit
<1>7. ASSUME NEW i \in DOMAIN sent, Relay(i)
      PROVE  claimHash'[e] = NoClaim
  <2>1. sent[i].epoch \in Epochs
    <3>1. sent \in Seq(Message)
      BY DEF ChainsOK, ChainsTypeOK
    <3>2. sent[i] \in Message
      BY <3>1, ElementOfSeq, LenProperties
    <3> QED
      BY <3>2 DEF Message
  <2>2. sent[i].epoch # e
    BY <1>7 DEF Relay, CanRelay, Open, Paid
  <2> QED
    BY <1>3, <1>7, <2>1, <2>2 DEF Relay
<1>8. CASE claimHash' = claimHash
  BY <1>8 DEF Paid
<1>9. \/ claimHash' = claimHash
      \/ \E x \in Epochs, root \in Roots : Claim(x, root)
      \/ \E x \in Epochs, c \in MaybeClaim, who \in {"me", "other"} : Challenge(x, c, who)
      \/ \E x \in Epochs, c \in MaybeClaim : StartVerification(x, c) \/ VerifySnapshot(x, c)
      \/ \E x \in Epochs, c \in MaybeClaim : WithdrawDeposit(x, c)
      \/ \E i \in DOMAIN sent : Relay(i)
  BY DEF ChainStep, Tick, SendSnapshot, chainVars
<1> QED
  BY <1>4, <1>5, <1>6, <1>7, <1>8, <1>9

(* A record stored or updated.                                             *)
LEMMA RecordRemembers ==
    ASSUME Typed, UNCHANGED chainVars, NEW e \in Epochs, NEW c \in ClaimData,
           claims' = [claims EXCEPT ![e] = c],
           claims[e] # NoClaim /\ claims[e].honest # "None" => c.honest # "None"
    PROVE  Remembers /\ Known(e)' /\ (c.honest # "None" => Decided(e)')
<1>1. claims \in [Epochs -> MaybeClaim] /\ c # NoClaim
  BY ChainsAssumption DEF Typed, ProcessTypeOK, MaybeClaim
<1>2. \A x \in Epochs : claims'[x] = IF x = e THEN c ELSE claims[x]
  BY <1>1
<1> QED
  BY <1>1, <1>2 DEF Remembers, Paid, Known, Decided, Emitted, chainVars

(* A record taken out of the file.                                         *)
LEMMA ForgetRemembers ==
    ASSUME Typed, UNCHANGED chainVars, NEW e \in Epochs,
           claims' = RemoveClaim(claims, e), Paid(e)
    PROVE  Remembers
<1>1. \A x \in Epochs : x # e => claims'[x] = claims[x]
  BY DEF Typed, ProcessTypeOK, RemoveClaim
<1> QED
  BY <1>1 DEF Remembers, Paid, Known, Decided, Emitted, chainVars

LEMMA SameRemembers ==
    ASSUME UNCHANGED <<claimHash, log, claims>>
    PROVE  Remembers
BY DEF Remembers, Paid, Known, Decided, Emitted

LEMMA TaskKnownStays ==
    ASSUME Remembers, NEW t, t.epoch \in Epochs, TaskKnown(t)
    PROVE  TaskKnown(t)'
BY DEF Remembers, TaskKnown

LEMMA TasksKnownStay ==
    ASSUME Remembers, NEW ts \in SUBSET Task, \A t \in ts : TaskKnown(t),
           NEW new, From(new, ts)
    PROVE  \A t \in new : TaskKnown(t)'
<1> SUFFICES ASSUME NEW t \in new PROVE TaskKnown(t)'
  OBVIOUS
<1>1. PICK u \in ts : SameAs(t, u)
  BY DEF From
<1>2. TaskKnown(u)'
  BY TaskKnownStays DEF Task
<1> QED
  BY <1>1, <1>2 DEF TaskKnown, SameAs

LEMMA AddTaskKnown ==
    ASSUME NEW ts, \A t \in ts : TaskKnown(t)', NEW e, Known(e)', NEW kind,
           kind = "WithdrawDeposit" => Decided(e)', NEW after, NEW position
    PROVE  \A t \in AddTask(ts, e, kind, after, position) : TaskKnown(t)'
BY AddTaskFrom DEF TaskKnown

LEMMA MoveInformed ==
    ASSUME Typed, Informed, Grows, Remembers,
           \A t \in tasks' : TaskKnown(t)', PassKnown', AwaitKnown', WinnerIsKnown',
           \A i \in DOMAIN sent' :
              i \in DOMAIN sent \/ (sent'[i].mine =>
                                    \E e \in Epochs : sent'[i].epoch = e /\ Known(e)')
    PROVE  Informed'
<1>1. ASSUME NEW i \in DOMAIN sent, sent[i].mine
      PROVE  Known(sent[i].epoch)'
  <2>1. sent \in Seq(Message)
    BY DEF Typed, ChainsOK, ChainsTypeOK
  <2>2. sent[i] \in Message
    BY <2>1, ElementOfSeq, LenProperties
  <2>3. sent[i].epoch \in Epochs /\ sent'[i] = sent[i]
    BY <2>2 DEF Message, Grows
  <2>4. Known(sent[i].epoch)
    BY <1>1 DEF Informed, SentKnown
  <2> DEFINE e == sent[i].epoch
  <2>5. e \in Epochs /\ Known(e)
    BY <2>3, <2>4
  <2>6. \A x \in Epochs : Known(x) => Known(x)'
    BY DEF Remembers
  <2> QED
    BY <2>3, <2>4, <2>6 DEF Known, Paid
<1>2. SentKnown'
  BY <1>1 DEF SentKnown, Grows
<1> QED
  BY <1>2 DEF Informed

LEMMA PassKeptInformed ==
    ASSUME Typed, Informed, Remembers, disp' = disp \/ disp' = IdleDispatcher
    PROVE  PassKnown'
<1>1. CASE disp' = disp
  <2>1. /\ \A t \in disp.ready : t.epoch \in Epochs
        /\ disp.phase \in Busy => disp.task.epoch \in Epochs
    BY DEF Typed, ProcessTypeOK, PassOK, HoldsTask, Dispatching, Task
  <2>2. "result" \in Busy
    BY DEF Busy
  <2>3. \A t \in disp.ready : TaskKnown(t)'
    BY <2>1, TaskKnownStays DEF Informed, PassKnown
  <2>4. disp.phase \in Busy => TaskKnown(disp.task)'
    BY <2>1, <1>1 DEF Informed, PassKnown, TaskKnown, Remembers
  <2> QED
    BY <1>1, <2>1, <2>2, <2>3, <2>4 DEF Informed, PassKnown, Remembers, Busy
<1>2. CASE disp' = IdleDispatcher
  BY <1>2, IdleType DEF PassKnown, Busy
<1> QED
  BY <1>1, <1>2

LEMMA AwaitKeptInformed ==
    ASSUME Typed, Informed, Grows, Remembers, idx' = idx \/ idx'.phase # "await"
    PROVE  AwaitKnown'
<1>1. ASSUME idx.phase = "await"
      PROVE  idx.at \in DOMAIN log /\ log[idx.at].epoch \in Epochs
  BY <1>1, EventType DEF Typed, ScanOK
<1> QED
  BY <1>1 DEF Informed, AwaitKnown, Grows, Remembers

(* The indexer stores, schedules, or dies.                                 *)
LEMMA IndexerMoveInformed ==
    ASSUME Typed, Informed, UNCHANGED chainVars, Remembers,
           disp' = disp \/ disp' = IdleDispatcher,
           \A t \in tasks' : TaskKnown(t)', AwaitKnown', WinnerIsKnown'
    PROVE  Informed'
<1>1. Grows /\ sent' = sent
  BY DEF Grows, chainVars
<1> QED
  BY <1>1, PassKeptInformed, MoveInformed

LEMMA FilesKeptInformed ==
    ASSUME Typed, Informed, UNCHANGED <<chainVars, tasks, claims>>,
           disp' = disp \/ disp' = IdleDispatcher, AwaitKnown', WinnerIsKnown'
    PROVE  Informed' /\ Remembers
<1>1. Remembers /\ tasks \in SUBSET Task
  BY SameRemembers DEF chainVars, Typed, ProcessTypeOK
<1>2. From(tasks', tasks)
  BY DEF From, SameAs
<1>3. \A t \in tasks' : TaskKnown(t)'
  BY <1>1, <1>2, TasksKnownStay DEF Informed
<1> QED
  BY <1>1, <1>3, IndexerMoveInformed

LEMMA DieInformed ==
    ASSUME Typed, Informed, UNCHANGED <<chainVars, tasks, claims>>, NEW why, Die(why),
           why # "honest party not determined"
    PROVE  Informed' /\ Remembers
<1>1. AwaitKnown' /\ WinnerIsKnown'
  BY IdleType DEF Die, AwaitKnown, WinnerIsKnown
<1> QED
  BY <1>1, FilesKeptInformed DEF Die

(* A kill between two writes: what the first one left is as well informed. *)
LEMMA KilledInformed ==
    ASSUME Typed, Informed, UNCHANGED chainVars, Remembers, Die("down"),
           \A t \in tasks' : TaskKnown(t)'
    PROVE  Informed'
<1>1. AwaitKnown' /\ WinnerIsKnown' /\ disp' = IdleDispatcher
  BY IdleType DEF Die, AwaitKnown, WinnerIsKnown
<1> QED
  BY <1>1, IndexerMoveInformed

LEMMA CommitInformed ==
    ASSUME Typed, Informed, Running, UNCHANGED chainVars, Remembers,
           NEW x, x.phase = "await" =>
                    /\ \E e \in Epochs : e = log[x.at].epoch /\ Known(e)'
                    /\ log[x.at].kind = "Verified" => x.verdict # "None",
           NEW cs, NEW torn, \A ts \in torn : From(ts, tasks),
           NEW new, \A t \in new : TaskKnown(t)', Commit(cs, torn, new, x)
    PROVE  Informed'
<1>1. log' = log /\ tasks \in SUBSET Task
  BY DEF chainVars, Typed, ProcessTypeOK
<1>2. CASE tasks' = new /\ idx' = x /\ UNCHANGED <<route, disp>>
  <2>1. AwaitKnown'
    BY <1>1, <1>2 DEF AwaitKnown, Known, Paid, Emitted
  <2>2. WinnerIsKnown'
    BY <1>2 DEF Informed, WinnerIsKnown
  <2> QED
    BY <1>2, <2>1, <2>2, IndexerMoveInformed
<1>3. CASE tasks' \in torn /\ Die("down")
  <2>1. \A t \in tasks' : TaskKnown(t)'
    BY <1>1, <1>3, TasksKnownStay DEF Informed
  <2> QED
    BY <1>3, <2>1, KilledInformed
<1> QED
  BY <1>2, <1>3 DEF Commit

(* The steps of the indexer.                                               *)
LEMMA HandleInformed ==
    ASSUME Typed, Judged, Informed, NEW i \in idx.queue,
           HandleSnapshotSent(i) \/ HandleClaimed(i) \/ HandleUnknown(i)
             \/ Begin(i) \/ BeginChallenged(i)
    PROVE  Informed' /\ Remembers
<1>1. /\ UNCHANGED chainVars /\ tasks \in SUBSET Task /\ IsFiniteSet(tasks)
      /\ claims \in [Epochs -> MaybeClaim] /\ idx \in Indexing
      /\ \A t \in tasks : TaskKnown(t)
      /\ WinnerIsKnown /\ ChainsOK
  BY DEF HandleSnapshotSent, HandleClaimed, HandleUnknown, Begin, BeginChallenged,
         indexerFrame, Typed, ProcessTypeOK, MaybeClaim, Informed
<1>2. ASSUME Delivers("outbox", i)
      PROVE  /\ i \in DOMAIN log /\ i \in Nat /\ log[i].epoch \in Epochs
             /\ log[i].kind = "Claimed" => log[i].arg \in Roots
             /\ log[i].kind = "Challenged" => log[i].arg \in Addresses
             /\ log[i].ts \in Nat
  BY <1>1, <1>2, EventType, LenProperties
  DEF Delivers, Typed, ScanOK, ChainsOK, ChainsTypeOK
<1>3. ASSUME NEW s, Delivers(s, i)
      PROVE  /\ Running /\ idx.phase = "logs"
             /\ Handled(i).phase = "logs"
             /\ Awaiting(i).phase = "await" /\ Awaiting(i).at = i
  BY <1>1, <1>3 DEF Delivers, Handled, Awaiting, Indexing
<1>4. ASSUME NEW x, Proceed(x), x.phase = "logs"
      PROVE  Informed' /\ Remembers
  <2>1. AwaitKnown' /\ WinnerIsKnown'
    BY <1>1, <1>4 DEF Proceed, AwaitKnown, WinnerIsKnown
  <2> QED
    BY <1>1, <1>4, <2>1, FilesKeptInformed DEF Proceed, storeVars
<1>5. ASSUME NEW why, why # "honest party not determined", Panic(why)
      PROVE  Informed' /\ Remembers
  BY <1>1, <1>5, DieInformed DEF Panic, storeVars
<1>6. CASE HandleSnapshotSent(i)
  <2> DEFINE m == sent[i]
             ts == AddTask(tasks, m.epoch, "ExecuteRelay", m.ts + RelayDelay, i)
  <2>1. Delivers("inbox", i) /\ i \in DOMAIN sent
    BY <1>6 DEF HandleSnapshotSent, Delivers, Typed, ScanOK
  <2>2. CASE Proceed(Handled(i))
    BY <1>3, <1>4, <2>1, <2>2
  <2>3. CASE m.mine /\ Schedule(ts, Handled(i))
    <3>1. Known(m.epoch)
      BY <2>1, <2>3 DEF Informed, SentKnown
    <3>2. Remembers
      BY <1>1, <2>3, SameRemembers DEF Schedule, chainVars
    <3>3. m.epoch \in Epochs
      <4>1. sent \in Seq(Message)
        BY <1>1 DEF ChainsOK, ChainsTypeOK
      <4>2. sent[i] \in Message
        BY <2>1, <4>1, ElementOfSeq, LenProperties
      <4> QED
        BY <4>2 DEF Message
    <3>4. PICK e \in Epochs : e = m.epoch
      BY <3>3
    <3>5. \A t \in tasks : TaskKnown(t)'
      BY <1>1, <3>2, TaskKnownStays DEF Task
    <3>6. \A t \in ts : TaskKnown(t)'
      <4>1. Known(e)'
        BY <3>1, <3>2, <3>4 DEF Remembers
      <4> QED
        BY <3>4, <3>5, <4>1, AddTaskKnown
    <3>7. tasks' = ts /\ idx' = Handled(i) /\ UNCHANGED <<route, disp>>
      BY <2>3 DEF Schedule
    <3>8. AwaitKnown' /\ WinnerIsKnown'
      BY <1>1, <1>3, <2>1, <3>7 DEF AwaitKnown, WinnerIsKnown
    <3> HIDE DEF ts
    <3> QED
      BY <1>1, <3>2, <3>6, <3>7, <3>8, IndexerMoveInformed
  <2> QED
    BY <1>6, <2>2, <2>3 DEF HandleSnapshotSent
<1>7. CASE HandleClaimed(i)
  <2>0. PICK e \in Epochs : e = log[i].epoch
    BY <1>2, <1>7 DEF HandleClaimed
  <2> DEFINE c == NewClaim(log[i].arg, log[i].ts)
             cs == StoreClaim(claims, e, c)
             ts == AddTask(tasks, e, "ValidateClaim", log[i].ts, 0)
  <2>1. Delivers("outbox", i) /\ log[i].arg \in Roots /\ log[i].ts \in Nat
    BY <1>2, <1>7 DEF HandleClaimed
  <2>2. CASE Proceed(Handled(i))
    BY <1>3, <1>4, <2>1, <2>2
  <2>3. CASE Panic("Duplicate claim")
    BY <1>5, <2>3
  <2>4. CASE ~Exists(claims, e) /\ Commit(cs, {tasks}, ts, Handled(i))
    <3>1. c \in ClaimData
      BY <2>1 DEF NewClaim, ClaimData, Parties, Addresses
    <3>2. claims' = [claims EXCEPT ![e] = c] /\ claims[e] = NoClaim
      BY <2>4 DEF Commit, StoreClaim, Exists
    <3> HIDE DEF c
    <3>3. Remembers /\ Known(e)'
      BY <1>1, <2>1, <3>1, <3>2, RecordRemembers
    <3>4. \A t \in tasks : TaskKnown(t)'
      BY <1>1, <3>3, TaskKnownStays DEF Task
    <3>5. \A t \in ts : TaskKnown(t)'
      BY <3>3, <3>4, AddTaskKnown
    <3>6. From(tasks, tasks)
      BY DEF From, SameAs
    <3> HIDE DEF cs, ts
    <3> QED
      BY <1>1, <1>3, <2>1, <2>4, <3>3, <3>5, <3>6, CommitInformed
  <2> QED
    BY <1>7, <2>0, <2>2, <2>3, <2>4 DEF HandleClaimed
<1>8. CASE HandleUnknown(i)
  BY <1>3, <1>4, <1>5, <1>8 DEF HandleUnknown
<1>9. CASE Begin(i)
  <2> DEFINE e == log[i].epoch
             v == IF claims[e].root = "correct" THEN "Claimer" ELSE "Challenger"
  <2>1. Delivers("outbox", i) /\ Known(e) /\ e \in Epochs
    BY <1>2, <1>9 DEF Begin, Exists, Known
  <2>2. /\ \/ idx' = Awaiting(i) /\ log[i].kind # "Verified"
           \/ idx' = [Awaiting(i) EXCEPT !.verdict = v]
        /\ UNCHANGED <<tasks, claims, route, disp>>
    BY <1>9 DEF Begin, Proceed, storeVars
  <2>3. /\ idx'.at = i /\ log' = log
        /\ log[i].kind = "Verified" => idx'.verdict # "None"
    BY <1>1, <1>3, <2>1, <2>2 DEF Awaiting, Indexing, chainVars
  <2>4. Remembers
    BY <1>1, <2>2, SameRemembers DEF chainVars
  <2>5. AwaitKnown'
    BY <1>1, <2>1, <2>2, <2>3 DEF AwaitKnown, Known, Paid, Emitted, chainVars
  <2>6. WinnerIsKnown'
    BY <1>1, <2>2 DEF WinnerIsKnown
  <2> QED
    BY <1>1, <2>2, <2>5, <2>6, FilesKeptInformed
<1>10. CASE BeginChallenged(i)
  <2>0. PICK e \in Epochs : e = log[i].epoch
    BY <1>2, <1>10 DEF BeginChallenged
  <2> DEFINE c == [claims[e] EXCEPT !.challenger = log[i].arg]
             ts == Invalidate(tasks, e, Doomed)
  <2>1. /\ Delivers("outbox", i) /\ log[i].arg \in Addresses
        /\ log[i].kind = "Challenged" /\ claims[e] \in ClaimData
    BY <1>1, <1>2, <1>10, <2>0 DEF BeginChallenged, Exists, MaybeClaim
  <2>2. c \in ClaimData /\ c.honest = claims[e].honest
    BY <2>1 DEF ClaimData
  <2>3. Commit([claims EXCEPT ![e].challenger = log[i].arg], {tasks}, ts, Awaiting(i))
    BY <1>10, <2>0 DEF BeginChallenged
  <2>4. claims' = [claims EXCEPT ![e] = c]
    BY <2>3 DEF Commit
  <2> HIDE DEF c
  <2>5. Remembers /\ Known(e)'
    BY <1>1, <2>1, <2>2, <2>4, RecordRemembers
  <2>6. From(ts, tasks) /\ From(tasks, tasks)
    BY <1>1, InvalidateFrom DEF From, SameAs
  <2>7. \A t \in ts : TaskKnown(t)'
    BY <1>1, <2>5, <2>6, TasksKnownStay
  <2>8. Awaiting(i).at = i
    BY <1>3, <2>1
  <2>9. log' = log
    BY <1>1 DEF chainVars
  <2> HIDE DEF ts
  <2> QED
    BY <1>1, <1>3, <2>0, <2>1, <2>3, <2>5, <2>6, <2>7, <2>8, <2>9, CommitInformed
<1> QED
  BY <1>6, <1>7, <1>8, <1>9, <1>10
LEMMA FinishInformed ==
    ASSUME Typed, Judged, Informed,
           FinishVerificationStarted \/ FinishChallenged \/ FinishVerified
    PROVE  Informed' /\ Remembers
<1> DEFINE ev == log[idx.at]
<1>1. /\ UNCHANGED chainVars /\ tasks \in SUBSET Task
      /\ claims \in [Epochs -> MaybeClaim] /\ idx \in Indexing
      /\ \A t \in tasks : TaskKnown(t)
      /\ WinnerIsKnown /\ ChainsOK /\ Running /\ idx.phase = "await"
  BY DEF FinishVerificationStarted, FinishChallenged, FinishVerified, Awaits,
         indexerFrame, Typed, ProcessTypeOK, MaybeClaim, Informed
<1>2. idx.at \in DOMAIN log /\ ev.ts \in Nat /\ ev.epoch \in Epochs
  BY <1>1, EventType DEF Typed, ScanOK, ChainsOK, ChainsTypeOK
<1>3. PICK e \in Epochs : e = ev.epoch
  BY <1>2
<1>4. Known(e) /\ (ev.kind = "Verified" => idx.verdict # "None")
  BY <1>1, <1>3 DEF Informed, AwaitKnown
<1>5. Resumed.phase = "logs"
  BY <1>1 DEF Resumed, Indexing
<1>6. CASE Panic("Cannot update claim")
  BY <1>1, <1>6, DieInformed DEF Panic, storeVars
<1>7. ASSUME NEW kinds
      PROVE  From(tasks, tasks) /\ From(Invalidate(tasks, e, kinds), tasks)
  BY <1>1, InvalidateFrom DEF From, SameAs
<1>8. CASE FinishVerificationStarted
  <2> DEFINE c == [claims[e] EXCEPT !.verification = ev.ts]
             without == Invalidate(tasks, e, {"StartVerification"})
             ts == AddTask(without, e, "VerifySnapshot",
                           ev.ts + ChallengePeriod + Slack, 0)
  <2>1. CASE /\ Exists(claims, e)
             /\ Commit([claims EXCEPT ![e].verification = ev.ts], {tasks, without},
                       ts, Resumed)
    <3>1. claims[e] \in ClaimData
      BY <1>1, <2>1 DEF Exists, MaybeClaim
    <3>2. c \in ClaimData /\ c.honest = claims[e].honest
      BY <1>2, <3>1 DEF ClaimData
    <3>3. claims' = [claims EXCEPT ![e] = c]
      BY <2>1 DEF Commit
    <3> HIDE DEF c
    <3>4. Remembers /\ Known(e)'
      BY <1>1, <3>2, <3>3, RecordRemembers
    <3>5. From(tasks, tasks) /\ From(without, tasks)
      BY <1>7
    <3> HIDE DEF without
    <3>6. \A t \in without : TaskKnown(t)'
      BY <1>1, <3>4, <3>5, TasksKnownStay
    <3>7. \A t \in ts : TaskKnown(t)'
      BY <3>4, <3>6, AddTaskKnown
    <3> HIDE DEF ts
    <3> QED
      BY <1>1, <1>5, <2>1, <3>4, <3>5, <3>7, CommitInformed
  <2> QED
    BY <1>3, <1>6, <1>8, <2>1 DEF FinishVerificationStarted
<1>9. CASE FinishChallenged
  <2> DEFINE ts == AddTask(tasks, e, "SendSnapshot", ev.ts, 0)
  <2>1. tasks' = ts /\ idx' = Resumed /\ UNCHANGED <<claims, route, disp>>
    BY <1>3, <1>9 DEF FinishChallenged, Schedule
  <2>2. Remembers
    BY <1>1, <2>1, SameRemembers DEF chainVars
  <2>3. Known(e)'
    BY <1>4, <2>2 DEF Remembers
  <2>4. \A t \in tasks : TaskKnown(t)'
    BY <1>1, <2>2, TaskKnownStays DEF Task
  <2>5. \A t \in ts : TaskKnown(t)'
    BY <2>3, <2>4, AddTaskKnown
  <2>6. AwaitKnown' /\ WinnerIsKnown'
    BY <1>1, <1>5, <2>1 DEF AwaitKnown, WinnerIsKnown
  <2> HIDE DEF ts
  <2> QED
    BY <1>1, <2>1, <2>2, <2>5, <2>6, IndexerMoveInformed
<1>10. CASE FinishVerified
  <2> DEFINE c == [claims[e] EXCEPT !.honest = idx.verdict]
             without == Invalidate(tasks, e, Doomed \cup {"ExecuteRelay"})
             ts == AddTask(without, e, "WithdrawDeposit", ev.ts, 0)
  <2>1. CASE /\ Exists(claims, e)
             /\ Commit([claims EXCEPT ![e].honest = idx.verdict], {tasks, without},
                       ts, Resumed)
    <3>1. claims[e] \in ClaimData /\ idx.verdict \in Parties
      BY <1>1, <2>1 DEF Exists, MaybeClaim, Indexing
    <3>2. c \in ClaimData /\ c.honest # "None"
      BY <1>4, <1>10, <3>1 DEF ClaimData, FinishVerified, Awaits
    <3>3. claims' = [claims EXCEPT ![e] = c]
      BY <2>1 DEF Commit
    <3> HIDE DEF c
    <3>4. Remembers /\ Known(e)' /\ Decided(e)'
      BY <1>1, <3>2, <3>3, RecordRemembers
    <3>5. From(tasks, tasks) /\ From(without, tasks)
      BY <1>7
    <3> HIDE DEF without
    <3>6. \A t \in without : TaskKnown(t)'
      BY <1>1, <3>4, <3>5, TasksKnownStay
    <3>7. \A t \in ts : TaskKnown(t)'
      BY <3>4, <3>6, AddTaskKnown
    <3> HIDE DEF ts
    <3> QED
      BY <1>1, <1>5, <2>1, <3>4, <3>5, <3>7, CommitInformed
  <2> QED
    BY <1>3, <1>6, <1>10, <2>1 DEF FinishVerified
<1> QED
  BY <1>8, <1>9, <1>10

LEMMA IndexerInformed ==
    ASSUME Typed, Judged, Informed, IndexerStep \/ IndexerFault
    PROVE  Informed' /\ Remembers
<1>1. CASE Handle
  BY <1>1, HandleInformed, FinishInformed DEF Handle
<1>2. CASE ScanNothing \/ ScanChunk \/ ScanFailed \/ FinishChunk
  <2>1. /\ UNCHANGED <<chainVars, tasks, claims, route, disp>>
        /\ idx'.phase # "await"
    BY <1>2
    DEF ScanNothing, ScanChunk, ScanFailed, FinishChunk, ScanResult, indexerFrame,
        storeVars, Typed, ProcessTypeOK, Indexing
  <2>2. AwaitKnown' /\ WinnerIsKnown'
    BY <2>1 DEF AwaitKnown, WinnerIsKnown, Informed
  <2> QED
    BY <2>1, <2>2, FilesKeptInformed
<1>3. CASE HandlerFails \/ TargetSearchFailed
  BY <1>3, DieInformed
  DEF HandlerFails, TargetSearchFailed, Panic, indexerFrame, storeVars
<1> QED
  BY <1>1, <1>2, <1>3 DEF IndexerStep, IndexerFault
-----------------------------------------------------------------------------
(* The dispatcher. *)

LEMMA PassKnownStays ==
    ASSUME Remembers, NEW ready \in SUBSET Task, \A t \in ready : TaskKnown(t),
           disp'.ready = ready, disp'.phase \notin Busy
    PROVE  PassKnown'
<1>1. From(ready, ready) /\ "result" \in Busy
  BY DEF From, SameAs, Busy
<1>2. \A t \in ready : TaskKnown(t)'
  BY <1>1, TasksKnownStay
<1> QED
  BY <1>1, <1>2 DEF PassKnown

(* A pass that goes on to its next task. *)
LEMMA NextTaskInformed ==
    ASSUME Typed, Informed, Remembers, noTransaction, UNCHANGED <<route, idx>>,
           \A t \in tasks' : TaskKnown(t)', NEW ready \in SUBSET disp.ready,
           disp' = Pass(ready, disp.now)
    PROVE  Informed'
<1>1. Grows /\ sent' = sent /\ tasks \in SUBSET Task
  BY DEF Grows, noTransaction, chainVars, Typed, ProcessTypeOK
<1>2. PassKnown'
  <2>1. ready \in SUBSET Task /\ \A t \in ready : TaskKnown(t)
    BY DEF Typed, ProcessTypeOK, Dispatching, Informed, PassKnown
  <2> QED
    BY <2>1, PassJudgedOK, PassKnownStays
<1>3. AwaitKnown' /\ WinnerIsKnown'
  BY <1>1, AwaitKeptInformed DEF WinnerIsKnown, Informed
<1> QED
  BY <1>1, <1>2, <1>3, MoveInformed

LEMMA EndInformed ==
    ASSUME Typed, Informed, noTransaction, disp.phase \in Busy,
           Complete \/ Reschedule \/ Keep \/ (Forget /\ Paid(disp.task.epoch))
    PROVE  Informed' /\ Remembers
<1>1. /\ disp.task \in Task /\ tasks \in SUBSET Task /\ UNCHANGED chainVars
      /\ IsFiniteSet(tasks) /\ disp.now + RetryDelay \in Nat
  BY ProcessAssumption DEF Typed, ProcessTypeOK, PassOK, HoldsTask, noTransaction, Dispatching
<1>2. \/ disp' = Pass(disp.ready, disp.now) /\ UNCHANGED <<route, idx>>
      \/ Die("down")
  BY DEF Complete, Reschedule, Keep, Forget, Succeed, MoveOn
<1>3. From(tasks', tasks)
  <2>1. CASE tasks' = tasks \/ tasks' = RemoveTask(tasks, disp.task)
    BY <1>1, <2>1, RemoveTaskFrom DEF From, SameAs
  <2>2. CASE Reschedule
    <3> DEFINE later == RescheduleTask(tasks, disp.task, disp.now + RetryDelay)
    <3>1. later \in SUBSET Task /\ From(later, tasks)
      BY <1>1, RescheduleTaskType, RescheduleTaskFrom
    <3>2. tasks' = RemoveTask(later, disp.task) \/ tasks' = later
      BY <2>2 DEF Reschedule, Succeed
    <3> HIDE DEF later
    <3>3. From(tasks', later)
      BY <3>1, <3>2, RemoveTaskFrom DEF From, SameAs
    <3> QED
      BY <3>1, <3>3 DEF From, SameAs
  <2> QED
    BY <2>1, <2>2 DEF Complete, Keep, Forget, Succeed
<1>4. Remembers
  <2>1. CASE claims' = claims
    BY <1>1, <2>1, SameRemembers DEF chainVars
  <2>2. CASE Forget /\ Paid(disp.task.epoch)
    <3>1. PICK e \in Epochs : e = disp.task.epoch
      BY <1>1 DEF Task
    <3> QED
      BY <1>1, <2>2, <3>1, ForgetRemembers DEF Forget
  <2> QED
    BY <2>1, <2>2 DEF Complete, Reschedule, Keep
<1> QED
  <2>1. \A t \in tasks' : TaskKnown(t)'
    BY <1>1, <1>3, <1>4, TasksKnownStay DEF Informed
  <2>2. CASE disp' = Pass(disp.ready, disp.now) /\ UNCHANGED <<route, idx>>
    <3>1. disp.ready \in SUBSET disp.ready
      OBVIOUS
    <3> QED
      BY <1>4, <2>1, <2>2, <3>1, NextTaskInformed
  <2>3. CASE Die("down")
    BY <1>1, <1>4, <2>1, <2>3, KilledInformed
  <2> QED
    BY <1>2, <2>2, <2>3

(* A task that waits, or has its answer. *)
LEMMA HoldInformed ==
    ASSUME Typed, Informed, Remembers, Grows, UNCHANGED <<tasks, route, idx>>,
           disp'.ready \subseteq disp.ready,
           \E t \in Task : TaskKnown(t) /\ disp'.task = t,
           disp'.phase = "result" /\ disp'.result = "ok"
             /\ disp'.task.kind = "WithdrawDeposit" =>
                \E e \in Epochs : e = disp'.task.epoch /\ Paid(e)',
           \A i \in DOMAIN sent' :
              i \in DOMAIN sent \/ (sent'[i].mine =>
                                    \E e \in Epochs : sent'[i].epoch = e /\ Known(e)')
    PROVE  Informed'
<1>1. PICK t \in Task : TaskKnown(t) /\ disp'.task = t
  OBVIOUS
<1>2. TaskKnown(t)' /\ t.epoch \in Epochs
  BY <1>1, TaskKnownStays DEF Task
<1>3. \A u \in disp'.ready : TaskKnown(u)'
  <2>1. disp'.ready \in SUBSET Task /\ \A u \in disp'.ready : TaskKnown(u)
    BY DEF Typed, ProcessTypeOK, Dispatching, Informed, PassKnown
  <2> QED
    BY <2>1, TaskKnownStays DEF Task
<1>4. PassKnown'
  <2>1. disp'.phase \in Busy => (TaskKnown(disp.task))'
    BY <1>1, <1>2 DEF TaskKnown
  <2> QED
    BY <1>3, <2>1 DEF PassKnown, Paid
<1>5. \A u \in tasks' : TaskKnown(u)'
  BY TaskKnownStays DEF Informed, Typed, ProcessTypeOK, Task
<1>6. AwaitKnown' /\ WinnerIsKnown'
  BY AwaitKeptInformed DEF WinnerIsKnown, Informed
<1> QED
  BY <1>4, <1>5, <1>6, MoveInformed

LEMMA WaitInformed ==
    ASSUME Typed, Informed, noTransaction, disp.phase \in Busy, NEW phase,
           phase # "result", NEW claim, Wait(phase, claim)
    PROVE  Informed' /\ Remembers
<1>1. /\ disp.task \in Task /\ TaskKnown(disp.task) /\ UNCHANGED chainVars
      /\ disp \in Dispatching
  BY DEF Typed, ProcessTypeOK, PassOK, HoldsTask, noTransaction, Informed, PassKnown
<1>2. Grows /\ Remembers /\ sent' = sent
  BY <1>1, SameRemembers DEF Grows, chainVars, Wait
<1>3. disp'.ready = disp.ready /\ disp'.task = disp.task /\ disp'.phase = phase
  BY <1>1 DEF Wait, Dispatching
<1> QED
  BY <1>1, <1>2, <1>3, HoldInformed DEF Wait
LEMMA PollInformed ==
    ASSUME Typed, Informed, Poll \/ ReadNow \/ ReadNowFailed
    PROVE  Informed' /\ Remembers
<1>1. /\ UNCHANGED chainVars /\ UNCHANGED <<tasks, claims, route, idx>>
      /\ disp.phase \notin Busy /\ disp \in Dispatching /\ tasks \in SUBSET Task
  BY DEF Poll, ReadNow, ReadNowFailed, Busy, Typed, ProcessTypeOK, noTransaction
<1>2. Grows /\ Remembers /\ sent' = sent
  BY <1>1, SameRemembers DEF Grows, chainVars
<1>3. PICK ready \in SUBSET Task :
         /\ \A t \in ready : TaskKnown(t)
         /\ disp'.ready = ready /\ disp'.phase \notin Busy
  <2>1. CASE Poll
    BY <1>1, <2>1 DEF Poll, Dispatching, Busy, Informed
  <2>2. CASE ReadNow
    <3> DEFINE ready == {t \in disp.ready : clock >= t.after}
    <3>1. disp' = Pass(ready, clock)
      BY <2>2 DEF ReadNow
    <3>2. ready \in SUBSET Task /\ \A t \in ready : TaskKnown(t)
      BY <1>1 DEF Informed, PassKnown, Dispatching
    <3> HIDE DEF ready
    <3> QED
      BY <3>1, <3>2, PassJudgedOK
  <2>3. CASE ReadNowFailed
    <3>1. disp'.ready = {} /\ disp'.phase \notin Busy
      BY <2>3, IdleType DEF ReadNowFailed, Busy
    <3> QED
      BY <3>1
  <2> QED
    BY <2>1, <2>2, <2>3
<1>4. PassKnown'
  BY <1>2, <1>3, PassKnownStays
<1>5. AwaitKnown' /\ WinnerIsKnown'
  BY <1>1, <1>2, AwaitKeptInformed DEF WinnerIsKnown, Informed
<1>6. \A t \in tasks' : TaskKnown(t)'
  BY <1>1, <1>2, TaskKnownStays DEF Informed, Task
<1> QED
  BY <1>2, <1>4, <1>5, <1>6, MoveInformed

LEMMA BeginTaskInformed ==
    ASSUME Typed, Informed, NEW t \in disp.ready, BeginTask(t)
    PROVE  Informed' /\ Remembers
<1> DEFINE taken == [disp EXCEPT !.ready = @ \ {t}, !.task = t]
<1>1. /\ noTransaction /\ UNCHANGED chainVars /\ disp \in Dispatching
      /\ t \in Task /\ TaskKnown(t) /\ tasks \in SUBSET Task
  BY DEF BeginTask, Typed, ProcessTypeOK, Dispatching, Informed, PassKnown, noTransaction
<1>2. Grows /\ sent' = sent
  BY <1>1 DEF Grows, chainVars
<1>3. claims' = claims => Remembers
  BY <1>1, SameRemembers DEF chainVars
<1>4. ASSUME disp'.ready = disp.ready \ {t}, disp'.task = t, disp'.phase # "result",
             UNCHANGED <<tasks, claims, route, idx>>
      PROVE  Informed' /\ Remembers
  BY <1>1, <1>2, <1>3, <1>4, HoldInformed
<1>7. CASE /\ t.kind \in DOMAIN FirstWait
           /\ disp' = [taken EXCEPT !.phase = FirstWait[t.kind]]
           /\ UNCHANGED <<tasks, claims, route, idx>>
  <2>1. FirstWait[t.kind] # "result"
    BY <1>7 DEF FirstWait
  <2>2. disp'.ready = disp.ready \ {t} /\ disp'.task = t /\ disp'.phase # "result"
    BY <1>1, <1>7, <2>1 DEF Dispatching
  <2> QED
    BY <1>4, <1>7, <2>2
<1>8. CASE /\ disp' = [taken EXCEPT !.phase = "send", !.claim = claims[t.epoch]]
           /\ UNCHANGED <<tasks, claims, route, idx>>
  <2>1. disp'.ready = disp.ready \ {t} /\ disp'.task = t /\ disp'.phase # "result"
    BY <1>1, <1>8 DEF Dispatching
  <2> QED
    BY <1>4, <1>8, <2>1
<1>5. CASE Die("No claim found") /\ UNCHANGED <<tasks, claims>>
  BY <1>1, <1>5, DieInformed
<1>6. CASE /\ tasks' = RemoveTask(tasks, t)
           /\ disp' = Pass(disp.ready \ {t}, disp.now)
           /\ UNCHANGED <<claims, route, idx>>
  <2>1. From(tasks', tasks) /\ disp.ready \ {t} \in SUBSET disp.ready
    BY <1>1, <1>6, RemoveTaskFrom
  <2>2. \A u \in tasks' : TaskKnown(u)'
    BY <1>1, <1>3, <1>6, <2>1, TasksKnownStay DEF Informed
  <2> QED
    BY <1>1, <1>3, <1>6, <2>1, <2>2, NextTaskInformed
<1> QED
  BY <1>5, <1>6, <1>7, <1>8 DEF BeginTask

(* A hash that is zero is the hash of a deposit that was withdrawn, if the *)
(* epoch is known.                                                         *)
LEMMA ZeroIsPaid ==
    ASSUME Judged, NEW e \in Epochs, Known(e), claimHash[e] = NoClaim
    PROVE  Paid(e)
BY DEF Judged, FilesJudged, Witnessed, ClaimedAs, Known, Paid, Emitted

LEMMA CheckInformed ==
    ASSUME Typed, Judged, Informed,
           CheckFinality \/ CheckHash \/ CheckSpent
             \/ RequestFailed \/ BlockSearchFailed \/ OutOfFunds
    PROVE  Informed' /\ Remembers
<1>1. noTransaction /\ UNCHANGED chainVars /\ disp.phase \in Busy
  BY DEF CheckFinality, CheckHash, CheckSpent, RequestFailed, BlockSearchFailed,
         OutOfFunds, Doing, Busy, noTransaction
<1>2. PICK e \in Epochs : e = disp.task.epoch
  BY <1>1 DEF Typed, PassOK, HoldsTask, Task
<1>3. Known(e) /\ (disp.task.kind = "WithdrawDeposit" => Decided(e))
  BY <1>1, <1>2 DEF Informed, PassKnown, TaskKnown
<1>4. CASE CheckFinality
  BY <1>1, <1>4, EndInformed, WaitInformed, DieInformed DEF CheckFinality
<1>5. CASE CheckHash
  <2>1. claimHash[e] = NoClaim => Paid(e)
    BY <1>3, ZeroIsPaid
  <2>2. ~(claimHash[e] # NoClaim /\ claims[e] # NoClaim /\ claims[e].honest = "None")
    BY <1>3, <1>5 DEF CheckHash, Doing, Decided, Paid
  <2> QED
    BY <1>1, <1>2, <1>5, <2>1, <2>2, EndInformed, WaitInformed, DieInformed DEF CheckHash
<1>6. CASE CheckSpent
  BY <1>1, <1>6, EndInformed, WaitInformed DEF CheckSpent
<1>7. CASE RequestFailed \/ OutOfFunds
  BY <1>1, <1>7, EndInformed DEF RequestFailed, OutOfFunds
<1>8. CASE BlockSearchFailed
  BY <1>1, <1>8, DieInformed DEF BlockSearchFailed
<1> QED
  BY <1>4, <1>5, <1>6, <1>7, <1>8
LEMMA JudgeInformed ==
    ASSUME Typed, Informed, Judge
    PROVE  Informed' /\ Remembers
<1>1. /\ noTransaction /\ UNCHANGED chainVars /\ claims' = claims
      /\ tasks \in SUBSET Task /\ disp.task \in Task /\ TaskKnown(disp.task)
      /\ IsFiniteSet(tasks) /\ disp.now \in Nat
  BY DEF Judge, Doing, Busy, Typed, ProcessTypeOK, PassOK, HoldsTask, Informed, PassKnown,
         noTransaction, Dispatching
<1>2. Remembers
  BY <1>1, SameRemembers DEF chainVars
<1>3. PICK e \in Epochs : e = disp.task.epoch
  BY <1>1 DEF Task
<1>4. Known(e)'
  BY <1>1, <1>2, <1>3 DEF Remembers, TaskKnown
<1>5. PICK ts \in SUBSET Task : Succeed(ts) /\ \A t \in ts : TaskKnown(t)'
  <2> DEFINE start == AddTask(tasks, e, "StartVerification",
                              disp.now + StartDelay + Slack, 0)
             challenge == AddTask(tasks, e, "Challenge", disp.now, 0)
  <2>1. \A t \in tasks : TaskKnown(t)'
    BY <1>1, <1>2, TaskKnownStays DEF Informed, Task
  <2>2. (\A t \in start : TaskKnown(t)') /\ (\A t \in challenge : TaskKnown(t)')
    BY <1>4, <2>1, AddTaskKnown
  <2>3. start \in SUBSET Task /\ challenge \in SUBSET Task
    <3>1. {"StartVerification", "Challenge"} \subseteq Kinds /\ 0 \in Nat
      BY DEF Kinds
    <3>2. disp.now + StartDelay + Slack \in Nat
      BY <1>1, ChainsAssumption, ProcessAssumption
    <3> QED
      BY <1>1, <3>1, <3>2, AddTaskType
  <2>4. Succeed(start) \/ Succeed(challenge)
    BY <1>3 DEF Judge
  <2> HIDE DEF start, challenge
  <2> QED
    BY <2>2, <2>3, <2>4
<1>6. CASE /\ tasks' = RemoveTask(ts, disp.task)
           /\ disp' = Pass(disp.ready, disp.now) /\ UNCHANGED <<route, idx>>
  <2>1. From(tasks', ts) /\ disp.ready \in SUBSET disp.ready
    BY <1>6, RemoveTaskFrom
  <2>2. \A t \in tasks' : TaskKnown(t)'
    BY <1>5, <2>1 DEF From, SameAs, TaskKnown
  <2> QED
    BY <1>1, <1>2, <1>6, <2>1, <2>2, NextTaskInformed
<1>7. CASE tasks' = ts /\ Die("down")
  BY <1>1, <1>2, <1>5, <1>7, KilledInformed
<1> QED
  BY <1>5, <1>6, <1>7 DEF Succeed, MoveOn

(* The transactions. *)
LEMMA SendInformed ==
    ASSUME Typed, Judged, Informed, Land \/ Revert
    PROVE  Informed' /\ Remembers
<1> DEFINE t == disp.task
<1>1. /\ UNCHANGED <<tasks, claims, route, idx>>
      /\ t \in Task /\ TaskKnown(t) /\ disp.claim \in MaybeClaim
      /\ t.kind = "SendSnapshot" => disp.claim # NoClaim
      /\ disp \in Dispatching /\ ChainsOK
  BY DEF Land, Revert, Typed, ProcessTypeOK, PassOK, HoldsTask, Busy,
         Dispatching, MaybeClaim, Informed, PassKnown
<1>2. PICK e \in Epochs : e = t.epoch
  BY <1>1 DEF Task
<1>3. PICK result : Answered(result)
  BY DEF Land, Revert
<1>4. /\ disp'.ready = disp.ready /\ disp'.task = t
      /\ disp'.phase = "result" /\ disp'.result = result
  BY <1>1, <1>3 DEF Answered, Dispatching
<1>5. CASE Revert
  <2>1. Grows /\ Remembers /\ sent' = sent
    BY <1>1, <1>5, SameRemembers DEF Revert, noTransaction, chainVars, Grows
  <2>2. disp'.result # "ok"
    BY <1>1, <1>5 DEF Revert, Answered, Dispatching
  <2> QED
    BY <1>1, <1>4, <2>1, <2>2, HoldInformed
<1>6. CASE Land
  <2>1. Transaction(t.kind, e, disp.claim, t.position)
    BY <1>2, <1>6 DEF Land
  <2>2. ChainStep(Epochs)
    BY <1>1, <2>1
    DEF Transaction, ChainStep, Addresses, Relay, CanRelay, MaybeClaim
  <2>3. Grows /\ Remembers
    BY <1>1, <2>2, ChainStepType, ChainRemembers
  <2>4. t.kind = "WithdrawDeposit" => Paid(e)'
    <3> SUFFICES ASSUME t.kind = "WithdrawDeposit" PROVE Paid(e)'
      OBVIOUS
    <3>1. WithdrawDeposit(e, disp.claim)
      BY <2>1 DEF Transaction
    <3>2. claimHash'[e] = NoClaim /\ claimHash[e] # NoClaim /\ log' = log
      BY <1>1, <3>1 DEF WithdrawDeposit, CanWithdraw, ChainsOK, ChainsTypeOK
    <3>3. Emitted("Claimed", e)
      BY <3>2 DEF Judged, ChainJudged, Witnessed, ClaimedAs, Emitted
    <3> QED
      BY <3>2, <3>3 DEF Paid, Emitted
  <2>5. \A i \in DOMAIN sent' : i \in DOMAIN sent \/ sent'[i].epoch = e
    <3>1. CASE SendSnapshot(e, disp.claim, TRUE)
      <4> DEFINE m == [epoch |-> e, ts |-> clock, mine |-> TRUE, claim |-> disp.claim]
      <4>1. sent \in Seq(Message)
        BY <1>1 DEF ChainsOK, ChainsTypeOK
      <4>2. m \in Message
        <5>1. disp.claim \in ClaimData /\ clock \in Nat
          BY <1>1, <2>1, <3>1 DEF MaybeClaim, ChainsOK, ChainsTypeOK, Transaction,
             SendSnapshot, Challenge, StartVerification, VerifySnapshot, WithdrawDeposit,
             CanWithdraw, CanStart, CanVerify, CanChallenge, Open, Relay
        <5> QED
          BY <5>1 DEF Message
      <4>3. sent' = Append(sent, m) /\ m.epoch = e
        BY <3>1 DEF SendSnapshot
      <4> HIDE DEF m
      <4> QED
        BY <4>1, <4>2, <4>3, AppendProperties, LenProperties
    <3>2. CASE sent' = sent
      BY <3>2
    <3> QED
      BY <2>1, <3>1, <3>2
      DEF Transaction, Challenge, StartVerification, VerifySnapshot, WithdrawDeposit, Relay
  <2>6. Known(e)'
    BY <1>1, <1>2, <2>3 DEF TaskKnown, Remembers
  <2>7. e = disp'.task.epoch
    BY <1>2, <1>4
  <2>8. \A i \in DOMAIN sent' :
           i \in DOMAIN sent \/ (\E x \in Epochs : sent'[i].epoch = x /\ Known(x)')
    BY <2>5, <2>6
  <2>9. disp'.task.kind = "WithdrawDeposit" =>
           \E x \in Epochs : x = disp'.task.epoch /\ Paid(x)'
    BY <1>4, <2>4, <2>7
  <2> QED
    BY <1>1, <1>4, <2>3, <2>8, <2>9, HoldInformed
<1> QED
  BY <1>5, <1>6

LEMMA ResultInformed ==
    ASSUME Typed, Judged, Informed,
           Confirmed \/ ChallengeFailed \/ StartVerificationFailed
             \/ VerifySnapshotFailed \/ WithdrawFailed \/ SendFailed \/ RelayFailed
    PROVE  Informed' /\ Remembers
<1>1. noTransaction /\ disp.phase = "result"
  BY DEF Confirmed, ChallengeFailed, StartVerificationFailed, VerifySnapshotFailed,
         WithdrawFailed, SendFailed, RelayFailed, Failed, Doing
<1>2. PICK e \in Epochs : e = disp.task.epoch
  BY <1>1 DEF Typed, PassOK, HoldsTask, Task, Busy
<1>3. Known(e) /\ "result" \in Busy
  BY <1>1, <1>2 DEF Informed, PassKnown, TaskKnown, Busy
<1>4. CASE Confirmed
  BY <1>1, <1>3, <1>4, EndInformed DEF Confirmed, Informed, PassKnown
<1>5. CASE WithdrawFailed
  <2>1. claimHash[e] = NoClaim => Paid(e)
    BY <1>3, ZeroIsPaid
  <2> QED
    BY <1>1, <1>2, <1>3, <1>5, <2>1, EndInformed DEF WithdrawFailed
<1>6. CASE ChallengeFailed \/ StartVerificationFailed \/ VerifySnapshotFailed
             \/ SendFailed \/ RelayFailed
  BY <1>1, <1>3, <1>6, EndInformed
  DEF ChallengeFailed, StartVerificationFailed, VerifySnapshotFailed, DropIfEmitted,
      SendFailed, RelayFailed, RescheduleIfInvalid
<1> QED
  BY <1>4, <1>5, <1>6

LEMMA DispatcherInformed ==
    ASSUME Typed, Judged, Informed, DispatcherStep \/ DispatcherFault
    PROVE  Informed' /\ Remembers
<1>1. CASE Work \/ DispatcherFault
  BY <1>1, PollInformed, BeginTaskInformed, CheckInformed, JudgeInformed
  DEF Work, DispatcherFault
<1>2. CASE Sending
  BY <1>2, SendInformed, ResultInformed DEF Sending
<1> QED
  BY <1>1, <1>2 DEF DispatcherStep
(* Other validators know the chain, and their messages are not this one's. *)
LEMMA EnvironmentInformed ==
    ASSUME Typed, Judged, Informed, Environment
    PROVE  Informed' /\ Remembers
<1>1. UNCHANGED <<tasks, claims, route, idx, disp>>
  BY DEF Environment, storeVars, procVars
<1>2. ChainStep({})
  <2>1. \A e \in Epochs : claimHash[e] \in MaybeClaim
    BY DEF Typed, ChainsOK, ChainsTypeOK, MaybeClaim
  <2>2. Others => ChainStep({})
    BY <2>1, ChainsAssumption DEF Others, ChainStep, Addresses, Open, MaybeClaim
  <2> QED
    BY <2>2 DEF Environment, ChainStep
<1>3. Grows /\ Remembers
  BY <1>1, <1>2, ChainStepType, ChainRemembers DEF Typed
<1>4. \A i \in DOMAIN sent' : i \in DOMAIN sent \/ ~sent'[i].mine
  <2>1. CASE \E e \in Epochs : SendSnapshot(e, claimHash[e], FALSE) /\ Open(e, claimHash[e])
    <3>1. PICK e \in Epochs : SendSnapshot(e, claimHash[e], FALSE) /\ claimHash[e] # NoClaim
      BY <2>1 DEF Open
    <3> DEFINE m == [epoch |-> e, ts |-> clock, mine |-> FALSE, claim |-> claimHash[e]]
    <3>2. sent \in Seq(Message) /\ m \in Message
      BY <3>1 DEF Typed, ChainsOK, ChainsTypeOK, Message
    <3>3. sent' = Append(sent, m) /\ ~m.mine
      BY <3>1 DEF SendSnapshot
    <3> HIDE DEF m
    <3> QED
      BY <3>2, <3>3, AppendProperties, LenProperties
  <2>2. CASE sent' = sent
    BY <2>2
  <2> QED
    BY <2>1, <2>2
    DEF Environment, Tick, Others, Claim, Challenge, StartVerification, VerifySnapshot,
        WithdrawDeposit, Relay
<1>5. PassKnown' /\ AwaitKnown' /\ WinnerIsKnown'
  BY <1>1, <1>3, PassKeptInformed, AwaitKeptInformed DEF WinnerIsKnown, Informed
<1>6. \A t \in tasks' : TaskKnown(t)'
  BY <1>1, <1>3, TaskKnownStays DEF Informed, Typed, ProcessTypeOK, Task
<1> QED
  BY <1>3, <1>4, <1>5, <1>6, MoveInformed

-----------------------------------------------------------------------------

LEMMA InitInformed == Init => Informed
<1> SUFFICES ASSUME Init PROVE Informed
  OBVIOUS
<1> USE DEF Init, ChainsInit, ProcessInit
<1>1. PassKnown
  BY IdleType DEF PassKnown, Busy
<1>2. AwaitKnown
  BY IdleType DEF AwaitKnown
<1> QED
  BY <1>1, <1>2 DEF Informed, SentKnown, WinnerIsKnown

LEMMA NextInformed ==
    ASSUME Typed, Judged, Informed, [Next]_vars
    PROVE  Informed' /\ Remembers
<1>1. CASE FirstStart \/ Restart \/ UNCHANGED vars
  <2>1. /\ UNCHANGED <<chainVars, tasks, claims, idx, disp>>
        /\ route' = route \/ route' = "up"
    BY <1>1 DEF FirstStart, Restart, Start, vars, storeVars, procVars
  <2>2. Grows /\ Remembers
    BY <2>1, SameRemembers DEF Grows, chainVars
  <2>3. AwaitKnown' /\ WinnerIsKnown'
    BY <2>1, <2>2, AwaitKeptInformed DEF WinnerIsKnown, Informed
  <2> QED
    BY <2>1, <2>3, FilesKeptInformed
<1>2. CASE Kill
  BY <1>2, DieInformed DEF Kill, storeVars
<1>3. CASE Next /\ ~(FirstStart \/ Restart \/ Kill)
  BY <1>3, EnvironmentInformed, IndexerInformed, DispatcherInformed DEF Next
<1> QED
  BY <1>1, <1>2, <1>3

(* withdraw_deposit.rs's panic on a claim without a winner is never met:   *)
(* the task and every copy of it are younger than the winner in the file,  *)
(* and the file forgets a winner only with the deposit.                    *)
THEOREM WinnersAreKnown == Spec => []WinnerIsKnown
<1>1. Informed => WinnerIsKnown
  BY DEF Informed
<1>2. Typed /\ Judged /\ Informed /\ [Next]_vars => (Typed /\ Judged /\ Informed)'
  BY NextTyped, NextJudged, NextInformed
<1> QED
  BY <1>1, <1>2, InitTyped, InitJudged, InitInformed, PTL DEF Spec

(* A record leaves the claims file (remove_claim, on a receipt or on a     *)
(* claim hash that reads zero) only when the outbox has paid its deposit.  *)
THEOREM ForgetsOnlyPaid == Spec => ForgetsOnlySettled
<1> DEFINE Kept == \A e \in Epochs :
                      claims[e] # NoClaim /\ claims'[e] = NoClaim =>
                          claimHash[e] = NoClaim
<1>1. Typed /\ Judged /\ Informed /\ [Next]_vars => (Typed /\ Judged /\ Informed)'
  BY NextTyped, NextJudged, NextInformed
<1>2. Typed /\ Judged /\ Informed /\ [Next]_vars => [Kept]_vars
  <2> SUFFICES ASSUME Typed, Judged, Informed, [Next]_vars,
                      NEW e \in Epochs, claims[e] # NoClaim, claims'[e] = NoClaim
               PROVE  claimHash[e] = NoClaim
    OBVIOUS
  <2>1. Remembers /\ Known(e)
    BY NextInformed DEF Known
  <2>2. claimHash'[e] = NoClaim
    BY <2>1 DEF Remembers, Known, Paid
  <2> QED
    BY <2>1, <2>2 DEF Remembers
<1> QED
  BY <1>1, <1>2, InitTyped, InitJudged, InitInformed, PTL DEF Spec, ForgetsOnlySettled
=============================================================================
