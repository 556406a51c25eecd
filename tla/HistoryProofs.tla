---------------------------- MODULE HistoryProofs ----------------------------
(***************************************************************************)
(* The claims file tells the truth about the outbox and does not fall      *)
(* behind its cursor, for every value of the constants: StoredIsHistory    *)
(* and NothingMissed.  Neither is inductive.  The invariant says which     *)
(* entries of the log a scan under way has read: they are told in the file *)
(* or their deposit has been withdrawn, and those still to be handled come *)
(* after them.                                                             *)
(***************************************************************************)
EXTENDS JudgementProofs

Rank == [Claimed |-> 1, VerificationStarted |-> 2, Challenged |-> 3, Verified |-> 4]

(* The outbox's log: blocks in order, and a claim's life in order.         *)
LogOrdered ==
    /\ clock >= 1
    /\ \A i \in DOMAIN log :
          /\ 1 <= log[i].ts /\ log[i].ts <= clock
          /\ log[i].kind = "Challenged" => log[i].arg # "zero"
          /\ Emitted("Claimed", log[i].epoch)
    /\ \A i, j \in DOMAIN log : i < j =>
          /\ log[i].ts <= log[j].ts
          /\ log[i].epoch = log[j].epoch => Rank[log[i].kind] < Rank[log[j].kind]

(* What has happened to a claim shows in its hash.                         *)
HashTells(e, c) ==
    c # NoClaim =>
        /\ Emitted("VerificationStarted", e) => c.verification # 0
        /\ Emitted("Challenged", e) => c.challenger # "zero"
        /\ Emitted("Verified", e) => c.honest # "None"

ChainInOrder == LogOrdered /\ \A e \in Epochs : HashTells(e, claimHash[e])

(* The scan of the outbox.  Ahead: entries of its chunk not yet handled.   *)
outboxCursor == cursor["outbox"]

InChunk == idx.side = "outbox" /\ idx.phase # "query"

Ahead == idx.queue \cup (IF idx.phase = "await" THEN {idx.at} ELSE {})

Read(i) ==
    /\ outboxCursor # NoBlock
    /\ \/ log[i].ts < outboxCursor
       \/ InChunk /\ log[i].ts <= idx.to /\ i \notin Ahead

ChunkInOrder ==
    InChunk =>
        /\ outboxCursor # NoBlock
        /\ idx.to < clock
        /\ \A i \in Ahead : outboxCursor <= log[i].ts /\ log[i].ts <= idx.to
        /\ \A i \in DOMAIN log, j \in Ahead : Read(i) => i < j
        /\ idx.phase = "await" => \A j \in idx.queue : idx.at < j

ScanInOrder ==
    /\ indexingSince <= SyncStart
    /\ outboxCursor # NoBlock =>
          /\ outboxCursor <= clock
          /\ indexingSince < outboxCursor => outboxCursor < clock
    /\ idx.target["outbox"] < clock
    /\ ChunkInOrder

(* The file and one entry of the log.                                      *)
TellsEntry(i) == Tells(claims[log[i].epoch], log[i])

Accounted(i) ==
    Followed(log[i].epoch) =>
        /\ Read(i) => TellsEntry(i) \/ (claims[log[i].epoch] = NoClaim /\ Paid(log[i].epoch))
        /\ outboxCursor # NoBlock /\ indexingSince < outboxCursor
             /\ log[i].ts = outboxCursor =>
                TellsEntry(i) \/ claimHash[log[i].epoch] = NoClaim

FileInOrder ==
    /\ StoredIsHistory
    /\ \A i \in DOMAIN log : Accounted(i)

(* A handler that waits: what it knows is still so.                        *)
AwaitInOrder ==
    idx.phase = "await" =>
        LET ev == log[idx.at] IN
        /\ ev.kind # "Claimed"
        /\ ev.kind = "Verified" => \A root \in Roots :
              ClaimedAs(ev.epoch, root) =>
                  idx.verdict = IF root = "correct" THEN "Claimer" ELSE "Challenger"
        /\ ev.kind = "Challenged" => claims[ev.epoch] = NoClaim \/ TellsEntry(idx.at)

InOrder == ChainInOrder /\ ScanInOrder /\ FileInOrder /\ AwaitInOrder

(* A record that tells one event more than before, entry i of the log.     *)
LearnsFrom(i, e, c) ==
    /\ c \in ClaimData /\ OnlyEvents(e, c)
    /\ Tells(c, log[i])
    /\ \A j \in DOMAIN log : log[j].epoch = e /\ j # i =>
          (Tells(c, log[j]) <=> Tells(claims[e], log[j]))
    /\ claims[e] = NoClaim => log[i].kind = "Claimed"

(* What a step may do to the file: nothing, one event more, one epoch less. *)
FileMoves ==
    \/ claims' = claims
    \/ /\ UNCHANGED chainVars
       /\ \E e \in Epochs :
             \/ claims' = RemoveClaim(claims, e) /\ Paid(e)
             \/ \E i \in DOMAIN log, c \in ClaimData :
                   /\ log[i].epoch = e /\ LearnsFrom(i, e, c)
                   /\ claims' = [claims EXCEPT ![e] = c]
-----------------------------------------------------------------------------
(* The contracts. *)

(* A step of the chains appends to the log what happens in this block.     *)
LogExtends ==
    /\ Grows
    /\ \A i \in DOMAIN log' : i \notin DOMAIN log =>
          log'[i].ts = clock /\ \A j \in DOMAIN log : j < i

LEMMA EmitInOrder ==
    ASSUME ChainsOK, LogOrdered, UNCHANGED <<clock, sent>>,
           NEW kind \in EventKinds, NEW e \in Epochs, NEW arg, Emit(kind, e, arg),
           kind = "Challenged" => arg # "zero",
           kind # "Claimed" => Emitted("Claimed", e),
           \A i \in DOMAIN log : log[i].epoch = e => Rank[log[i].kind] < Rank[kind]
    PROVE  /\ LogOrdered' /\ LogExtends
           /\ \A k, x : Emitted(k, x)' => Emitted(k, x) \/ (k = kind /\ x = e)
<1> DEFINE ev == [kind |-> kind, epoch |-> e, ts |-> clock, arg |-> arg]
<1>1. /\ DOMAIN log' = 1..(Len(log) + 1) /\ DOMAIN log = 1..Len(log) /\ Len(log) \in Nat
      /\ \A i \in 1..Len(log) : log'[i] = log[i]
      /\ log'[Len(log) + 1] = ev
  BY DEF ChainsOK, ChainsTypeOK, Emit
<1>2. /\ ev.kind = kind /\ ev.epoch = e /\ ev.ts = clock /\ ev.arg = arg
      /\ clock \in Nat /\ clock >= 1
  BY DEF ChainsOK, ChainsTypeOK, LogOrdered
<1> HIDE DEF ev
<1>3. LogExtends
  BY <1>1, <1>2 DEF LogExtends, Grows
<1>4. \A k, x : Emitted(k, x)' => Emitted(k, x) \/ (k = kind /\ x = e)
  BY <1>1, <1>2 DEF Emitted
<1>5. \A k, x : Emitted(k, x) => Emitted(k, x)'
  BY <1>1 DEF Emitted
<1>6. ASSUME NEW i \in DOMAIN log'
      PROVE  /\ 1 <= log'[i].ts /\ log'[i].ts <= clock'
             /\ log'[i].kind = "Challenged" => log'[i].arg # "zero"
             /\ \E k \in DOMAIN log' : log'[k].kind = "Claimed" /\ log'[k].epoch = log'[i].epoch
  <2>1. CASE i \in DOMAIN log
    BY <1>1, <2>1 DEF LogOrdered, Emitted
  <2>2. CASE i = Len(log) + 1
    <3>1. kind = "Claimed" \/ \E k \in DOMAIN log : log[k].kind = "Claimed" /\ log[k].epoch = e
      BY DEF Emitted
    <3> QED
      BY <1>1, <1>2, <2>2, <3>1
  <2> QED
    BY <1>1, <2>1, <2>2
<1>7. ASSUME NEW i \in DOMAIN log', NEW j \in DOMAIN log', i < j
      PROVE  /\ log'[i].ts <= log'[j].ts
             /\ log'[i].epoch = log'[j].epoch => Rank[log'[i].kind] < Rank[log'[j].kind]
  <2>1. i \in DOMAIN log /\ log'[i] = log[i]
    BY <1>1, <1>7
  <2>2. CASE j \in DOMAIN log
    BY <1>1, <1>7, <2>1, <2>2 DEF LogOrdered
  <2>3. CASE j = Len(log) + 1
    BY <1>1, <1>2, <2>1, <2>3 DEF LogOrdered
  <2> QED
    BY <1>1, <2>2, <2>3
<1>8. LogOrdered'
  BY <1>2, <1>6, <1>7 DEF LogOrdered, Emitted
<1> QED
  BY <1>3, <1>4, <1>8
(* A call that keeps the claim of an epoch, with one more event of it.     *)
LEMMA CallInOrder ==
    ASSUME ChainsOK, ChainJudged, ChainInOrder, UNCHANGED <<clock, sent>>,
           NEW kind \in EventKinds \ {"Claimed"}, NEW e \in Epochs, NEW arg,
           Emit(kind, e, arg), kind = "Challenged" => arg # "zero",
           NEW c \in ClaimData, claimHash[e] = c, NEW d \in ClaimData,
           claimHash' = [claimHash EXCEPT ![e] = d],
           c.honest = "None",
           kind = "VerificationStarted" => c.verification = 0,
           kind # "Verified" => c.challenger = "zero",
           c.verification # 0 => d.verification # 0,
           c.challenger # "zero" => d.challenger # "zero",
           kind = "VerificationStarted" => d.verification # 0,
           kind = "Challenged" => d.challenger # "zero",
           kind = "Verified" => d.honest # "None"
    PROVE  ChainInOrder' /\ LogExtends
<1>1. /\ claimHash \in [Epochs -> MaybeClaim] /\ c # NoClaim
      /\ HashTells(e, c) /\ LogOrdered
  BY ChainsAssumption DEF ChainsOK, ChainsTypeOK, MaybeClaim, ChainInOrder
<1>2. Emitted("Claimed", e)
  BY <1>1 DEF ChainJudged, Witnessed, ClaimedAs, Emitted
<1>3. ASSUME NEW i \in DOMAIN log, log[i].epoch = e
      PROVE  Rank[log[i].kind] < Rank[kind]
  <2>1. log[i].kind \in EventKinds
    BY EventType DEF Event
  <2>2. Emitted(log[i].kind, e)
    BY <1>3 DEF Emitted
  <2> QED
    BY <1>1, <2>1, <2>2 DEF HashTells, EventKinds, Rank
<1>4. /\ LogOrdered' /\ LogExtends
      /\ \A k, x : Emitted(k, x)' => Emitted(k, x) \/ (k = kind /\ x = e)
  BY <1>1, <1>2, <1>3, EmitInOrder
<1>5. ASSUME NEW x \in Epochs
      PROVE  HashTells(x, claimHash[x])'
  <2>1. CASE x = e
    <3>1. claimHash'[x] = d
      BY <1>1, <2>1
    <3>2. Emitted("Verified", x)' => kind = "Verified"
      BY <1>1, <1>4, <2>1 DEF HashTells
    <3> QED
      BY <1>1, <1>4, <2>1, <3>1, <3>2 DEF HashTells
  <2>2. CASE x # e
    <3>1. claimHash'[x] = claimHash[x]
      BY <1>1, <2>2
    <3> QED
      BY <1>4, <2>2, <3>1 DEF HashTells, ChainInOrder
  <2> QED
    BY <2>1, <2>2
<1> QED
  BY <1>4, <1>5 DEF ChainInOrder

LEMMA CallKinds ==
    {"VerificationStarted", "Challenged", "Verified"} \subseteq EventKinds \ {"Claimed"}
BY DEF EventKinds

LEMMA ChainStepInOrder ==
    ASSUME ChainsOK, ChainJudged, ChainInOrder, NEW mine, ChainStep(mine)
    PROVE  ChainInOrder' /\ LogExtends /\ clock' \in Nat /\ clock' >= clock
<1>1. /\ claimHash \in [Epochs -> MaybeClaim] /\ clock \in Nat /\ clock >= 1
      /\ LogOrdered
  BY DEF ChainsOK, ChainsTypeOK, MaybeClaim, ChainInOrder, LogOrdered
<1>2. Grows
  BY ChainStepType
<1>3. ASSUME log' = log, clock' \in Nat, clock' >= clock,
             \A e \in Epochs : claimHash'[e] = NoClaim \/ claimHash'[e] = claimHash[e]
      PROVE  ChainInOrder' /\ LogExtends
  <2>1. LogOrdered'
    BY <1>1, <1>3, EventType DEF LogOrdered, Emitted
  <2>2. \A e \in Epochs : HashTells(e, claimHash[e])'
    BY <1>3 DEF ChainInOrder, HashTells, Emitted
  <2> QED
    BY <1>2, <1>3, <2>1, <2>2 DEF ChainInOrder, LogExtends
<1>4. ASSUME NEW e \in Epochs, NEW root \in Roots, Claim(e, root)
      PROVE  ChainInOrder' /\ LogExtends
  <2>1. \A i \in DOMAIN log : log[i].epoch # e
    BY <1>1, <1>4 DEF Claim, LogOrdered
  <2>2. /\ LogOrdered' /\ LogExtends
        /\ \A k, x : Emitted(k, x)' => Emitted(k, x) \/ (k = "Claimed" /\ x = e)
    <3>1. "Claimed" \in EventKinds
      BY DEF EventKinds
    <3> QED
      BY <1>1, <1>4, <2>1, <3>1, EmitInOrder DEF Claim
  <2>3. \A x \in Epochs : HashTells(x, claimHash[x])'
    <3> SUFFICES ASSUME NEW x \in Epochs PROVE HashTells(x, claimHash[x])'
      OBVIOUS
    <3>1. CASE x = e
      <4>1. \A k : ~Emitted(k, e)
        BY <2>1 DEF Emitted
      <4> QED
        BY <2>2, <3>1, <4>1 DEF HashTells
    <3>2. CASE x # e
      <4>1. claimHash'[x] = claimHash[x]
        BY <1>1, <1>4, <3>2 DEF Claim
      <4> QED
        BY <2>2, <3>2, <4>1 DEF HashTells, ChainInOrder
    <3> QED
      BY <3>1, <3>2
  <2> QED
    BY <2>2, <2>3 DEF ChainInOrder
<1>5. ASSUME NEW e \in Epochs, NEW c \in MaybeClaim, NEW who \in {"me", "other"},
             Challenge(e, c, who)
      PROVE  ChainInOrder' /\ LogExtends
  <2>1. /\ c \in ClaimData /\ claimHash[e] = c /\ c.honest = "None"
        /\ c.challenger = "zero"
    BY <1>5 DEF Challenge, CanChallenge, Open, MaybeClaim
  <2> DEFINE d == [c EXCEPT !.challenger = who]
  <2>2. d \in ClaimData /\ d.challenger = who /\ d.verification = c.verification
    BY <2>1 DEF ClaimData, Addresses
  <2>3. /\ claimHash' = [claimHash EXCEPT ![e] = d] /\ Emit("Challenged", e, who)
        /\ UNCHANGED <<clock, sent>>
    BY <1>5 DEF Challenge
  <2> HIDE DEF d
  <2> QED
    BY <2>1, <2>2, <2>3, CallKinds, CallInOrder
<1>6. ASSUME NEW e \in Epochs, NEW c \in MaybeClaim, StartVerification(e, c)
      PROVE  ChainInOrder' /\ LogExtends
  <2>1. /\ c \in ClaimData /\ claimHash[e] = c /\ c.honest = "None"
        /\ c.challenger = "zero" /\ c.verification = 0
    BY <1>6 DEF StartVerification, CanStart, Open, MaybeClaim
  <2> DEFINE d == [c EXCEPT !.verification = clock]
  <2>2. d \in ClaimData /\ d.challenger = c.challenger /\ d.verification # 0
    BY <1>1, <2>1 DEF ClaimData
  <2>3. /\ claimHash' = [claimHash EXCEPT ![e] = d] /\ Emit("VerificationStarted", e, "-")
        /\ UNCHANGED <<clock, sent>>
    BY <1>6 DEF StartVerification
  <2> HIDE DEF d
  <2> QED
    BY <2>1, <2>2, <2>3, CallKinds, CallInOrder
<1>7. ASSUME NEW e \in Epochs, NEW c \in MaybeClaim,
             c # NoClaim, claimHash[e] = c, c.honest = "None",
             NEW winner \in {"Claimer", "Challenger"}, UNCHANGED <<clock, sent>>,
             claimHash' = [claimHash EXCEPT ![e] = [c EXCEPT !.honest = winner]],
             Emit("Verified", e, "-")
      PROVE  ChainInOrder' /\ LogExtends
  <2>1. c \in ClaimData
    BY <1>7 DEF MaybeClaim
  <2> DEFINE d == [c EXCEPT !.honest = winner]
  <2>2. /\ d \in ClaimData /\ d.challenger = c.challenger
        /\ d.verification = c.verification /\ d.honest # "None"
    BY <2>1 DEF ClaimData, Parties
  <2> HIDE DEF d
  <2>3. /\ claimHash' = [claimHash EXCEPT ![e] = d] /\ Emit("Verified", e, "-")
        /\ UNCHANGED <<clock, sent>> /\ claimHash[e] = c /\ c.honest = "None"
    BY <1>7 DEF d
  <2> QED
    BY <2>1, <2>2, <2>3, CallKinds, CallInOrder
<1>8. ASSUME NEW e \in Epochs, NEW c \in MaybeClaim, VerifySnapshot(e, c)
      PROVE  ChainInOrder' /\ LogExtends
  <2>1. /\ c # NoClaim /\ claimHash[e] = c /\ c.honest = "None"
        /\ claimHash' = [claimHash EXCEPT ![e] = [c EXCEPT !.honest = "Claimer"]]
        /\ Emit("Verified", e, "-") /\ UNCHANGED <<clock, sent>>
    BY <1>8 DEF VerifySnapshot, CanVerify, Open
  <2> QED
    BY <1>7, <2>1
<1>9. ASSUME NEW i \in DOMAIN sent, Relay(i)
      PROVE  ChainInOrder' /\ LogExtends
  <2>1. sent \in Seq(Message)
    BY DEF ChainsOK, ChainsTypeOK
  <2>2. sent[i] \in Message
    BY <2>1, ElementOfSeq, LenProperties
  <2>3. sent[i].epoch \in Epochs /\ sent[i].claim \in MaybeClaim
    BY <2>2 DEF Message, MaybeClaim
  <2> QED
    BY <1>7, <1>9, <2>3 DEF Relay, CanRelay, Open
<1>10. ASSUME NEW e \in Epochs, NEW c \in MaybeClaim, WithdrawDeposit(e, c)
       PROVE  ChainInOrder' /\ LogExtends
  BY <1>1, <1>3, <1>10 DEF WithdrawDeposit
<1>11. CASE Tick \/ (\E e \in Epochs, c \in ClaimData, own \in BOOLEAN : SendSnapshot(e, c, own))
              \/ UNCHANGED chainVars
  <2>1. log' = log /\ claimHash' = claimHash /\ (clock' = clock \/ clock' = clock + 1)
    BY <1>11 DEF Tick, SendSnapshot, chainVars
  <2>2. clock' \in Nat /\ clock' >= clock
    BY <1>1, <2>1
  <2> QED
    BY <1>3, <2>1, <2>2
<1>12. clock' = clock \/ clock' = clock + 1
  BY DEF ChainStep, Tick, Claim, Challenge, StartVerification, VerifySnapshot,
         SendSnapshot, WithdrawDeposit, Relay, chainVars
<1>13. ChainInOrder' /\ LogExtends
  BY <1>4, <1>5, <1>6, <1>8, <1>9, <1>10, <1>11 DEF ChainStep
<1> QED
  <2>1. clock' \in Nat /\ clock' >= clock
    BY <1>1, <1>12
  <2> QED
    BY <1>13, <2>1
-----------------------------------------------------------------------------
(* The file while the contracts move on. *)

LEMMA ToldMember ==
    ASSUME NEW e, NEW c, NEW i
    PROVE  i \in Told(e, c) <=> i \in DOMAIN log /\ log[i].epoch = e /\ Tells(c, log[i])
BY DEF Told, EventsOf

(* An event of this block is news to every record.                         *)
LEMMA NewUntold ==
    ASSUME Typed, InOrder, ChainInOrder', LogExtends,
           NEW i \in DOMAIN log', i \notin DOMAIN log,
           NEW e \in Epochs, log'[i].epoch = e
    PROVE  ~Tells(claims[e], log'[i])
<1> SUFFICES ASSUME Tells(claims[e], log'[i]) PROVE FALSE
  OBVIOUS
<1>1. claims[e] # NoClaim /\ OnlyEvents(e, claims[e])
  BY DEF Tells, InOrder, FileInOrder, StoredIsHistory
<1>2. log'[i].ts = clock /\ clock >= 1 /\ clock \in Nat
  BY DEF LogExtends, InOrder, ChainInOrder, LogOrdered, Typed, ChainsOK, ChainsTypeOK
<1>3. /\ log'[i].kind = "VerificationStarted" => claims[e].verification # 0
      /\ log'[i].kind = "Challenged" => claims[e].challenger # "zero"
      /\ log'[i].kind = "Verified" => claims[e].honest # "None"
      /\ log'[i].kind \in {"Claimed", "VerificationStarted", "Challenged", "Verified"}
  BY <1>2 DEF Tells, ChainInOrder, LogOrdered
<1>4. \E j \in Told(e, claims[e]) : log[j].kind = log'[i].kind
  BY <1>1, <1>3 DEF OnlyEvents
<1>5. PICK j \in DOMAIN log : log[j].epoch = e /\ log[j].kind = log'[i].kind
  BY <1>4, ToldMember
<1>6. j \in DOMAIN log' /\ log'[j] = log[j] /\ j < i
  BY DEF LogExtends, Grows
<1>7. Rank[log'[j].kind] < Rank[log'[i].kind]
  BY <1>5, <1>6 DEF ChainInOrder, LogOrdered
<1> QED
  BY <1>3, <1>5, <1>6, <1>7 DEF Rank

LEMMA NothingNewTold ==
    ASSUME Typed, InOrder, ChainInOrder', LogExtends, UNCHANGED claims, NEW e \in Epochs
    PROVE  Told(e, claims[e])' = Told(e, claims[e])
<1>1. ASSUME NEW i \in DOMAIN log
      PROVE  i \in DOMAIN log' /\ log'[i] = log[i]
  BY DEF LogExtends, Grows
<1>2. ASSUME NEW i \in DOMAIN log', log'[i].epoch = e, Tells(claims[e], log'[i])
      PROVE  i \in DOMAIN log
  BY <1>2, NewUntold
<1> QED
  BY <1>1, <1>2 DEF Told, EventsOf, Tells

LEMMA TruncatedGrows ==
    ASSUME NEW a \in Nat, NEW b \in Nat, NEW c \in Nat, b >= a
    PROVE  /\ Truncated(a, c) \in Nat /\ Truncated(b, c) \in Nat
           /\ Truncated(a, c) <= Truncated(b, c)
BY DEF Truncated

LEMMA ChainKeepsRead ==
    ASSUME Typed, InOrder, LogExtends, clock' \in Nat, clock' >= clock,
           UNCHANGED <<cursor, idx, indexingSince>>
    PROVE  /\ \A i \in DOMAIN log' : Read(i)' => i \in DOMAIN log /\ Read(i)
           /\ ScanInOrder'
<1>1. /\ clock \in Nat /\ indexingSince \in Nat /\ Lookback \in Nat
      /\ outboxCursor \in Nat \cup {NoBlock} /\ idx \in Indexing
      /\ ScanInOrder
  BY ProcessAssumption DEF Typed, ChainsOK, ChainsTypeOK, ProcessTypeOK, outboxCursor,
                           Sides, InOrder
<1>2. idx.to \in Nat /\ idx.target["outbox"] \in Nat
  BY <1>1 DEF Indexing, Sides
<1>3. outboxCursor' = outboxCursor /\ InChunk' = InChunk /\ Ahead' = Ahead
  BY DEF outboxCursor, InChunk, Ahead
<1>4. ASSUME NEW i \in DOMAIN log', Read(i)'
      PROVE  i \in DOMAIN log /\ Read(i)
  <2>1. CASE i \in DOMAIN log
    BY <1>3, <1>4, <2>1 DEF Read, LogExtends, Grows
  <2>2. CASE i \notin DOMAIN log
    <3>1. log'[i].ts = clock
      BY <2>2 DEF LogExtends
    <3>2. outboxCursor # NoBlock /\ (clock < outboxCursor \/ (InChunk /\ clock <= idx.to))
      BY <1>3, <1>4, <3>1 DEF Read
    <3> QED
      BY <1>1, <1>2, <3>2 DEF ScanInOrder, ChunkInOrder
  <2> QED
    BY <2>1, <2>2
<1>5. ChunkInOrder'
  <2> SUFFICES ASSUME InChunk PROVE ChunkInOrder'
    BY <1>3 DEF ChunkInOrder
  <2>1. ChunkInOrder
    BY <1>1 DEF ScanInOrder
  <2>2. Ahead \subseteq DOMAIN log
    BY DEF Ahead, InChunk, Typed, ScanOK
  <2>3. outboxCursor' # NoBlock /\ idx'.to < clock'
    BY <1>1, <1>2, <1>3, <2>1 DEF ChunkInOrder
  <2>4. \A i \in Ahead' : outboxCursor' <= log'[i].ts /\ log'[i].ts <= idx'.to
    BY <1>3, <2>1, <2>2 DEF ChunkInOrder, LogExtends, Grows
  <2>5. \A i \in DOMAIN log', j \in Ahead' : Read(i)' => i < j
    BY <1>3, <1>4, <2>1 DEF ChunkInOrder
  <2>6. idx'.phase = "await" => \A j \in idx'.queue : idx'.at < j
    BY <2>1 DEF ChunkInOrder
  <2> QED
    BY <2>3, <2>4, <2>5, <2>6 DEF ChunkInOrder
<1>6. indexingSince' <= SyncStart'
  <2>1. indexingSince <= Truncated(clock, Lookback)
    BY <1>1 DEF SyncStart, ScanInOrder
  <2>2. Truncated(clock, Lookback) <= Truncated(clock', Lookback)
    BY <1>1, TruncatedGrows
  <2>3. Truncated(clock, Lookback) \in Nat /\ Truncated(clock', Lookback) \in Nat
    BY <1>1, TruncatedGrows
  <2> QED
    BY <1>1, <2>1, <2>2, <2>3 DEF SyncStart
<1>7. outboxCursor' # NoBlock =>
          /\ outboxCursor' <= clock'
          /\ indexingSince' < outboxCursor' => outboxCursor' < clock'
  BY <1>1, <1>3 DEF ScanInOrder
<1>8. idx'.target["outbox"] < clock'
  BY <1>1, <1>2 DEF ScanInOrder
<1> QED
  BY <1>4, <1>5, <1>6, <1>7, <1>8 DEF ScanInOrder
LEMMA FollowedBefore ==
    ASSUME Typed, ChainInOrder', LogExtends, UNCHANGED indexingSince,
           NEW e \in Epochs, Followed(e)',
           NEW i \in DOMAIN log, log[i].epoch = e
    PROVE  Followed(e)
<1>1. PICK k \in DOMAIN log' : /\ log'[k].epoch = e /\ log'[k].kind = "Claimed"
                               /\ log'[k].ts >= indexingSince
  BY DEF Followed, EventsOf
<1>2. i \in DOMAIN log' /\ log'[i] = log[i]
  BY DEF LogExtends, Grows
<1>3. CASE k \in DOMAIN log
  BY <1>1, <1>3 DEF Followed, EventsOf, LogExtends, Grows
<1>4. CASE k \notin DOMAIN log
  <2>1. i < k
    BY <1>4 DEF LogExtends
  <2>2. Rank[log'[i].kind] < Rank["Claimed"]
    BY <1>1, <1>2, <2>1 DEF ChainInOrder, LogOrdered
  <2>3. log[i].kind \in EventKinds
    BY EventType DEF Typed, Event
  <2> QED
    BY <1>2, <2>2, <2>3 DEF Rank, EventKinds
<1> QED
  BY <1>3, <1>4

LEMMA ChainKeepsHistory ==
    ASSUME Typed, InOrder, ChainInOrder', LogExtends, UNCHANGED <<claims, indexingSince>>
    PROVE  StoredIsHistory'
<1> SUFFICES ASSUME NEW e \in Epochs
             PROVE  OnlyEvents(e, claims[e])' /\ (Followed(e)' => NoGaps(e, claims[e])')
  BY DEF StoredIsHistory
<1>1. Told(e, claims[e])' = Told(e, claims[e])
  BY NothingNewTold
<1>2. \A i \in Told(e, claims[e]) : i \in DOMAIN log /\ log'[i] = log[i] /\ log[i].epoch = e
  BY ToldMember DEF LogExtends, Grows
<1>3. OnlyEvents(e, claims[e]) /\ (Followed(e) => NoGaps(e, claims[e]))
  BY DEF InOrder, FileInOrder, StoredIsHistory
<1>4. OnlyEvents(e, claims[e])'
  BY <1>1, <1>2, <1>3 DEF OnlyEvents
<1>5. ASSUME Followed(e)', NEW i \in Told(e, claims[e]),
             NEW j \in DOMAIN log', log'[j].epoch = e, j < i
      PROVE  j \in Told(e, claims[e])
  <2>1. i \in DOMAIN log /\ log[i].epoch = e
    BY <1>2
  <2>2. j \in DOMAIN log
    <3>1. j \notin DOMAIN log => i < j
      BY <2>1 DEF LogExtends
    <3>2. i \in Nat /\ j \in Nat
      BY <2>1, ChainInOrder' DEF Typed, ChainsOK, ChainsTypeOK, LogExtends
    <3> QED
      BY <1>5, <3>1, <3>2
  <2>3. Followed(e)
    BY <1>5, <2>1, FollowedBefore
  <2>4. log[j].epoch = e
    BY <1>5, <2>2 DEF LogExtends, Grows
  <2> QED
    BY <1>3, <1>5, <2>2, <2>3, <2>4 DEF NoGaps, EventsOf
<1>6. Followed(e)' => NoGaps(e, claims[e])'
  BY <1>1, <1>5 DEF NoGaps, EventsOf
<1> QED
  BY <1>4, <1>6
LEMMA ChainKeepsAccounts ==
    ASSUME Typed, InOrder, ChainInOrder', LogExtends, Remembers, ChainsOK',
           clock' \in Nat, clock' >= clock,
           UNCHANGED <<claims, cursor, idx, indexingSince>>
    PROVE  \A i \in DOMAIN log' : Accounted(i)'
<1> SUFFICES ASSUME NEW i \in DOMAIN log'
             PROVE  Accounted(i)'
  OBVIOUS
<1>1. PICK e \in Epochs : e = log'[i].epoch
  <2>1. log' \in Seq(Event)
    BY DEF ChainsOK, ChainsTypeOK
  <2>2. log'[i] \in Event
    BY <2>1, ElementOfSeq, LenProperties
  <2> QED
    BY <2>2 DEF Event
<1>2. outboxCursor' = outboxCursor
  BY DEF outboxCursor
<1>3. CASE i \in DOMAIN log
  <2>1. log'[i] = log[i] /\ log[i].epoch = e
    BY <1>1, <1>3 DEF LogExtends, Grows
  <2>2. Followed(e)' => Followed(e)
    BY <1>3, <2>1, FollowedBefore
  <2>3. Read(i)' => Read(i)
    BY ChainKeepsRead
  <2>4. Accounted(i)
    BY <1>3 DEF InOrder, FileInOrder
  <2>5. claimHash[e] = NoClaim => claimHash'[e] = NoClaim
    <3>1. Emitted("Claimed", e)
      BY <1>3, <2>1 DEF InOrder, ChainInOrder, LogOrdered
    <3> QED
      BY <3>1 DEF Remembers, Paid
  <2>6. Paid(e) => Paid(e)'
    BY DEF Remembers
  <2>7. TellsEntry(i) => Tells(claims'[e], log'[i])
    BY <2>1 DEF TellsEntry
  <2>8. /\ Read(i)' /\ Followed(e)' => Tells(claims'[e], log'[i]) \/ (claims'[e] = NoClaim /\ Paid(e)')
        /\ Followed(e)' /\ outboxCursor' # NoBlock /\ indexingSince' < outboxCursor'
             /\ log'[i].ts = outboxCursor' =>
                Tells(claims'[e], log'[i]) \/ claimHash'[e] = NoClaim
    BY <1>2, <2>1, <2>2, <2>3, <2>4, <2>5, <2>6, <2>7 DEF Accounted
  <2> QED
    BY <1>1, <2>8 DEF Accounted, TellsEntry, Paid
<1>4. CASE i \notin DOMAIN log
  <2>1. ~Read(i)'
    BY <1>4, ChainKeepsRead
  <2>2. log'[i].ts = clock
    BY <1>4 DEF LogExtends
  <2>3. ~(outboxCursor # NoBlock /\ indexingSince < outboxCursor /\ clock = outboxCursor)
    <3>1. clock \in Nat /\ ScanInOrder
      BY DEF Typed, ChainsOK, ChainsTypeOK, InOrder
    <3> QED
      BY <3>1 DEF ScanInOrder
  <2> QED
    BY <1>2, <2>1, <2>2, <2>3 DEF Accounted
<1> QED
  BY <1>3, <1>4

LEMMA ChainKeepsAwait ==
    ASSUME Typed, Judged', InOrder, LogExtends, UNCHANGED <<claims, idx>>
    PROVE  AwaitInOrder'
<1> SUFFICES ASSUME idx.phase = "await" PROVE AwaitInOrder'
  BY DEF AwaitInOrder
<1> DEFINE ev == log[idx.at]
<1>1. idx.at \in DOMAIN log /\ log'[idx.at] = ev /\ ev.epoch \in Epochs
  BY EventType DEF Typed, ScanOK, LogExtends, Grows
<1>2. PICK e \in Epochs : e = ev.epoch
  BY <1>1
<1>3. AwaitInOrder
  BY DEF InOrder
<1>4. ev.kind # "Claimed" /\ Rank[ev.kind] > 1
  <2>1. ev.kind \in EventKinds
    BY <1>1, EventType DEF Typed, Event
  <2> QED
    BY <1>3, <2>1 DEF AwaitInOrder, EventKinds, Rank
<1>5. PICK j \in DOMAIN log : log[j].kind = "Claimed" /\ log[j].epoch = e
  BY <1>1, <1>2 DEF InOrder, ChainInOrder, LogOrdered, Emitted
<1>6. PICK r \in Roots : ClaimedAs(e, r) /\ ClaimedAs(e, r)'
  <2>1. PICK r \in Roots : r = log[j].arg
    BY <1>5, EventType DEF Typed
  <2> QED
    BY <1>5, <2>1 DEF ClaimedAs, LogExtends, Grows
<1>7. ASSUME NEW root \in Roots, ClaimedAs(e, root)'
      PROVE  root = r
  <2>1. ~(ClaimedAs(e, "correct")' /\ ClaimedAs(e, "wrong")')
    BY DEF Judged, ChainJudged
  <2>2. CASE root = "correct"
    BY <1>6, <1>7, <2>1, <2>2 DEF Roots
  <2>3. CASE root = "wrong"
    BY <1>6, <1>7, <2>1, <2>3 DEF Roots
  <2> QED
    BY <2>2, <2>3 DEF Roots
<1>8. /\ ev.kind = "Verified" => \A root \in Roots : ClaimedAs(e, root)' =>
            idx.verdict = IF root = "correct" THEN "Claimer" ELSE "Challenger"
      /\ ev.kind = "Challenged" => claims[e] = NoClaim \/ Tells(claims[e], ev)
  BY <1>2, <1>3, <1>6, <1>7 DEF AwaitInOrder, TellsEntry
<1> QED
  BY <1>1, <1>2, <1>4, <1>8 DEF AwaitInOrder, TellsEntry, ClaimedAs

(* Whoever calls the contracts.                                            *)
LEMMA ChainKeepsInOrder ==
    ASSUME Typed, Judged, Judged', InOrder, NEW mine, ChainStep(mine),
           UNCHANGED <<claims, cursor, idx, indexingSince>>
    PROVE  InOrder' /\ FileMoves
<1>1. ChainsOK' /\ Remembers
  BY ChainStepType, ChainRemembers DEF Typed
<1>2. ChainInOrder' /\ LogExtends /\ clock' \in Nat /\ clock' >= clock
  BY ChainStepInOrder DEF Typed, Judged, InOrder
<1>3. ScanInOrder'
  BY <1>2, ChainKeepsRead
<1>4. FileInOrder'
  BY <1>1, <1>2, ChainKeepsHistory, ChainKeepsAccounts DEF FileInOrder
<1>5. AwaitInOrder'
  BY <1>2, ChainKeepsAwait
<1> QED
  BY <1>2, <1>3, <1>4, <1>5 DEF InOrder, FileMoves
-----------------------------------------------------------------------------
(* The scan. *)

LEMMA ScanTypes ==
    ASSUME Typed, InOrder
    PROVE  /\ clock \in Nat /\ clock >= 1 /\ indexingSince \in Nat
           /\ outboxCursor \in Nat \cup {NoBlock} /\ NoBlock \notin Nat
           /\ idx \in Indexing /\ idx.to \in Nat /\ idx.target["outbox"] \in Nat
           /\ DOMAIN log \subseteq Nat
           /\ \A i \in DOMAIN log : log[i].ts \in Nat /\ log[i].epoch \in Epochs
           /\ claims \in [Epochs -> MaybeClaim] /\ NoClaim \notin ClaimData
           /\ InChunk => Ahead \subseteq DOMAIN log
<1>1. DOMAIN log \subseteq Nat
  BY LenProperties DEF Typed, ChainsOK, ChainsTypeOK
<1>2. InChunk => Ahead \subseteq DOMAIN log
  BY DEF InChunk, Ahead, Typed, ScanOK
<1> QED
  BY <1>1, <1>2, EventType, ProcessAssumption, ChainsAssumption
  DEF Typed, ChainsOK, ChainsTypeOK, ProcessTypeOK, InOrder, ChainInOrder, LogOrdered,
      outboxCursor, Sides, Indexing, MaybeClaim

(* Entries taken from the front of what is ahead have been read.           *)
LEMMA ScanAdvances ==
    ASSUME Typed, InOrder, InChunk, UNCHANGED <<clock, log, cursor, indexingSince>>,
           idx'.side = "outbox", idx'.phase # "query", idx'.to = idx.to,
           idx'.target = idx.target,
           NEW done, Ahead' = Ahead \ done, done \subseteq Ahead,
           \A i \in done, j \in Ahead' : i < j,
           idx'.phase = "await" => \A j \in idx'.queue : idx'.at < j
    PROVE  ScanInOrder' /\ \A i \in DOMAIN log : Read(i)' => Read(i) \/ i \in done
<1>1. outboxCursor' = outboxCursor /\ InChunk' /\ SyncStart' = SyncStart
  BY DEF outboxCursor, InChunk, SyncStart, Truncated
<1>2. ScanInOrder /\ ChunkInOrder
  BY DEF InOrder, ScanInOrder
<1>3. ASSUME NEW i \in DOMAIN log, Read(i)'
      PROVE  Read(i) \/ i \in done
  BY <1>1, <1>3 DEF Read
<1>4. ChunkInOrder'
  BY <1>1, <1>2, <1>3 DEF ChunkInOrder
<1> QED
  BY <1>1, <1>2, <1>3, <1>4 DEF ScanInOrder

LEMMA ScanStops ==
    ASSUME Typed, InOrder, UNCHANGED <<clock, log, cursor, indexingSince>>,
           ~InChunk', idx'.target["outbox"] < clock
    PROVE  ScanInOrder' /\ \A i \in DOMAIN log : Read(i)' => Read(i)
<1>1. outboxCursor' = outboxCursor /\ SyncStart' = SyncStart
  BY DEF outboxCursor, SyncStart, Truncated
<1>2. ScanInOrder
  BY DEF InOrder
<1> QED
  BY <1>1, <1>2 DEF ScanInOrder, ChunkInOrder, Read

(* What comes before the next entry has been read, and nothing after it.   *)
LEMMA ReadIsBefore ==
    ASSUME Typed, InOrder, InChunk, NEW i \in Ahead, \A j \in Ahead : i <= j,
           NEW j \in DOMAIN log
    PROVE  Read(j) <=> j < i
<1>1. /\ i \in DOMAIN log /\ i \in Nat /\ j \in Nat /\ ChunkInOrder
      /\ \A k \in Ahead : k \in Nat
  BY ScanTypes DEF InOrder, ScanInOrder
<1>2. ASSUME j < i
      PROVE  Read(j)
  <2>1. log[j].ts <= log[i].ts /\ log[i].ts <= idx.to
    BY <1>1, <1>2 DEF InOrder, ChainInOrder, LogOrdered, ChunkInOrder
  <2>2. log[j].ts <= idx.to
    BY <1>1, <2>1, ScanTypes
  <2>3. j \notin Ahead
    BY <1>1, <1>2
  <2> QED
    BY <1>1, <2>2, <2>3 DEF Read, ChunkInOrder
<1> QED
  BY <1>1, <1>2 DEF ChunkInOrder

-----------------------------------------------------------------------------
(* The file, while the log stays. *)

LEMMA SameFile ==
    ASSUME Typed, InOrder, UNCHANGED chainVars,
           UNCHANGED <<claims, cursor, indexingSince>>,
           NEW done, \A i \in DOMAIN log : Read(i)' => Read(i) \/ i \in done,
           \A i \in DOMAIN log, e \in Epochs :
              i \in done /\ e = log[i].epoch /\ Followed(e) =>
                 Tells(claims[e], log[i]) \/ (claims[e] = NoClaim /\ Paid(e))
    PROVE  FileInOrder'
<1>1. log' = log /\ claimHash' = claimHash /\ outboxCursor' = outboxCursor
  BY DEF chainVars, outboxCursor
<1>2. StoredIsHistory'
  BY <1>1 DEF InOrder, FileInOrder, StoredIsHistory, OnlyEvents, NoGaps, Told, Tells,
              EventsOf, Followed
<1>3. ASSUME NEW i \in DOMAIN log
      PROVE  Accounted(i)'
  <2>1. PICK e \in Epochs : e = log[i].epoch
    BY ScanTypes
  <2>2. Accounted(i) /\ (Followed(e)' <=> Followed(e)) /\ (Paid(e)' <=> Paid(e))
    BY <1>1 DEF InOrder, FileInOrder, Followed, EventsOf, Paid, Emitted
  <2>3. /\ Read(i)' /\ Followed(e)' => Tells(claims[e], log[i]) \/ (claims[e] = NoClaim /\ Paid(e)')
        /\ Followed(e)' /\ outboxCursor' # NoBlock /\ indexingSince' < outboxCursor'
             /\ log[i].ts = outboxCursor' =>
                Tells(claims[e], log[i]) \/ claimHash'[e] = NoClaim
    BY <1>1, <2>1, <2>2 DEF Accounted, TellsEntry
  <2> QED
    BY <1>1, <2>1, <2>3 DEF Accounted, TellsEntry, Paid
<1> QED
  BY <1>1, <1>2, <1>3 DEF FileInOrder
LEMMA LearnFile ==
    ASSUME Typed, InOrder, UNCHANGED chainVars, UNCHANGED <<cursor, indexingSince>>,
           InChunk, NEW i \in Ahead, \A j \in Ahead : i <= j,
           NEW e \in Epochs, log[i].epoch = e, NEW c, LearnsFrom(i, e, c),
           claims' = [claims EXCEPT ![e] = c],
           \A j \in DOMAIN log : Read(j)' => Read(j) \/ j = i
    PROVE  FileInOrder'
<1>1. /\ log' = log /\ claimHash' = claimHash /\ outboxCursor' = outboxCursor
      /\ \A x \in Epochs : /\ Followed(x)' <=> Followed(x)
                           /\ Paid(x)' <=> Paid(x)
      /\ indexingSince' = indexingSince
  BY DEF chainVars, outboxCursor, Followed, EventsOf, Paid, Emitted
<1>2. /\ claims \in [Epochs -> MaybeClaim] /\ c # NoClaim /\ i \in DOMAIN log
      /\ claims'[e] = c /\ \A x \in Epochs : x # e => claims'[x] = claims[x]
  BY ScanTypes DEF LearnsFrom
<1>3. \A j \in DOMAIN log : Read(j) <=> j < i
  BY ReadIsBefore
<1>4. ASSUME NEW j \in DOMAIN log, log[j].epoch = e, Followed(e), j < i
      PROVE  Tells(claims[e], log[j])
  <2>1. Read(j) /\ Accounted(j)
    BY <1>3, <1>4 DEF InOrder, FileInOrder
  <2>2. claims[e] # NoClaim
    <3>1. log[i].kind # "Claimed"
      <4>1. Rank[log[j].kind] < Rank[log[i].kind] /\ log[j].kind \in EventKinds
        BY <1>2, <1>4, EventType DEF InOrder, ChainInOrder, LogOrdered, Typed, Event
      <4> QED
        BY <4>1 DEF Rank, EventKinds
    <3> QED
      BY <3>1 DEF LearnsFrom
  <2> QED
    BY <1>4, <2>1, <2>2 DEF Accounted, TellsEntry
<1>5. ASSUME NEW j \in DOMAIN log, log[j].epoch = e, Followed(e), Read(j) \/ j = i
      PROVE  Tells(c, log[j])
  BY <1>3, <1>4, <1>5 DEF LearnsFrom
<1>6. StoredIsHistory'
  <2> SUFFICES ASSUME NEW x \in Epochs
               PROVE  OnlyEvents(x, claims[x])' /\ (Followed(x)' => NoGaps(x, claims[x])')
    BY DEF StoredIsHistory
  <2>1. OnlyEvents(x, claims[x]) /\ (Followed(x) => NoGaps(x, claims[x]))
    BY DEF InOrder, FileInOrder, StoredIsHistory
  <2>2. CASE x # e
    BY <1>1, <1>2, <2>1, <2>2 DEF OnlyEvents, NoGaps, Told, Tells, EventsOf
  <2>3. CASE x = e
    <3>1. OnlyEvents(x, claims[x])'
      BY <1>1, <1>2, <2>3 DEF OnlyEvents, Told, Tells, EventsOf, LearnsFrom
    <3>2. ASSUME Followed(e), NEW k \in DOMAIN log, log[k].epoch = e, Tells(c, log[k]),
                 NEW j \in DOMAIN log, log[j].epoch = e, j < k
          PROVE  Tells(c, log[j])
      <4>1. CASE k = i
        BY <1>3, <1>5, <3>2, <4>1
      <4>2. CASE k # i
        <5>1. k \in Told(e, claims[e]) /\ j \in EventsOf(e)
          BY <3>2, <4>2 DEF LearnsFrom, Told, EventsOf
        <5>2. j \in Told(e, claims[e])
          BY <2>1, <2>3, <3>2, <5>1 DEF NoGaps
        <5> QED
          BY <3>2, <5>2 DEF LearnsFrom, Told
      <4> QED
        BY <4>1, <4>2
    <3>3. Followed(e) => NoGaps(e, c)
      BY <3>2 DEF NoGaps, Told, EventsOf
    <3>4. Followed(x)' => NoGaps(x, claims[x])'
      BY <1>1, <1>2, <2>3, <3>3 DEF NoGaps, Told, Tells, EventsOf
    <3> QED
      BY <3>1, <3>4
  <2> QED
    BY <2>2, <2>3
<1>7. ASSUME NEW j \in DOMAIN log
      PROVE  Accounted(j)'
  <2>1. PICK x \in Epochs : x = log[j].epoch
    BY ScanTypes
  <2>2. Accounted(j)
    BY DEF InOrder, FileInOrder
  <2>3. /\ Read(j)' /\ Followed(x) => Tells(claims'[x], log[j]) \/ (claims'[x] = NoClaim /\ Paid(x))
        /\ Followed(x) /\ outboxCursor # NoBlock /\ indexingSince < outboxCursor
             /\ log[j].ts = outboxCursor =>
                Tells(claims'[x], log[j]) \/ claimHash[x] = NoClaim
    <3>1. CASE x # e
      BY <1>2, <2>1, <2>2, <3>1 DEF Accounted, TellsEntry
    <3>2. CASE x = e
      <4>1. Read(j)' /\ Followed(e) => Tells(c, log[j])
        BY <1>5, <2>1, <3>2
      <4>2. Tells(claims[e], log[j]) => Tells(c, log[j])
        BY <2>1, <3>2 DEF LearnsFrom
      <4> QED
        BY <1>2, <2>1, <2>2, <3>2, <4>1, <4>2 DEF Accounted, TellsEntry
    <3> QED
      BY <3>1, <3>2
  <2> QED
    BY <1>1, <2>1, <2>3 DEF Accounted, TellsEntry
<1> QED
  BY <1>1, <1>6, <1>7 DEF FileInOrder

LEMMA ForgetFile ==
    ASSUME Typed, InOrder, UNCHANGED chainVars, UNCHANGED <<cursor, indexingSince>>,
           NEW e \in Epochs, claims' = RemoveClaim(claims, e), Paid(e),
           \A j \in DOMAIN log : Read(j)' => Read(j)
    PROVE  FileInOrder'
<1>1. /\ log' = log /\ claimHash' = claimHash /\ outboxCursor' = outboxCursor
      /\ \A x \in Epochs : /\ Followed(x)' <=> Followed(x)
                           /\ Paid(x)' <=> Paid(x)
      /\ indexingSince' = indexingSince
  BY DEF chainVars, outboxCursor, Followed, EventsOf, Paid, Emitted
<1>2. /\ claims \in [Epochs -> MaybeClaim]
      /\ claims'[e] = NoClaim /\ \A x \in Epochs : x # e => claims'[x] = claims[x]
  BY ScanTypes DEF RemoveClaim
<1>3. StoredIsHistory'
  <2> SUFFICES ASSUME NEW x \in Epochs
               PROVE  OnlyEvents(x, claims[x])' /\ (Followed(x)' => NoGaps(x, claims[x])')
    BY DEF StoredIsHistory
  <2>1. OnlyEvents(x, claims[x]) /\ (Followed(x) => NoGaps(x, claims[x]))
    BY DEF InOrder, FileInOrder, StoredIsHistory
  <2>2. CASE x # e
    BY <1>1, <1>2, <2>1, <2>2 DEF OnlyEvents, NoGaps, Told, Tells, EventsOf
  <2>3. CASE x = e
    BY <1>2, <2>3 DEF OnlyEvents, NoGaps, Told, Tells
  <2> QED
    BY <2>2, <2>3
<1>4. ASSUME NEW j \in DOMAIN log
      PROVE  Accounted(j)'
  <2>1. PICK x \in Epochs : x = log[j].epoch
    BY ScanTypes
  <2>2. Accounted(j)
    BY DEF InOrder, FileInOrder
  <2>3. /\ Read(j)' /\ Followed(x) => Tells(claims'[x], log[j]) \/ (claims'[x] = NoClaim /\ Paid(x))
        /\ Followed(x) /\ outboxCursor # NoBlock /\ indexingSince < outboxCursor
             /\ log[j].ts = outboxCursor =>
                Tells(claims'[x], log[j]) \/ claimHash[x] = NoClaim
    <3>1. CASE x # e
      BY <1>2, <2>1, <2>2, <3>1 DEF Accounted, TellsEntry
    <3>2. CASE x = e
      BY <1>2, <3>2 DEF Paid
    <3> QED
      BY <3>1, <3>2
  <2> QED
    BY <1>1, <2>1, <2>3 DEF Accounted, TellsEntry
<1> QED
  BY <1>1, <1>3, <1>4 DEF FileInOrder
-----------------------------------------------------------------------------
(* The handlers. *)

LEMMA QuietInOrder ==
    ASSUME InOrder, UNCHANGED chainVars
    PROVE  ChainInOrder'
BY DEF chainVars, InOrder, ChainInOrder, LogOrdered, HashTells, Emitted

(* Memory is gone: the chunk will be read again.                           *)
LEMMA IdleInOrder ==
    ASSUME Typed, InOrder, UNCHANGED <<clock, log, cursor, indexingSince>>,
           idx' = IdleIndexer
    PROVE  /\ ScanInOrder' /\ AwaitInOrder'
           /\ \A j \in DOMAIN log : Read(j)' => Read(j)
<1>1. ~InChunk' /\ idx'.phase # "await" /\ idx'.target["outbox"] < clock
  BY ScanTypes DEF InChunk, IdleIndexer, Sides
<1> QED
  BY <1>1, ScanStops DEF AwaitInOrder

LEMMA DieInOrder ==
    ASSUME Typed, InOrder, UNCHANGED chainVars, UNCHANGED <<claims, cursor, indexingSince>>,
           idx' = IdleIndexer
    PROVE  InOrder' /\ FileMoves
<1>1. UNCHANGED <<clock, log>> /\ ChainInOrder'
  BY QuietInOrder DEF chainVars
<1>2. /\ ScanInOrder' /\ AwaitInOrder'
      /\ \A j \in DOMAIN log : Read(j)' => Read(j)
  BY <1>1, IdleInOrder
<1>3. FileInOrder'
  <2> DEFINE done == {}
  <2>1. \A j \in DOMAIN log : Read(j)' => Read(j) \/ j \in done
    BY <1>2
  <2>2. \A i : i \notin done
    OBVIOUS
  <2> HIDE DEF done
  <2> QED
    BY <2>1, <2>2, SameFile
<1> QED
  BY <1>1, <1>2, <1>3 DEF InOrder, FileMoves

LEMMA NextEntry ==
    ASSUME Typed, InOrder, NEW i \in idx.queue, Delivers("outbox", i)
    PROVE  /\ InChunk /\ Ahead = idx.queue /\ i \in Ahead /\ \A j \in Ahead : i <= j
           /\ Running /\ i \in DOMAIN log /\ log[i].ts \in Nat /\ log[i].ts >= 1
           /\ log[i].epoch \in Epochs /\ log[i].kind \in EventKinds
           /\ log[i].kind = "Claimed" => log[i].arg \in Roots
           /\ log[i].kind = "Challenged" => log[i].arg \in Addresses \ {"zero"}
           /\ idx \in Indexing
<1>1. InChunk /\ Ahead = idx.queue /\ Running
  BY DEF Delivers, InChunk, Ahead
<1>2. i \in DOMAIN log /\ idx \in Indexing
  BY <1>1, ScanTypes
<1>3. log[i] \in Event
  BY <1>2, EventType DEF Typed
<1> QED
  BY <1>1, <1>2, <1>3, EventType
  DEF Event, Typed, InOrder, ChainInOrder, LogOrdered, Delivers

(* The entry that is awaited comes first.                                  *)
LEMMA AwaitedEntry ==
    ASSUME Typed, InOrder, idx.phase = "await"
    PROVE  /\ InChunk /\ Ahead = idx.queue \cup {idx.at} /\ idx.at \in Ahead
           /\ \A j \in idx.queue : idx.at < j
           /\ \A j \in Ahead : idx.at <= j
           /\ idx.at \in DOMAIN log /\ log[idx.at].ts \in Nat /\ log[idx.at].ts >= 1
           /\ log[idx.at].epoch \in Epochs
           /\ idx \in Indexing
<1>1. InChunk /\ Ahead = idx.queue \cup {idx.at}
  BY DEF InChunk, Ahead, Typed, ScanOK
<1>2. \A j \in idx.queue : idx.at < j
  BY <1>1 DEF InOrder, ScanInOrder, ChunkInOrder
<1>3. idx \in Indexing /\ idx.queue \subseteq Nat /\ idx.at \in Nat /\ idx.at \in DOMAIN log
  BY ScanTypes DEF Indexing, Typed, ScanOK
<1>4. \A j \in Ahead : idx.at <= j
  BY <1>1, <1>2, <1>3
<1>5. log[idx.at].ts \in Nat /\ log[idx.at].ts >= 1 /\ log[idx.at].epoch \in Epochs
  BY <1>3, ScanTypes DEF InOrder, ChainInOrder, LogOrdered
<1> QED
  BY <1>1, <1>2, <1>3, <1>4, <1>5

(* Where a handler leaves the scan.                                        *)
LEMMA HandledInOrder ==
    ASSUME Typed, InOrder, UNCHANGED <<clock, log, cursor, indexingSince>>,
           NEW i \in idx.queue, Delivers("outbox", i), idx' = Handled(i)
    PROVE  /\ ScanInOrder' /\ AwaitInOrder'
           /\ \A j \in DOMAIN log : Read(j)' => Read(j) \/ j = i
<1>1. /\ InChunk /\ Ahead = idx.queue /\ i \in Ahead /\ \A j \in Ahead : i <= j
      /\ idx \in Indexing
  BY NextEntry
<1>2. /\ idx'.side = "outbox" /\ idx'.phase = "logs" /\ idx'.to = idx.to
      /\ idx'.target = idx.target /\ idx'.queue = idx.queue \ {i}
  BY <1>1 DEF Handled, Delivers, Indexing
<1>3. Ahead' = Ahead \ {i} /\ {i} \subseteq Ahead
  BY <1>1, <1>2 DEF Ahead
<1>4. \A k \in {i}, j \in Ahead' : k < j
  <2>1. \A j \in Ahead : j \in Nat
    BY <1>1 DEF Indexing
  <2> QED
    BY <1>1, <1>3, <2>1
<1>5. ScanInOrder' /\ \A j \in DOMAIN log : Read(j)' => Read(j) \/ j \in {i}
  BY <1>1, <1>2, <1>3, <1>4, ScanAdvances
<1> QED
  BY <1>2, <1>5 DEF AwaitInOrder

LEMMA AwaitingInOrder ==
    ASSUME Typed, InOrder, UNCHANGED <<clock, log, cursor, indexingSince>>,
           NEW i \in idx.queue, Delivers("outbox", i),
           idx' = Awaiting(i) \/ \E v : idx' = [Awaiting(i) EXCEPT !.verdict = v]
    PROVE  /\ ScanInOrder' /\ idx'.phase = "await" /\ idx'.at = i
           /\ \A j \in DOMAIN log : Read(j)' => Read(j)
<1>1. /\ InChunk /\ Ahead = idx.queue /\ i \in Ahead /\ \A j \in Ahead : i <= j
      /\ idx \in Indexing
  BY NextEntry
<1>2. /\ idx'.side = "outbox" /\ idx'.phase = "await" /\ idx'.to = idx.to
      /\ idx'.target = idx.target /\ idx'.queue = idx.queue \ {i} /\ idx'.at = i
  BY <1>1 DEF Awaiting, Delivers, Indexing
<1> DEFINE done == {}
<1>3. Ahead' = Ahead \ done /\ done \subseteq Ahead /\ \A k : k \notin done
  BY <1>1, <1>2 DEF Ahead
<1>4. \A j \in idx'.queue : idx'.at < j
  <2>1. \A j \in Ahead : j \in Nat
    BY <1>1 DEF Indexing
  <2> QED
    BY <1>1, <1>2, <2>1
<1> HIDE DEF done
<1>5. ScanInOrder' /\ \A j \in DOMAIN log : Read(j)' => Read(j) \/ j \in done
  BY <1>1, <1>2, <1>3, <1>4, ScanAdvances
<1> QED
  BY <1>2, <1>3, <1>5

LEMMA ResumedInOrder ==
    ASSUME Typed, InOrder, UNCHANGED <<clock, log, cursor, indexingSince>>,
           idx.phase = "await", idx' = Resumed
    PROVE  /\ ScanInOrder' /\ AwaitInOrder'
           /\ \A j \in DOMAIN log : Read(j)' => Read(j) \/ j = idx.at
<1>1. /\ InChunk /\ Ahead = idx.queue \cup {idx.at} /\ \A j \in idx.queue : idx.at < j
      /\ idx \in Indexing
  BY AwaitedEntry
<1>2. /\ idx'.side = "outbox" /\ idx'.phase = "logs" /\ idx'.to = idx.to
      /\ idx'.target = idx.target /\ idx'.queue = idx.queue
  BY <1>1 DEF Resumed, Indexing, InChunk
<1>3. /\ Ahead' = Ahead \ {idx.at} /\ {idx.at} \subseteq Ahead
      /\ \A k \in {idx.at}, j \in Ahead' : k < j
  <2>1. idx.at \in Nat /\ Ahead' = idx.queue
    BY <1>1, <1>2 DEF Indexing, Ahead
  <2> QED
    BY <1>1, <2>1
<1>4. ScanInOrder' /\ \A j \in DOMAIN log : Read(j)' => Read(j) \/ j \in {idx.at}
  BY <1>1, <1>2, <1>3, ScanAdvances
<1> QED
  BY <1>2, <1>4 DEF AwaitInOrder
-----------------------------------------------------------------------------
(* What the handlers write. *)

LEMMA OneOfAKind ==
    ASSUME Typed, InOrder, NEW i \in DOMAIN log, NEW j \in DOMAIN log,
           log[i].epoch = log[j].epoch, log[i].kind = log[j].kind
    PROVE  i = j
<1>1. i \in Nat /\ j \in Nat /\ log[i] \in Event
  BY ScanTypes, EventType DEF Typed
<1>2. Rank[log[i].kind] \in Nat
  BY <1>1 DEF Event, EventKinds, Rank
<1>3. ~(i < j) /\ ~(j < i)
  BY <1>2 DEF InOrder, ChainInOrder, LogOrdered
<1> QED
  BY <1>1, <1>3

(* A record that is there tells the event of its claim.                    *)
LEMMA StoredTellsClaim ==
    ASSUME Typed, InOrder, NEW e \in Epochs, claims[e] # NoClaim
    PROVE  \E k \in DOMAIN log : /\ log[k].kind = "Claimed" /\ log[k].epoch = e
                                 /\ Tells(claims[e], log[k])
<1>1. \E k \in Told(e, claims[e]) : log[k].kind = "Claimed"
  BY DEF InOrder, FileInOrder, StoredIsHistory, OnlyEvents
<1> QED
  BY <1>1, ToldMember

LEMMA NewClaimLearns ==
    ASSUME Typed, InOrder, NEW i \in DOMAIN log, log[i].kind = "Claimed",
           NEW e \in Epochs, log[i].epoch = e, claims[e] = NoClaim
    PROVE  LearnsFrom(i, e, NewClaim(log[i].arg, log[i].ts))
<1> DEFINE c == NewClaim(log[i].arg, log[i].ts)
<1>1. c \in ClaimData /\ c # NoClaim
  BY EventType, ChainsAssumption DEF Typed, NewClaim, ClaimData, Parties, Addresses
<1>2. /\ c.root = log[i].arg /\ c.claimed = log[i].ts
      /\ c.verification = 0 /\ c.challenger = "zero" /\ c.honest = "None"
  BY DEF NewClaim
<1> HIDE DEF c
<1>3. Tells(c, log[i])
  BY <1>1, <1>2 DEF Tells
<1>4. OnlyEvents(e, c)
  <2>1. i \in Told(e, c)
    BY <1>3, ToldMember
  <2> QED
    BY <1>2, <2>1 DEF OnlyEvents
<1>5. ASSUME NEW j \in DOMAIN log, log[j].epoch = e, j # i
      PROVE  ~Tells(c, log[j]) /\ ~Tells(claims[e], log[j])
  <2>1. log[j].kind # "Claimed"
    BY <1>5, OneOfAKind
  <2>2. log[j].ts # 0 /\ (log[j].kind = "Challenged" => log[j].arg # "zero")
    BY DEF InOrder, ChainInOrder, LogOrdered
  <2> QED
    BY <1>2, <2>1, <2>2 DEF Tells
<1> QED
  BY <1>1, <1>3, <1>4, <1>5 DEF LearnsFrom, c

LEMMA UpdateLearns ==
    ASSUME Typed, InOrder, NEW i \in DOMAIN log, NEW e \in Epochs, log[i].epoch = e,
           claims[e] \in ClaimData, NEW c \in ClaimData,
           log[i].kind # "Claimed", Tells(c, log[i]),
           c.root = claims[e].root, c.claimed = claims[e].claimed,
           log[i].kind # "VerificationStarted" => c.verification = claims[e].verification,
           log[i].kind # "Challenged" => c.challenger = claims[e].challenger,
           log[i].kind # "Verified" => c.honest = claims[e].honest
    PROVE  LearnsFrom(i, e, c)
<1>1. c # NoClaim /\ claims[e] # NoClaim
  BY ChainsAssumption
<1>2. ASSUME NEW j \in DOMAIN log, log[j].epoch = e, j # i
      PROVE  Tells(c, log[j]) <=> Tells(claims[e], log[j])
  <2>1. log[j].kind # log[i].kind
    BY <1>2, OneOfAKind
  <2> QED
    BY <1>1, <2>1 DEF Tells
<1>3. Told(e, claims[e]) \subseteq Told(e, c) /\ i \in Told(e, c)
  BY <1>2, ToldMember
<1>4. OnlyEvents(e, claims[e])
  BY DEF InOrder, FileInOrder, StoredIsHistory
<1>5. OnlyEvents(e, c)
  <2>1. /\ log[i].kind = "VerificationStarted" \/ log[i].kind = "Challenged"
              \/ log[i].kind = "Verified"
        /\ \A kind : (\E j \in Told(e, claims[e]) : log[j].kind = kind) =>
                        \E j \in Told(e, c) : log[j].kind = kind
        /\ \E j \in Told(e, c) : log[j].kind = log[i].kind
    BY <1>3 DEF Tells
  <2> QED
    BY <1>1, <1>4, <2>1 DEF OnlyEvents
<1> QED
  BY <1>1, <1>2, <1>5 DEF LearnsFrom

LEMMA LearnInOrder ==
    ASSUME Typed, InOrder, UNCHANGED chainVars, UNCHANGED <<cursor, indexingSince>>,
           InChunk, NEW i \in Ahead, \A j \in Ahead : i <= j,
           NEW e \in Epochs, log[i].epoch = e, NEW c, LearnsFrom(i, e, c),
           claims' = [claims EXCEPT ![e] = c],
           \/ idx' = IdleIndexer
           \/ /\ ScanInOrder' /\ AwaitInOrder'
              /\ \A j \in DOMAIN log : Read(j)' => Read(j) \/ j = i
    PROVE  InOrder' /\ FileMoves
<1>1. UNCHANGED <<clock, log>> /\ ChainInOrder'
  BY QuietInOrder DEF chainVars
<1>2. /\ ScanInOrder' /\ AwaitInOrder'
      /\ \A j \in DOMAIN log : Read(j)' => Read(j) \/ j = i
  BY <1>1, IdleInOrder
<1>3. FileInOrder'
  BY <1>2, LearnFile
<1>4. FileMoves
  <2>1. i \in DOMAIN log
    BY ScanTypes
  <2>2. c \in ClaimData
    BY DEF LearnsFrom
  <2>3. \E x \in Epochs, j \in DOMAIN log, d \in ClaimData :
           log[j].epoch = x /\ LearnsFrom(j, x, d) /\ claims' = [claims EXCEPT ![x] = d]
    BY <2>1, <2>2
  <2> QED
    BY <2>3 DEF FileMoves
<1> QED
  BY <1>1, <1>2, <1>3, <1>4 DEF InOrder

(* An event of which nothing is left to write.                             *)
LEMMA SkipInOrder ==
    ASSUME Typed, InOrder, UNCHANGED chainVars, UNCHANGED <<claims, cursor, indexingSince>>,
           NEW i \in DOMAIN log, ScanInOrder', AwaitInOrder',
           \A j \in DOMAIN log : Read(j)' => Read(j) \/ j = i,
           NEW e \in Epochs, log[i].epoch = e,
           Followed(e) => Tells(claims[e], log[i]) \/ (claims[e] = NoClaim /\ Paid(e))
    PROVE  InOrder' /\ FileMoves
<1>1. ChainInOrder'
  BY QuietInOrder
<1>2. FileInOrder'
  <2> DEFINE done == {i}
  <2>1. \A j \in DOMAIN log : Read(j)' => Read(j) \/ j \in done
    OBVIOUS
  <2>2. \A j \in DOMAIN log, x \in Epochs :
           j \in done /\ x = log[j].epoch /\ Followed(x) =>
              Tells(claims[x], log[j]) \/ (claims[x] = NoClaim /\ Paid(x))
    OBVIOUS
  <2> HIDE DEF done
  <2> QED
    BY <2>1, <2>2, SameFile
<1> QED
  BY <1>1, <1>2 DEF InOrder, FileMoves

(* The scan moves and the file does not.                                   *)
LEMMA PauseInOrder ==
    ASSUME Typed, InOrder, UNCHANGED chainVars, UNCHANGED <<claims, cursor, indexingSince>>,
           ScanInOrder', AwaitInOrder', \A j \in DOMAIN log : Read(j)' => Read(j)
    PROVE  InOrder' /\ FileMoves
<1>1. ChainInOrder'
  BY QuietInOrder
<1>2. FileInOrder'
  <2> DEFINE done == {}
  <2>1. \A j \in DOMAIN log : Read(j)' => Read(j) \/ j \in done
    OBVIOUS
  <2>2. \A i : i \notin done
    OBVIOUS
  <2> HIDE DEF done
  <2> QED
    BY <2>1, <2>2, SameFile
<1> QED
  BY <1>1, <1>2 DEF InOrder, FileMoves
LEMMA HandleSnapshotSentInOrder ==
    ASSUME Typed, InOrder, NEW i \in idx.queue, HandleSnapshotSent(i)
    PROVE  InOrder' /\ FileMoves
<1>1. /\ UNCHANGED chainVars /\ UNCHANGED <<claims, cursor, indexingSince>>
      /\ idx' = Handled(i) /\ Delivers("inbox", i)
  BY DEF HandleSnapshotSent, Proceed, Schedule, storeVars, indexerFrame
<1>2. ~InChunk' /\ idx'.target = idx.target /\ idx'.phase # "await"
  BY <1>1, ScanTypes DEF Handled, Delivers, InChunk, Indexing
<1>3. /\ ScanInOrder' /\ AwaitInOrder'
      /\ \A j \in DOMAIN log : Read(j)' => Read(j)
  BY <1>1, <1>2, ScanStops DEF AwaitInOrder, chainVars, InOrder, ScanInOrder
<1> QED
  BY <1>1, <1>3, PauseInOrder

(* handle_claimed_event: a task of the epoch means the claim was stored.   *)
LEMMA HandleClaimedInOrder ==
    ASSUME Typed, InOrder, Informed, NEW i \in idx.queue, HandleClaimed(i)
    PROVE  InOrder' /\ FileMoves
<1>1. /\ UNCHANGED chainVars /\ Delivers("outbox", i) /\ log[i].kind = "Claimed"
      /\ UNCHANGED <<cursor, indexingSince>>
  BY DEF HandleClaimed, Proceed, Panic, Commit, storeVars, indexerFrame
<1>2. /\ InChunk /\ i \in Ahead /\ \A j \in Ahead : i <= j
      /\ i \in DOMAIN log /\ UNCHANGED <<clock, log>>
  BY <1>1, NextEntry DEF chainVars
<1>3. PICK e \in Epochs : e = log[i].epoch
  BY <1>1, NextEntry
<1>4. ASSUME idx' = Handled(i)
      PROVE  /\ ScanInOrder' /\ AwaitInOrder'
             /\ \A j \in DOMAIN log : Read(j)' => Read(j) \/ j = i
  BY <1>1, <1>2, <1>4, HandledInOrder
<1>5. CASE HasTask(e, Kinds) /\ Proceed(Handled(i))
  <2>1. claims[e] # NoClaim \/ Paid(e)
    <3>1. PICK t \in tasks : t.epoch = e
      BY <1>5 DEF HasTask, TasksOf
    <3> QED
      BY <3>1 DEF Informed, TaskKnown, Known
  <2>2. claims[e] # NoClaim => Tells(claims[e], log[i])
    BY <1>1, <1>2, <1>3, StoredTellsClaim, OneOfAKind
  <2>3. idx' = Handled(i) /\ UNCHANGED claims
    BY <1>5 DEF Proceed, storeVars
  <2> QED
    BY <1>1, <1>2, <1>3, <1>4, <2>1, <2>2, <2>3, SkipInOrder
<1>6. CASE Panic("Duplicate claim")
  BY <1>1, <1>6, DieInOrder DEF Panic, Die, storeVars
<1>7. CASE /\ ~Exists(claims, e)
           /\ Commit(StoreClaim(claims, e, NewClaim(log[i].arg, log[i].ts)), {tasks},
                     AddTask(tasks, e, "ValidateClaim", log[i].ts, 0), Handled(i))
  <2> DEFINE c == NewClaim(log[i].arg, log[i].ts)
  <2>1. LearnsFrom(i, e, c)
    BY <1>1, <1>2, <1>3, <1>7, NewClaimLearns DEF Exists
  <2>2. /\ claims' = [claims EXCEPT ![e] = c]
        /\ idx' = Handled(i) \/ idx' = IdleIndexer
    BY <1>7 DEF Commit, StoreClaim, Die
  <2> HIDE DEF c
  <2> QED
    BY <1>1, <1>2, <1>3, <1>4, <2>1, <2>2, LearnInOrder
<1> QED
  BY <1>3, <1>5, <1>6, <1>7 DEF HandleClaimed

(* The claim came before, in a block that was read: its deposit is gone.   *)
LEMMA HandleUnknownInOrder ==
    ASSUME Typed, InOrder, NEW i \in idx.queue, HandleUnknown(i)
    PROVE  InOrder' /\ FileMoves
<1>1. /\ UNCHANGED chainVars /\ Delivers("outbox", i)
      /\ UNCHANGED <<claims, cursor, indexingSince>>
      /\ log[i].kind # "Claimed" /\ claims[log[i].epoch] = NoClaim
  BY DEF HandleUnknown, Proceed, Panic, Exists, storeVars, indexerFrame
<1>2. /\ InChunk /\ i \in Ahead /\ \A j \in Ahead : i <= j
      /\ i \in DOMAIN log /\ UNCHANGED <<clock, log>> /\ log[i].kind \in EventKinds
  BY <1>1, NextEntry DEF chainVars
<1>3. PICK e \in Epochs : e = log[i].epoch
  BY <1>1, NextEntry
<1>4. CASE Panic("claim not found")
  BY <1>1, <1>4, DieInOrder DEF Panic, Die
<1>5. CASE Proceed(Handled(i))
  <2>1. /\ ScanInOrder' /\ AwaitInOrder'
        /\ \A j \in DOMAIN log : Read(j)' => Read(j) \/ j = i
    BY <1>1, <1>2, <1>5, HandledInOrder DEF Proceed
  <2>2. ASSUME Followed(e)
        PROVE  claims[e] = NoClaim /\ Paid(e)
    <3>1. PICK k \in DOMAIN log : log[k].epoch = e /\ log[k].kind = "Claimed"
      BY <2>2 DEF Followed, EventsOf
    <3>2. k < i
      <4>1. k \in Nat /\ i \in Nat
        BY <1>2, ScanTypes
      <4>2. ~(i < k)
        BY <1>1, <1>2, <1>3, <3>1
        DEF InOrder, ChainInOrder, LogOrdered, Rank, EventKinds
      <4> QED
        BY <1>1, <3>1, <4>1, <4>2
    <3>3. Read(k) /\ Accounted(k)
      BY <1>2, <3>2, ReadIsBefore DEF InOrder, FileInOrder
    <3> QED
      BY <1>1, <1>3, <2>2, <3>1, <3>3 DEF Accounted, TellsEntry, Tells
  <2> QED
    BY <1>1, <1>2, <1>3, <2>1, <2>2, SkipInOrder
<1> QED
  BY <1>4, <1>5 DEF HandleUnknown

LEMMA BeginInOrder ==
    ASSUME Typed, Judged, InOrder, NEW i \in idx.queue, Begin(i)
    PROVE  InOrder' /\ FileMoves
<1>1. /\ UNCHANGED chainVars /\ Delivers("outbox", i)
      /\ UNCHANGED <<claims, cursor, indexingSince>>
      /\ claims[log[i].epoch] # NoClaim
  BY DEF Begin, Proceed, Exists, storeVars, indexerFrame
<1>2. i \in DOMAIN log /\ UNCHANGED <<clock, log>> /\ idx \in Indexing
  BY <1>1, NextEntry DEF chainVars
<1>3. PICK e \in Epochs : e = log[i].epoch
  BY <1>1, NextEntry
<1> DEFINE verdict == IF claims[e].root = "correct" THEN "Claimer" ELSE "Challenger"
<1>4. \/ log[i].kind = "VerificationStarted" /\ idx' = Awaiting(i)
      \/ log[i].kind = "Verified" /\ idx' = [Awaiting(i) EXCEPT !.verdict = verdict]
  BY <1>3 DEF Begin, Proceed
<1>5. /\ ScanInOrder' /\ idx'.phase = "await" /\ idx'.at = i
      /\ \A j \in DOMAIN log : Read(j)' => Read(j)
  BY <1>1, <1>2, <1>4, AwaitingInOrder
<1>6. log[i].kind = "Verified" => idx'.verdict = verdict
  BY <1>2, <1>4 DEF Awaiting, Indexing
<1>7. ASSUME NEW root \in Roots, ClaimedAs(e, root)
      PROVE  root = claims[e].root
  <2>1. claims[e] \in ClaimData
    BY <1>1, <1>3, ScanTypes DEF MaybeClaim
  <2>2. ClaimedAs(e, claims[e].root)
    BY <1>1, <1>3 DEF Judged, FilesJudged, Witnessed
  <2>3. ~(ClaimedAs(e, "correct") /\ ClaimedAs(e, "wrong"))
    BY DEF Judged, ChainJudged
  <2> QED
    BY <1>7, <2>1, <2>2, <2>3 DEF ClaimData, Roots
<1>8. \A root \in Roots : ClaimedAs(e, root)' => ClaimedAs(e, root)
  BY <1>2 DEF ClaimedAs
<1>9. AwaitInOrder'
  BY <1>2, <1>3, <1>4, <1>5, <1>6, <1>7, <1>8 DEF AwaitInOrder, ClaimedAs
<1> QED
  BY <1>1, <1>5, <1>9, PauseInOrder

LEMMA BeginChallengedInOrder ==
    ASSUME Typed, InOrder, NEW i \in idx.queue, BeginChallenged(i)
    PROVE  InOrder' /\ FileMoves
<1>1. /\ UNCHANGED chainVars /\ Delivers("outbox", i) /\ log[i].kind = "Challenged"
      /\ UNCHANGED <<cursor, indexingSince>> /\ claims[log[i].epoch] # NoClaim
  BY DEF BeginChallenged, Commit, Exists, indexerFrame
<1>2. /\ InChunk /\ i \in Ahead /\ \A j \in Ahead : i <= j
      /\ i \in DOMAIN log /\ UNCHANGED <<clock, log>> /\ log[i].arg \in Addresses
  BY <1>1, NextEntry DEF chainVars
<1>3. PICK e \in Epochs : e = log[i].epoch
  BY <1>1, NextEntry
<1>4. claims[e] \in ClaimData /\ claims \in [Epochs -> MaybeClaim]
  BY <1>1, <1>3, ScanTypes DEF MaybeClaim
<1> DEFINE c == [claims[e] EXCEPT !.challenger = log[i].arg]
<1>5. /\ c \in ClaimData /\ c.challenger = log[i].arg /\ c.root = claims[e].root
      /\ c.claimed = claims[e].claimed /\ c.verification = claims[e].verification
      /\ c.honest = claims[e].honest
  BY <1>2, <1>4 DEF ClaimData
<1>6. /\ claims' = [claims EXCEPT ![e] = c]
      /\ idx' = Awaiting(i) \/ idx' = IdleIndexer
  BY <1>3, <1>4 DEF BeginChallenged, Commit, Die
<1> HIDE DEF c
<1>7. Tells(c, log[i])
  BY <1>1, <1>5, ChainsAssumption DEF Tells
<1>8. LearnsFrom(i, e, c)
  BY <1>1, <1>2, <1>3, <1>4, <1>5, <1>7, UpdateLearns
<1>9. ASSUME idx' = Awaiting(i)
      PROVE  /\ ScanInOrder' /\ AwaitInOrder'
             /\ \A j \in DOMAIN log : Read(j)' => Read(j) \/ j = i
  <2>1. /\ ScanInOrder' /\ idx'.phase = "await" /\ idx'.at = i
        /\ \A j \in DOMAIN log : Read(j)' => Read(j)
    BY <1>1, <1>2, <1>9, AwaitingInOrder
  <2>2. claims'[e] = c
    BY <1>4, <1>6
  <2> QED
    BY <1>1, <1>2, <1>3, <1>7, <2>1, <2>2 DEF AwaitInOrder, TellsEntry, Tells
<1> QED
  BY <1>1, <1>2, <1>3, <1>6, <1>8, <1>9, LearnInOrder
LEMMA FinishVerificationStartedInOrder ==
    ASSUME Typed, InOrder, FinishVerificationStarted
    PROVE  InOrder' /\ FileMoves
<1> DEFINE i == idx.at
<1>1. /\ UNCHANGED chainVars /\ idx.phase = "await" /\ log[i].kind = "VerificationStarted"
      /\ UNCHANGED <<cursor, indexingSince>>
  BY DEF FinishVerificationStarted, Awaits, Commit, Panic, storeVars, indexerFrame
<1>2. /\ InChunk /\ i \in Ahead /\ \A j \in Ahead : i <= j
      /\ i \in DOMAIN log /\ UNCHANGED <<clock, log>>
      /\ log[i].ts \in Nat /\ log[i].ts >= 1
  BY <1>1, AwaitedEntry DEF chainVars
<1>3. PICK e \in Epochs : e = log[i].epoch
  BY <1>1, AwaitedEntry
<1>4. CASE Panic("Cannot update claim")
  BY <1>1, <1>4, DieInOrder DEF Panic, Die, storeVars
<1>5. CASE /\ claims[e] # NoClaim
           /\ claims' = [claims EXCEPT ![e].verification = log[i].ts]
           /\ idx' = Resumed \/ idx' = IdleIndexer
  <2>1. claims[e] \in ClaimData
    BY <1>5, ScanTypes DEF MaybeClaim
  <2> DEFINE c == [claims[e] EXCEPT !.verification = log[i].ts]
  <2>2. /\ c \in ClaimData /\ c.verification = log[i].ts /\ c.root = claims[e].root
        /\ c.claimed = claims[e].claimed /\ c.challenger = claims[e].challenger
        /\ c.honest = claims[e].honest
    BY <1>2, <2>1 DEF ClaimData
  <2>3. claims' = [claims EXCEPT ![e] = c]
    BY <1>5
  <2> HIDE DEF c
  <2>4. Tells(c, log[i])
    BY <1>1, <2>2, ChainsAssumption DEF Tells
  <2>5. LearnsFrom(i, e, c)
    BY <1>1, <1>2, <1>3, <2>1, <2>2, <2>4, UpdateLearns
  <2>6. idx' = Resumed => /\ ScanInOrder' /\ AwaitInOrder'
                          /\ \A j \in DOMAIN log : Read(j)' => Read(j) \/ j = i
    BY <1>1, <1>2, ResumedInOrder
  <2> HIDE DEF i
  <2> QED
    BY <1>1, <1>2, <1>3, <1>5, <2>3, <2>5, <2>6, LearnInOrder
<1> QED
  BY <1>3, <1>4, <1>5 DEF FinishVerificationStarted, Commit, Exists, Die

(* The winner that was judged before the await is the one of the record.   *)
LEMMA FinishVerifiedInOrder ==
    ASSUME Typed, InOrder, FinishVerified
    PROVE  InOrder' /\ FileMoves
<1> DEFINE i == idx.at
<1>1. /\ UNCHANGED chainVars /\ idx.phase = "await" /\ log[i].kind = "Verified"
      /\ UNCHANGED <<cursor, indexingSince>>
  BY DEF FinishVerified, Awaits, Commit, Panic, storeVars, indexerFrame
<1>2. /\ InChunk /\ i \in Ahead /\ \A j \in Ahead : i <= j
      /\ i \in DOMAIN log /\ UNCHANGED <<clock, log>> /\ idx.verdict \in Parties
  BY <1>1, AwaitedEntry DEF chainVars, Indexing
<1>3. PICK e \in Epochs : e = log[i].epoch
  BY <1>1, AwaitedEntry
<1>4. CASE Panic("Cannot update claim")
  BY <1>1, <1>4, DieInOrder DEF Panic, Die, storeVars
<1>5. CASE /\ claims[e] # NoClaim
           /\ claims' = [claims EXCEPT ![e].honest = idx.verdict]
           /\ idx' = Resumed \/ idx' = IdleIndexer
  <2>1. claims[e] \in ClaimData
    BY <1>5, ScanTypes DEF MaybeClaim
  <2> DEFINE c == [claims[e] EXCEPT !.honest = idx.verdict]
  <2>2. /\ c \in ClaimData /\ c.honest = idx.verdict /\ c.root = claims[e].root
        /\ c.claimed = claims[e].claimed /\ c.challenger = claims[e].challenger
        /\ c.verification = claims[e].verification
    BY <1>2, <2>1 DEF ClaimData
  <2>3. claims' = [claims EXCEPT ![e] = c]
    BY <1>5
  <2> HIDE DEF c
  <2>4. idx.verdict = IF claims[e].root = "correct" THEN "Claimer" ELSE "Challenger"
    <3>1. claims[e].root \in Roots
      BY <2>1 DEF ClaimData
    <3>2. ClaimedAs(e, claims[e].root)
      BY <1>5, StoredTellsClaim DEF Tells, ClaimedAs
    <3> QED
      BY <1>1, <1>3, <3>1, <3>2 DEF InOrder, AwaitInOrder
  <2>5. Tells(c, log[i])
    BY <1>1, <2>2, <2>4, ChainsAssumption DEF Tells
  <2>6. LearnsFrom(i, e, c)
    BY <1>1, <1>2, <1>3, <2>1, <2>2, <2>5, UpdateLearns
  <2>7. idx' = Resumed => /\ ScanInOrder' /\ AwaitInOrder'
                          /\ \A j \in DOMAIN log : Read(j)' => Read(j) \/ j = i
    BY <1>1, <1>2, ResumedInOrder
  <2> HIDE DEF i
  <2> QED
    BY <1>1, <1>2, <1>3, <1>5, <2>3, <2>6, <2>7, LearnInOrder
<1> QED
  BY <1>3, <1>4, <1>5 DEF FinishVerified, Commit, Exists, Die

LEMMA FinishChallengedInOrder ==
    ASSUME Typed, InOrder, Informed, FinishChallenged
    PROVE  InOrder' /\ FileMoves
<1> DEFINE i == idx.at
<1>1. /\ UNCHANGED chainVars /\ idx.phase = "await" /\ log[i].kind = "Challenged"
      /\ UNCHANGED <<claims, cursor, indexingSince>> /\ idx' = Resumed
  BY DEF FinishChallenged, Awaits, Schedule, indexerFrame
<1>2. i \in DOMAIN log /\ UNCHANGED <<clock, log>>
  BY <1>1, AwaitedEntry DEF chainVars
<1>3. PICK e \in Epochs : e = log[i].epoch
  BY <1>1, AwaitedEntry
<1>4. Tells(claims[e], log[i]) \/ (claims[e] = NoClaim /\ Paid(e))
  <2>1. claims[e] = NoClaim \/ Tells(claims[e], log[i])
    BY <1>1, <1>3 DEF InOrder, AwaitInOrder, TellsEntry
  <2>2. Known(e)
    BY <1>1, <1>3 DEF Informed, AwaitKnown
  <2> QED
    BY <2>1, <2>2 DEF Known
<1>5. /\ ScanInOrder' /\ AwaitInOrder'
      /\ \A j \in DOMAIN log : Read(j)' => Read(j) \/ j = i
  BY <1>1, <1>2, ResumedInOrder
<1> HIDE DEF i
<1> QED
  BY <1>1, <1>2, <1>3, <1>4, <1>5, SkipInOrder

LEMMA HandleInOrder ==
    ASSUME Typed, Judged, Informed, InOrder, Handle \/ HandlerFails
    PROVE  InOrder' /\ FileMoves
<1>1. CASE HandlerFails
  BY <1>1, DieInOrder DEF HandlerFails, Panic, Die, storeVars, indexerFrame
<1>2. CASE Handle
  BY <1>2, HandleSnapshotSentInOrder, HandleClaimedInOrder, HandleUnknownInOrder,
     BeginInOrder, BeginChallengedInOrder, FinishVerificationStartedInOrder,
     FinishChallengedInOrder, FinishVerifiedInOrder
  DEF Handle
<1> QED
  BY <1>1, <1>2
-----------------------------------------------------------------------------
(* From one chunk to the next. *)

LEMMA TargetIsPast ==
    ASSUME Typed, InOrder
    PROVE  /\ Target("outbox") \in Nat /\ Target("outbox") < clock
           /\ \A s \in Sides : Target(s) \in Nat
<1>1. FinalBlock \in Nat /\ FinalBlock < clock
  BY ScanTypes, ProcessAssumption DEF FinalBlock, Truncated
<1>2. idx.target["outbox"] \in Nat /\ idx.target["outbox"] < clock
  BY ScanTypes DEF InOrder, ScanInOrder
<1>3. \A s \in Sides : idx.target[s] \in Nat
  BY ScanTypes DEF Indexing
<1> QED
  BY <1>1, <1>2, <1>3 DEF Target

LEMMA NoChunkInOrder ==
    ASSUME Typed, InOrder, ScanNothing \/ ScanFailed
    PROVE  InOrder' /\ FileMoves
<1>1. /\ UNCHANGED chainVars /\ UNCHANGED <<clock, log>>
      /\ UNCHANGED <<claims, cursor, indexingSince>>
  BY DEF ScanNothing, ScanFailed, indexerFrame, storeVars, chainVars
<1>2. idx \in Indexing /\ idx.side \in Sides /\ idx.target["outbox"] < clock
      /\ clock \in Nat /\ clock >= 1
  BY ScanTypes DEF Indexing, InOrder, ScanInOrder
<1>3. /\ idx'.phase = "query"
      /\ \/ idx'.target["outbox"] \in {0, idx.target["outbox"]}
         \/ idx'.target["outbox"] = Target("outbox")
  <2>1. CASE ScanNothing
    BY <1>2, <2>1 DEF ScanNothing, ScanResult, Indexing, Sides
  <2>2. CASE ScanFailed
    BY <1>2, <2>2 DEF ScanFailed, ScanResult, Indexing, Sides
  <2> QED
    BY <2>1, <2>2
<1>4. ~InChunk' /\ idx'.target["outbox"] < clock
  BY <1>2, <1>3, TargetIsPast DEF InChunk
<1>5. /\ ScanInOrder' /\ AwaitInOrder'
      /\ \A j \in DOMAIN log : Read(j)' => Read(j)
  BY <1>1, <1>3, <1>4, ScanStops DEF AwaitInOrder
<1> QED
  BY <1>1, <1>5, PauseInOrder

LEMMA ScanChunkInOrder ==
    ASSUME Typed, InOrder, ScanChunk
    PROVE  InOrder' /\ FileMoves
<1>1. /\ UNCHANGED chainVars /\ UNCHANGED <<clock, log>>
      /\ UNCHANGED <<claims, cursor, indexingSince>>
  BY DEF ScanChunk, indexerFrame, storeVars, chainVars
<1>2. idx \in Indexing /\ idx.side \in Sides /\ idx.target["outbox"] < clock
      /\ clock \in Nat /\ idx.phase = "query"
  BY ScanTypes DEF Indexing, InOrder, ScanInOrder, ScanChunk
<1> DEFINE from == cursor[idx.side]
           to   == Least(from + Chunk, Target(idx.side))
<1>3. /\ idx'.phase = "logs" /\ idx'.side = idx.side /\ idx'.to = to
      /\ idx'.queue = InRange(idx.side, from, to)
      /\ idx'.target["outbox"] = IF idx.side = "outbox" THEN Target("outbox")
                                 ELSE idx.target["outbox"]
  BY <1>2 DEF ScanChunk, Indexing, Sides
<1>4. CASE idx.side = "inbox"
  <2>1. ~InChunk' /\ idx'.target["outbox"] < clock
    BY <1>2, <1>3, <1>4 DEF InChunk
  <2>2. /\ ScanInOrder' /\ AwaitInOrder'
        /\ \A j \in DOMAIN log : Read(j)' => Read(j)
    BY <1>1, <1>3, <2>1, ScanStops DEF AwaitInOrder
  <2> QED
    BY <1>1, <2>2, PauseInOrder
<1>5. CASE idx.side = "outbox"
  <2>1. /\ from \in Nat /\ from = outboxCursor /\ outboxCursor' = from /\ from # NoBlock
        /\ to \in Nat /\ to < clock
    <3>1. Running
      BY DEF ScanChunk
    <3>2. from \in Nat /\ from = outboxCursor /\ outboxCursor' = from
      BY <1>1, <1>2, <1>5, <3>1 DEF Typed, ScanOK, outboxCursor
    <3>3. Target("outbox") \in Nat /\ Target("outbox") < clock /\ from + Chunk \in Nat
      BY <3>2, TargetIsPast, ProcessAssumption
    <3> QED
      BY <1>2, <1>5, <3>2, <3>3, ProcessAssumption DEF Least
  <2>2. /\ InChunk' /\ Ahead' = idx'.queue
        /\ \A i \in DOMAIN log : i \in Ahead' <=> from <= log[i].ts /\ log[i].ts <= to
        /\ Ahead' \subseteq DOMAIN log
    BY <1>3, <1>5 DEF InChunk, Ahead, InRange, LogBlocks
  <2> HIDE DEF from, to
  <2>3. ASSUME NEW i \in DOMAIN log, Read(i)'
        PROVE  log[i].ts < from /\ Read(i)
    BY <1>1, <1>3, <2>1, <2>2, <2>3, ScanTypes DEF Read
  <2>4. ASSUME NEW i \in DOMAIN log, NEW j \in Ahead', Read(i)'
        PROVE  i < j
    <3>1. log[i].ts < from /\ from <= log[j].ts /\ j \in DOMAIN log
      BY <2>2, <2>3, <2>4
    <3>2. i \in Nat /\ j \in Nat /\ log[i].ts \in Nat /\ log[j].ts \in Nat
      BY <3>1, ScanTypes
    <3>3. ~(j < i) /\ i # j
      BY <2>1, <3>1, <3>2 DEF InOrder, ChainInOrder, LogOrdered
    <3> QED
      BY <3>2, <3>3
  <2>5. ChunkInOrder'
    BY <1>1, <1>3, <2>1, <2>2, <2>4 DEF ChunkInOrder
  <2>6. ScanInOrder'
    BY <1>1, <1>3, <1>5, <2>1, <2>5, TargetIsPast
    DEF InOrder, ScanInOrder, SyncStart, Truncated
  <2> QED
    BY <1>1, <1>3, <2>3, <2>6, PauseInOrder DEF AwaitInOrder
<1> QED
  BY <1>2, <1>4, <1>5 DEF Sides

(* The cursor moves, over entries that were read.                          *)
LEMMA AccountsStay ==
    ASSUME Typed, InOrder, UNCHANGED chainVars, UNCHANGED <<claims, indexingSince>>,
           \A j \in DOMAIN log : Read(j)' => Read(j),
           \/ outboxCursor' = outboxCursor
           \/ \A j \in DOMAIN log : log[j].ts = outboxCursor' => Read(j)
    PROVE  FileInOrder'
<1>1. log' = log /\ claimHash' = claimHash
  BY DEF chainVars
<1>2. StoredIsHistory'
  BY <1>1 DEF InOrder, FileInOrder, StoredIsHistory, OnlyEvents, NoGaps, Told, Tells,
              EventsOf, Followed
<1>3. ASSUME NEW j \in DOMAIN log
      PROVE  Accounted(j)'
  <2>1. PICK e \in Epochs : e = log[j].epoch
    BY ScanTypes
  <2>2. Accounted(j) /\ (Followed(e)' <=> Followed(e)) /\ (Paid(e)' <=> Paid(e))
    BY <1>1 DEF InOrder, FileInOrder, Followed, EventsOf, Paid, Emitted
  <2>3. /\ Read(j)' /\ Followed(e)' => Tells(claims[e], log[j]) \/ (claims[e] = NoClaim /\ Paid(e)')
        /\ Followed(e)' /\ outboxCursor' # NoBlock /\ indexingSince' < outboxCursor'
             /\ log[j].ts = outboxCursor' =>
                Tells(claims[e], log[j]) \/ claimHash'[e] = NoClaim
    BY <1>1, <2>1, <2>2 DEF Accounted, TellsEntry, Paid
  <2> QED
    BY <1>1, <2>1, <2>3 DEF Accounted, TellsEntry, Paid
<1> QED
  BY <1>1, <1>2, <1>3 DEF FileInOrder

(* The chunk is handled: what it held has been read.                       *)
LEMMA FinishChunkInOrder ==
    ASSUME Typed, InOrder, FinishChunk
    PROVE  InOrder' /\ FileMoves
<1>1. /\ UNCHANGED chainVars /\ UNCHANGED <<clock, log>>
      /\ UNCHANGED <<claims, indexingSince>>
  BY DEF FinishChunk, indexerFrame, chainVars
<1>2. /\ idx \in Indexing /\ idx.side \in Sides /\ idx.target["outbox"] < clock
      /\ clock \in Nat /\ clock >= 1 /\ idx.phase = "logs" /\ idx.queue = {}
      /\ cursor \in [Sides -> Nat \cup {NoBlock}] /\ idx.to \in Nat /\ idx.to # NoBlock
  BY ScanTypes DEF Indexing, InOrder, ScanInOrder, FinishChunk, Typed, ProcessTypeOK
<1>3. /\ idx'.phase = "query"
      /\ idx'.target["outbox"] \in {0, idx.target["outbox"]}
  BY <1>2 DEF FinishChunk, ScanResult, Indexing, Sides
<1>4. ~InChunk' /\ idx'.target["outbox"] < clock
  BY <1>2, <1>3 DEF InChunk
<1>5. CASE idx.side = "inbox"
  <2>1. outboxCursor' = outboxCursor /\ SyncStart' = SyncStart
    BY <1>1, <1>2, <1>5 DEF FinishChunk, outboxCursor, Sides, SyncStart, Truncated
  <2>2. \A j \in DOMAIN log : Read(j)' => Read(j)
    BY <1>1, <1>4, <2>1 DEF Read
  <2>3. ScanInOrder'
    BY <1>1, <1>4, <2>1 DEF InOrder, ScanInOrder, ChunkInOrder
  <2>4. FileInOrder'
    BY <1>1, <2>1, <2>2, AccountsStay
  <2> QED
    BY <1>1, <1>3, <2>3, <2>4, QuietInOrder DEF InOrder, AwaitInOrder, FileMoves
<1>6. CASE idx.side = "outbox"
  <2>1. outboxCursor' = idx.to /\ SyncStart' = SyncStart
    BY <1>1, <1>2, <1>6 DEF FinishChunk, outboxCursor, Sides, SyncStart, Truncated
  <2>2. InChunk /\ Ahead = {} /\ ChunkInOrder
    BY <1>2, <1>6 DEF InChunk, Ahead, InOrder, ScanInOrder
  <2>3. ASSUME NEW j \in DOMAIN log, log[j].ts <= idx.to
        PROVE  Read(j)
    BY <2>2, <2>3 DEF Read, ChunkInOrder
  <2>4. ASSUME NEW j \in DOMAIN log, Read(j)'
        PROVE  Read(j)
    BY <1>1, <1>2, <1>4, <2>1, <2>3, <2>4, ScanTypes DEF Read
  <2>5. ScanInOrder'
    BY <1>1, <1>2, <1>4, <2>1, <2>2 DEF InOrder, ScanInOrder, ChunkInOrder
  <2>6. \A j \in DOMAIN log : log[j].ts = outboxCursor' => Read(j)
    BY <1>2, <2>1, <2>3
  <2>7. FileInOrder'
    BY <1>1, <2>4, <2>6, AccountsStay
  <2> QED
    BY <1>1, <1>3, <2>5, <2>7, QuietInOrder DEF InOrder, AwaitInOrder, FileMoves
<1> QED
  BY <1>2, <1>5, <1>6 DEF Sides

LEMMA IndexerInOrder ==
    ASSUME Typed, Judged, Informed, InOrder, IndexerStep \/ IndexerFault
    PROVE  InOrder' /\ FileMoves
<1>1. CASE TargetSearchFailed
  BY <1>1, DieInOrder DEF TargetSearchFailed, Panic, Die, storeVars, indexerFrame
<1> QED
  BY <1>1, NoChunkInOrder, ScanChunkInOrder, FinishChunkInOrder, HandleInOrder
  DEF IndexerStep, IndexerFault
-----------------------------------------------------------------------------
(* A start, a task, and the invariant. *)

(* Indexing begins anew: what it skips is before every claim it follows.   *)
LEMMA StartInOrder ==
    ASSUME Typed, InStep, InOrder, FirstStart \/ Restart
    PROVE  InOrder' /\ FileMoves
<1>1. /\ UNCHANGED chainVars /\ UNCHANGED <<clock, log>> /\ UNCHANGED <<claims, idx>>
      /\ \/ UNCHANGED <<cursor, indexingSince>>
         \/ indexingSince' = SyncStart /\ cursor' = [s \in Sides |-> SyncStart]
  BY DEF FirstStart, Restart, Start, chainVars
<1>2. idx = IdleIndexer
  BY DEF FirstStart, Restart, Start, InStep, Running, Stopped
<1>3. CASE UNCHANGED <<cursor, indexingSince>>
  BY <1>1, <1>2, <1>3, DieInOrder
<1>4. CASE indexingSince' = SyncStart /\ cursor' = [s \in Sides |-> SyncStart]
  <2>1. /\ SyncStart \in Nat /\ indexingSince \in Nat /\ indexingSince <= SyncStart
        /\ SyncStart <= clock /\ clock \in Nat /\ clock >= 1 /\ SyncStart # NoBlock
    BY ScanTypes, ProcessAssumption DEF SyncStart, Truncated, InOrder, ScanInOrder
  <2>2. outboxCursor' = SyncStart /\ SyncStart' = SyncStart
    BY <1>1, <1>4 DEF outboxCursor, Sides, SyncStart, Truncated
  <2>3. ~InChunk' /\ idx'.phase # "await" /\ idx'.target["outbox"] < clock
    BY <1>1, <1>2, <2>1 DEF InChunk, IdleIndexer, Sides
  <2>4. ScanInOrder'
    BY <1>1, <1>4, <2>1, <2>2, <2>3 DEF ScanInOrder, ChunkInOrder
  <2>5. ASSUME NEW e \in Epochs, Followed(e)'
        PROVE  /\ Followed(e)
               /\ \A j \in DOMAIN log : log[j].epoch = e => ~(log[j].ts < SyncStart)
    <3>1. PICK k \in DOMAIN log : /\ log[k].epoch = e /\ log[k].kind = "Claimed"
                                  /\ log[k].ts >= SyncStart
      BY <1>1, <1>4, <2>5 DEF Followed, EventsOf
    <3>2. log[k].ts >= indexingSince
      BY <2>1, <3>1, ScanTypes
    <3>3. ASSUME NEW j \in DOMAIN log, log[j].epoch = e
          PROVE  ~(log[j].ts < SyncStart)
      <4>1. log[j] \in Event /\ j \in Nat /\ k \in Nat
        BY ScanTypes, EventType DEF Typed
      <4>2. ~(j < k)
        BY <3>1, <3>3, <4>1
        DEF InOrder, ChainInOrder, LogOrdered, Rank, EventKinds, Event
      <4>3. j = k \/ log[k].ts <= log[j].ts
        BY <4>1, <4>2 DEF InOrder, ChainInOrder, LogOrdered
      <4> QED
        BY <2>1, <3>1, <4>3, ScanTypes
    <3> QED
      BY <3>1, <3>2, <3>3 DEF Followed, EventsOf
  <2>6. StoredIsHistory'
    BY <1>1, <2>5 DEF InOrder, FileInOrder, StoredIsHistory, OnlyEvents, NoGaps, Told,
                      Tells, EventsOf
  <2>7. ASSUME NEW j \in DOMAIN log
        PROVE  Accounted(j)'
    <3>1. PICK e \in Epochs : e = log[j].epoch
      BY ScanTypes
    <3>2. ~(Followed(e)' /\ Read(j)')
      BY <1>1, <2>2, <2>3, <2>5, <3>1 DEF Read
    <3> QED
      BY <1>1, <1>4, <2>1, <2>2, <3>1, <3>2 DEF Accounted
  <2> QED
    BY <1>1, <2>3, <2>4, <2>6, <2>7, QuietInOrder 
    DEF InOrder, FileInOrder, AwaitInOrder, FileMoves
<1> QED
  BY <1>1, <1>3, <1>4

LEMMA SameInOrder ==
    ASSUME Typed, InOrder, UNCHANGED chainVars,
           UNCHANGED <<claims, cursor, idx, indexingSince>>
    PROVE  InOrder' /\ FileMoves
<1>1. UNCHANGED <<clock, log>>
  BY DEF chainVars
<1>2. ScanInOrder' /\ \A j \in DOMAIN log : Read(j)' => Read(j)
  BY <1>1 DEF InOrder, ScanInOrder, ChunkInOrder, Read, InChunk, Ahead, outboxCursor,
              SyncStart, Truncated
<1>3. AwaitInOrder'
  BY <1>1 DEF InOrder, AwaitInOrder, ClaimedAs, TellsEntry, Tells
<1> QED
  BY <1>2, <1>3, PauseInOrder

(* The record of an epoch that is paid leaves the file.                    *)
LEMMA ForgetInOrder ==
    ASSUME Typed, InOrder, UNCHANGED chainVars, UNCHANGED <<cursor, indexingSince>>,
           idx' = idx \/ idx' = IdleIndexer,
           NEW e \in Epochs, claims' = RemoveClaim(claims, e), Paid(e)
    PROVE  InOrder' /\ FileMoves
<1>1. UNCHANGED <<clock, log>> /\ ChainInOrder'
  BY QuietInOrder DEF chainVars
<1>2. ScanInOrder' /\ \A j \in DOMAIN log : Read(j)' => Read(j)
  <2>1. CASE idx' = idx
    BY <1>1, <2>1
    DEF InOrder, ScanInOrder, ChunkInOrder, Read, InChunk, Ahead, outboxCursor,
        SyncStart, Truncated
  <2> QED
    BY <1>1, <2>1, IdleInOrder
<1>3. FileInOrder'
  BY <1>2, ForgetFile
<1>4. AwaitInOrder'
  <2>1. \A x \in Epochs : claims'[x] = claims[x] \/ claims'[x] = NoClaim
    BY ScanTypes DEF RemoveClaim
  <2>2. idx.phase = "await" => idx.at \in DOMAIN log /\ log[idx.at].epoch \in Epochs
    BY AwaitedEntry
  <2>3. CASE idx' = idx
    BY <1>1, <2>1, <2>2, <2>3 DEF InOrder, AwaitInOrder, ClaimedAs, TellsEntry, Tells
  <2> QED
    BY <1>1, <2>3, IdleInOrder
<1> QED
  BY <1>1, <1>2, <1>3, <1>4 DEF InOrder, FileMoves

(* What a task does to the file and to the indexer.                        *)
LEMMA TaskMoves ==
    ASSUME DispatcherStep \/ DispatcherFault, ~Land
    PROVE  /\ UNCHANGED chainVars /\ UNCHANGED <<cursor, indexingSince>>
           /\ idx' = idx \/ idx' = IdleIndexer
           /\ \/ claims' = claims
              \/ disp.phase \in Busy /\ claims' = RemoveClaim(claims, disp.task.epoch)
<1>1. CASE Work \/ DispatcherFault
  BY <1>1
  DEF Work, DispatcherFault, Poll, ReadNow, BeginTask, CheckFinality, Judge, CheckHash,
      CheckSpent, ReadNowFailed, RequestFailed, BlockSearchFailed, OutOfFunds, Doing,
      Busy, Complete, Reschedule, Keep, Forget, Succeed, MoveOn, Wait, Die,
      dispatcherFrame, noTransaction
<1>2. CASE Sending
  BY <1>2
  DEF Sending, Revert, Confirmed, ChallengeFailed, StartVerificationFailed,
      VerifySnapshotFailed, WithdrawFailed, SendFailed, RelayFailed, DropIfEmitted,
      RescheduleIfInvalid, Failed, Doing, Busy, Answered, Complete, Reschedule, Keep,
      Forget, Succeed, MoveOn, Die, dispatcherFrame, noTransaction
<1> QED
  BY <1>1, <1>2 DEF DispatcherStep

LEMMA DispatcherInOrder ==
    ASSUME Typed, Judged, Judged', Informed, InOrder, DispatcherStep \/ DispatcherFault
    PROVE  InOrder' /\ FileMoves
<1>1. CASE Land
  <2>1. PICK e \in Epochs : e = disp.task.epoch
    BY <1>1 DEF Land, Typed, PassOK, HoldsTask, Busy, Task
  <2>2. /\ Transaction(disp.task.kind, e, disp.claim, disp.task.position)
        /\ UNCHANGED <<claims, cursor, idx, indexingSince>>
    BY <1>1, <2>1 DEF Land, dispatcherFrame
  <2>3. /\ disp.claim \in MaybeClaim
        /\ disp.task.kind = "SendSnapshot" => disp.claim # NoClaim
    BY <1>1 DEF Land, Typed, ProcessTypeOK, PassOK, HoldsTask, Busy, Dispatching, MaybeClaim
  <2>4. ChainStep(Epochs)
    BY <2>2, <2>3 DEF Transaction, ChainStep, Addresses, Relay, CanRelay, MaybeClaim
  <2> QED
    BY <2>2, <2>4, ChainKeepsInOrder
<1>2. CASE ~Land
  <2>1. /\ UNCHANGED chainVars /\ UNCHANGED <<cursor, indexingSince>>
        /\ idx' = idx \/ idx' = IdleIndexer
        /\ \/ claims' = claims
           \/ disp.phase \in Busy /\ claims' = RemoveClaim(claims, disp.task.epoch)
    BY <1>2, TaskMoves
  <2>2. CASE claims' = claims
    BY <2>1, <2>2, SameInOrder, DieInOrder
  <2>3. CASE disp.phase \in Busy /\ claims' = RemoveClaim(claims, disp.task.epoch)
    <3>1. PICK e \in Epochs : e = disp.task.epoch
      BY <2>3 DEF Typed, PassOK, HoldsTask, Task
    <3>2. Known(e) /\ claims'[e] = NoClaim
      BY <2>3, <3>1, ScanTypes DEF Informed, PassKnown, TaskKnown, RemoveClaim
    <3>3. Remembers
      BY DispatcherInformed
    <3>4. Paid(e)
      BY <2>1, <3>2, <3>3 DEF Remembers, Known, Paid, Emitted, chainVars
    <3> QED
      BY <2>1, <2>3, <3>1, <3>4, ForgetInOrder
  <2> QED
    BY <2>1, <2>2, <2>3
<1> QED
  BY <1>1, <1>2

LEMMA InitInOrder == Init => InOrder
<1> SUFFICES ASSUME Init PROVE InOrder
  OBVIOUS
<1> USE DEF Init, ChainsInit, ProcessInit
<1>1. DOMAIN log = {} /\ clock = 1 /\ \A e \in Epochs : claimHash[e] = NoClaim
  OBVIOUS
<1>2. ChainInOrder
  BY <1>1 DEF ChainInOrder, LogOrdered, HashTells
<1>3. /\ outboxCursor = NoBlock /\ ~InChunk /\ idx.target["outbox"] = 0
      /\ idx.phase # "await" /\ indexingSince = 0
  BY DEF outboxCursor, Sides, InChunk, IdleIndexer
<1>4. 0 <= SyncStart
  BY ProcessAssumption DEF SyncStart, Truncated
<1>5. ScanInOrder
  BY <1>1, <1>3, <1>4 DEF ScanInOrder, ChunkInOrder
<1>6. FileInOrder
  BY <1>1 DEF FileInOrder, StoredIsHistory, OnlyEvents, NoGaps, Told, EventsOf
<1> QED
  BY <1>2, <1>3, <1>5, <1>6 DEF InOrder, AwaitInOrder

LEMMA NextInOrder ==
    Typed /\ InStep /\ Judged /\ Informed /\ InOrder /\ [Next]_vars => InOrder' /\ FileMoves
<1> SUFFICES ASSUME Typed, InStep, Judged, Informed, InOrder, [Next]_vars PROVE InOrder' /\ FileMoves
  OBVIOUS
<1>0. Judged'
  BY NextJudged
<1>1. CASE Environment
  <2>1. UNCHANGED <<claims, cursor, idx, indexingSince>>
    BY <1>1 DEF Environment, storeVars, procVars
  <2>2. \A e \in Epochs : claimHash[e] \in MaybeClaim
    BY DEF Typed, ChainsOK, ChainsTypeOK, MaybeClaim
  <2>3. ChainStep({})
    BY <1>1, <2>2, ChainsAssumption DEF Environment, Others, ChainStep, Addresses, Open,
                                        MaybeClaim
  <2> QED
    BY <1>0, <2>1, <2>3, ChainKeepsInOrder
<1>2. CASE FirstStart \/ Restart
  BY <1>2, StartInOrder
<1>3. CASE Kill
  BY <1>3, DieInOrder DEF Kill, Die, storeVars
<1>4. CASE IndexerStep \/ IndexerFault
  BY <1>4, IndexerInOrder
<1>5. CASE DispatcherStep \/ DispatcherFault
  BY <1>0, <1>5, DispatcherInOrder
<1>6. CASE UNCHANGED vars
  BY <1>6, SameInOrder DEF vars, storeVars, procVars
<1> QED
  BY <1>1, <1>2, <1>3, <1>4, <1>5, <1>6 DEF Next

AllHold == Typed /\ InStep /\ Judged /\ Informed /\ InOrder

LEMMA Invariance == Spec => []AllHold
<1>1. Init => AllHold
  BY InitTyped, InitInStep, InitJudged, InitInformed, InitInOrder DEF AllHold
<1>2. AllHold /\ [Next]_vars => AllHold'
  BY NextTyped, NextInStep, NextJudged, NextInformed, NextInOrder DEF AllHold
<1> QED
  BY <1>1, <1>2, PTL DEF Spec

(* The stored claim is what the outbox's claim was after some of its       *)
(* events, the first ones unless indexing began after the claim was made   *)
(* (indexer.rs): blocks delivered twice, torn writes, panics and restarts  *)
(* never mix two of its states, and never invent one.                      *)
THEOREM RecordsAreHistory == Spec => []StoredIsHistory
<1>1. AllHold => StoredIsHistory
  BY DEF AllHold, InOrder, FileInOrder
<1> QED
  BY <1>1, Invariance, PTL

(* An event of a block that the saved outbox cursor has passed is in the   *)
(* file, whatever was killed, torn or read twice (the cursor is saved      *)
(* after the chunk's events are handled), or its deposit is withdrawn, or  *)
(* its claim was made before the time indexing began.                      *)
THEOREM FileKeepsUp == Spec => []NothingMissed
<1>1. AllHold => NothingMissed
  <2> SUFFICES ASSUME AllHold, NEW i \in DOMAIN log, Passed(i), Followed(log[i].epoch)
               PROVE  \/ Tells(claims[log[i].epoch], log[i])
                      \/ claimHash[log[i].epoch] = NoClaim
    BY DEF NothingMissed
  <2>1. Accounted(i) /\ log[i].ts \in Nat /\ outboxCursor \in Nat
    BY ScanTypes DEF AllHold, InOrder, FileInOrder, Passed, outboxCursor
  <2>2. Read(i) \/ log[i].ts = outboxCursor
    BY <2>1 DEF Passed, Read, outboxCursor
  <2> QED
    BY <2>1, <2>2 DEF Accounted, TellsEntry, Paid, Passed, outboxCursor
<1> QED
  BY <1>1, Invariance, PTL
=============================================================================
