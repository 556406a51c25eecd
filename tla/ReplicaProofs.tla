---------------------------- MODULE ReplicaProofs ----------------------------
(***************************************************************************)
(* The claims file implements ClaimReplica, whose variables are what has   *)
(* been emitted about each epoch, which of it the file tells, and whether  *)
(* the deposit is out; and what that means for the messages this validator *)
(* sends through the inbox about a claim in dispute: they can settle it,   *)
(* and once the indexer has met them they wait to be relayed.              *)
(***************************************************************************)
EXTENDS HistoryProofs

(* Indexing began before every claim that was made: the route was never    *)
(* down for longer than the lookback while one was open.                   *)
AllFollowed == \A e \in Epochs : Emitted("Claimed", e) => Followed(e)

(* Numbering a set of naturals in its order uses 1 .. its size.            *)
LEMMA Numbering ==
    ASSUME NEW S \in SUBSET Nat, IsFiniteSet(S)
    PROVE  {Cardinality({j \in S : j <= i}) : i \in S} = 1 .. Cardinality(S)
<1> DEFINE upTo(i) == {j \in S : j <= i}
           f == [i \in S |-> Cardinality(upTo(i))]
           n == Cardinality(S)
<1>1. n \in Nat
  BY FS_CardinalityType
<1>2. ASSUME NEW i \in S
      PROVE  IsFiniteSet(upTo(i)) /\ Cardinality(upTo(i)) \in 1 .. n
  <2>1. upTo(i) \in SUBSET S /\ i \in upTo(i)
    OBVIOUS
  <2> HIDE DEF upTo
  <2>2. IsFiniteSet(upTo(i)) /\ Cardinality(upTo(i)) <= n
    BY <2>1, FS_Subset
  <2>3. Cardinality(upTo(i)) \in Nat /\ Cardinality(upTo(i)) # 0
    BY <2>1, <2>2, FS_CardinalityType, FS_EmptySet
  <2> HIDE DEF n
  <2> QED
    BY <1>1, <2>2, <2>3
<1>3. ASSUME NEW i \in S, NEW j \in S, i < j
      PROVE  Cardinality(upTo(i)) # Cardinality(upTo(j))
  <2>0. i \in Nat /\ j \in Nat
    OBVIOUS
  <2>1. upTo(i) \in SUBSET upTo(j) /\ upTo(i) # upTo(j)
    <3>1. ASSUME NEW k \in S, k <= i PROVE k <= j
      BY <1>3, <2>0, <3>1
    <3>2. j \in upTo(j) /\ j \notin upTo(i)
      BY <1>3, <2>0
    <3>3. upTo(i) \in SUBSET upTo(j)
      BY <3>1
    <3> QED
      BY <3>2, <3>3
  <2>2. IsFiniteSet(upTo(j))
    BY <1>2
  <2> HIDE DEF upTo
  <2> QED
    BY <2>1, <2>2, FS_Subset
<1>4. f \in [S -> 1 .. n] /\ \A i \in S : f[i] = Cardinality(upTo(i))
  BY <1>2
<1>5. \A i, j \in S : f[i] = f[j] => i = j
  <2> HIDE DEF upTo
  <2> SUFFICES ASSUME NEW i \in S, NEW j \in S, f[i] = f[j] PROVE i = j
    OBVIOUS
  <2>1. ~(i < j) /\ ~(j < i)
    BY <1>3, <1>4
  <2> QED
    BY <2>1
<1> HIDE DEF f, upTo
<1>6. f \in Injection(S, 1 .. n)
  BY <1>4, <1>5 DEF Injection, IsInjective
<1>7. IsFiniteSet(1 .. n) /\ Cardinality(1 .. n) = n
  BY <1>1, FS_Interval
<1>8. f \in Surjection(S, 1 .. n)
  BY <1>6, <1>7, FS_Injection DEF n
<1>9. {f[i] : i \in S} = 1 .. n
  BY <1>4, <1>8 DEF Surjection
<1> QED
  BY <1>4, <1>9 DEF upTo, n

LEMMA EventsFinite ==
    ASSUME ChainsOK, NEW e
    PROVE  IsFiniteSet(EventsOf(e)) /\ EventsOf(e) \subseteq Nat
<1>1. DOMAIN log = 1 .. Len(log) /\ Len(log) \in Nat
  BY DEF ChainsOK, ChainsTypeOK
<1>2. IsFiniteSet(1 .. Len(log)) /\ EventsOf(e) \in SUBSET (1 .. Len(log))
  BY <1>1, FS_Interval DEF EventsOf
<1> QED
  BY <1>2, FS_Subset

(* The numbers of the events the file tells of an epoch.                   *)
Numbers(e) == {Number(e, i) : i \in Told(e, claims[e])}

FirstOnes(e) ==
    \E n \in Nat : /\ n = Cardinality(Told(e, claims[e]))
                   /\ Numbers(e) = 1 .. n

(* What the file knows of an epoch are its first events.                   *)
LEMMA KnownIsFirst ==
    Typed /\ InOrder /\ AllFollowed => \A e \in Epochs : FirstOnes(e)
<1> SUFFICES ASSUME Typed, InOrder, AllFollowed, NEW e \in Epochs
             PROVE  FirstOnes(e)
  OBVIOUS
<1> DEFINE T == Told(e, claims[e])
<1>1. IsFiniteSet(EventsOf(e)) /\ EventsOf(e) \subseteq Nat
  BY EventsFinite DEF Typed
<1>2. T \in SUBSET EventsOf(e)
  BY DEF Told
<1>3. IsFiniteSet(T) /\ T \in SUBSET Nat
  BY <1>1, <1>2, FS_Subset
<1>4. \A i \in T, j \in EventsOf(e) : j < i => j \in T
  <2>1. CASE Followed(e)
    BY <2>1 DEF InOrder, FileInOrder, StoredIsHistory, NoGaps
  <2>2. CASE ~Followed(e)
    <3>1. EventsOf(e) = {}
      BY <2>2 DEF AllFollowed, EventsOf, InOrder, ChainInOrder, LogOrdered
    <3> QED
      BY <3>1
  <2> QED
    BY <2>1, <2>2
<1> HIDE DEF T
<1>5. ASSUME NEW i \in T
      PROVE  Number(e, i) = Cardinality({j \in T : j <= i})
  <2>1. ASSUME NEW j \in EventsOf(e), j <= i
        PROVE  j \in T
    <3>1. j \in Nat /\ i \in Nat
      BY <1>1, <1>3
    <3>2. j < i \/ j = i
      BY <2>1, <3>1
    <3> QED
      BY <1>4, <3>2
  <2>2. {j \in EventsOf(e) : j <= i} = {j \in T : j <= i}
    BY <1>2, <2>1
  <2> QED
    BY <2>2 DEF Number
<1>6. {Number(e, i) : i \in T} = {Cardinality({j \in T : j <= i}) : i \in T}
  BY <1>5
<1>7. {Cardinality({j \in T : j <= i}) : i \in T} = 1 .. Cardinality(T)
  BY <1>3, Numbering
<1>8. Cardinality(T) \in Nat
  BY <1>3, FS_CardinalityType
<1> QED
  BY <1>6, <1>7, <1>8 DEF T, FirstOnes, Numbers

LEMMA KnownIsFirstNext ==
    Typed' /\ InOrder' /\ AllFollowed' => (\A e \in Epochs : FirstOnes(e))'
BY KnownIsFirst, PTL

(* One more event, of epoch e, at the end of the log. *)
Appended(e) ==
    \E n \in Nat :
        /\ n \notin DOMAIN log /\ DOMAIN log' = DOMAIN log \cup {n}
        /\ log'[n].epoch = e
        /\ \A i \in DOMAIN log : log'[i] = log[i] /\ i < n

SamePaid == \A x \in Epochs : Paid(x)' <=> Paid(x)

(* What a step of the chains may do: emit an event about an epoch that is  *)
(* not paid, or pay one that was claimed.                                  *)
PublishesOne(e) == Appended(e) /\ ~Paid(e) /\ SamePaid

SettlesOne(e) ==
    /\ log' = log /\ Emitted("Claimed", e) /\ ~Paid(e) /\ Paid(e)'
    /\ \A x \in Epochs : x # e => (Paid(x)' <=> Paid(x))

LEMMA EmitPublishes ==
    ASSUME ChainsOK, NEW kind, NEW e \in Epochs, NEW arg, Emit(kind, e, arg),
           NEW d \in ClaimData, claimHash' = [claimHash EXCEPT ![e] = d],
           kind = "Claimed" <=> ~Emitted("Claimed", e),
           kind = "Claimed" \/ claimHash[e] # NoClaim
    PROVE  PublishesOne(e)
<1> DEFINE ev == [kind |-> kind, epoch |-> e, ts |-> clock, arg |-> arg]
<1>1. /\ DOMAIN log' = 1..(Len(log) + 1) /\ DOMAIN log = 1..Len(log) /\ Len(log) \in Nat
      /\ \A i \in 1..Len(log) : log'[i] = log[i]
      /\ log'[Len(log) + 1] = ev
  BY DEF ChainsOK, ChainsTypeOK, Emit
<1>2. ev.kind = kind /\ ev.epoch = e
  OBVIOUS
<1> HIDE DEF ev
<1>3. Appended(e)
  <2>1. /\ Len(log) + 1 \in Nat /\ Len(log) + 1 \notin DOMAIN log
        /\ DOMAIN log' = DOMAIN log \cup {Len(log) + 1}
        /\ \A i \in DOMAIN log : i < Len(log) + 1
    BY <1>1
  <2> QED
    BY <1>1, <1>2, <2>1 DEF Appended
<1>4. d # NoClaim /\ claimHash \in [Epochs -> MaybeClaim]
  BY ChainsAssumption DEF ChainsOK, ChainsTypeOK, MaybeClaim
<1>5. claimHash'[e] # NoClaim /\ \A x \in Epochs : x # e => claimHash'[x] = claimHash[x]
  BY <1>4
<1>6. ~Paid(e) /\ ~Paid(e)'
  BY <1>5 DEF Paid
<1>7. ASSUME NEW x \in Epochs, x # e
      PROVE  Paid(x)' <=> Paid(x)
  <2>1. Emitted("Claimed", x)' <=> Emitted("Claimed", x)
    BY <1>1, <1>2, <1>7 DEF Emitted
  <2> QED
    BY <1>5, <1>7, <2>1 DEF Paid
<1> QED
  BY <1>3, <1>6, <1>7 DEF PublishesOne, SamePaid

LEMMA ChainPublishes ==
    ASSUME ChainsOK, ChainJudged, NEW mine, ChainStep(mine)
    PROVE  \/ UNCHANGED <<log, claimHash>>
           \/ \E e \in Epochs : PublishesOne(e) \/ SettlesOne(e)
<1>1. claimHash \in [Epochs -> MaybeClaim] /\ clock \in Nat
  BY DEF ChainsOK, ChainsTypeOK, MaybeClaim
<1>2. \A e \in Epochs : claimHash[e] # NoClaim => Emitted("Claimed", e)
  BY DEF ChainJudged, Witnessed, ClaimedAs, Emitted
<1>3. ASSUME NEW e \in Epochs, NEW root \in Roots, Claim(e, root)
      PROVE  PublishesOne(e)
  <2>1. NewClaim(root, clock) \in ClaimData
    BY <1>1 DEF NewClaim, ClaimData, Parties, Addresses
  <2> QED
    BY <1>3, <2>1, EmitPublishes DEF Claim
<1>4. ASSUME NEW e \in Epochs, NEW c \in MaybeClaim, NEW d \in ClaimData,
             claimHash[e] = c, c # NoClaim, claimHash' = [claimHash EXCEPT ![e] = d],
             NEW kind, NEW arg, kind # "Claimed", Emit(kind, e, arg)
      PROVE  PublishesOne(e)
  BY <1>2, <1>4, EmitPublishes
<1>5. ASSUME NEW e \in Epochs, NEW c \in MaybeClaim, NEW who \in {"me", "other"},
             Challenge(e, c, who)
      PROVE  PublishesOne(e)
  <2>1. c \in ClaimData /\ claimHash[e] = c /\ c # NoClaim
    BY <1>5 DEF Challenge, CanChallenge, Open, MaybeClaim
  <2>2. [c EXCEPT !.challenger = who] \in ClaimData
    BY <2>1 DEF ClaimData, Addresses
  <2> QED
    BY <1>4, <1>5, <2>1, <2>2 DEF Challenge
<1>6. ASSUME NEW e \in Epochs, NEW c \in MaybeClaim, StartVerification(e, c)
      PROVE  PublishesOne(e)
  <2>1. c \in ClaimData /\ claimHash[e] = c /\ c # NoClaim
    BY <1>6 DEF StartVerification, CanStart, Open, MaybeClaim
  <2>2. [c EXCEPT !.verification = clock] \in ClaimData
    BY <1>1, <2>1 DEF ClaimData
  <2> QED
    BY <1>4, <1>6, <2>1, <2>2 DEF StartVerification
<1>7. ASSUME NEW e \in Epochs, NEW c \in MaybeClaim, VerifySnapshot(e, c)
      PROVE  PublishesOne(e)
  <2>1. c \in ClaimData /\ claimHash[e] = c /\ c # NoClaim
    BY <1>7 DEF VerifySnapshot, CanVerify, Open, MaybeClaim
  <2>2. [c EXCEPT !.honest = "Claimer"] \in ClaimData
    BY <2>1 DEF ClaimData, Parties
  <2> QED
    BY <1>4, <1>7, <2>1, <2>2 DEF VerifySnapshot
<1>8. ASSUME NEW i \in DOMAIN sent, Relay(i)
      PROVE  \E e \in Epochs : PublishesOne(e)
  <2>1. sent \in Seq(Message)
    BY DEF ChainsOK, ChainsTypeOK
  <2>2. sent[i] \in Message
    BY <2>1, ElementOfSeq, LenProperties
  <2>3. PICK e \in Epochs, c \in ClaimData : e = sent[i].epoch /\ c = sent[i].claim
    BY <2>2 DEF Message
  <2>4. PICK winner \in {"Claimer", "Challenger"} :
           claimHash' = [claimHash EXCEPT ![e] = [c EXCEPT !.honest = winner]]
    BY <1>8, <2>3 DEF Relay
  <2>5. [c EXCEPT !.honest = winner] \in ClaimData /\ c \in MaybeClaim
    BY DEF ClaimData, Parties, MaybeClaim
  <2>6. claimHash[e] = c /\ c # NoClaim /\ Emit("Verified", e, "-")
    BY <1>8, <2>3 DEF Relay, CanRelay, Open
  <2> QED
    BY <1>4, <2>4, <2>5, <2>6
<1>9. ASSUME NEW e \in Epochs, NEW c \in MaybeClaim, WithdrawDeposit(e, c)
      PROVE  SettlesOne(e)
  <2>1. claimHash[e] # NoClaim /\ log' = log /\ claimHash' = [claimHash EXCEPT ![e] = NoClaim]
    BY <1>9 DEF WithdrawDeposit, CanWithdraw
  <2>2. claimHash'[e] = NoClaim /\ \A x \in Epochs : x # e => claimHash'[x] = claimHash[x]
    BY <1>1, <2>1
  <2>3. \A x : Emitted("Claimed", x)' <=> Emitted("Claimed", x)
    BY <2>1 DEF Emitted
  <2> QED
    BY <1>2, <2>1, <2>2, <2>3 DEF SettlesOne, Paid
<1>10. ASSUME NEW e, NEW c, NEW own, SendSnapshot(e, c, own)
       PROVE  UNCHANGED <<log, claimHash>>
  BY <1>10 DEF SendSnapshot
<1>11. Tick \/ UNCHANGED chainVars => UNCHANGED <<log, claimHash>>
  BY DEF Tick, chainVars
<1> QED
  BY <1>3, <1>5, <1>6, <1>7, <1>8, <1>9, <1>10, <1>11 DEF ChainStep

LEMMA IndexerKeepsChains ==
    ASSUME IndexerStep \/ IndexerFault
    PROVE  UNCHANGED chainVars
BY DEF IndexerStep, IndexerFault, ScanNothing, ScanChunk, FinishChunk, Handle, ScanFailed,
       TargetSearchFailed, HandlerFails, HandleSnapshotSent, HandleClaimed, HandleUnknown,
       Begin, BeginChallenged, FinishVerificationStarted, FinishChallenged, FinishVerified,
       indexerFrame

(* Whoever acts, the chains make a step of their own or none. *)
LEMMA ChainsStep == Typed /\ [Next]_vars => ChainStep(Epochs)
<1> SUFFICES ASSUME Typed, [Next]_vars PROVE ChainStep(Epochs)
  OBVIOUS
<1>1. CASE Environment
  <2>1. \A e \in Epochs : claimHash[e] \in MaybeClaim
    BY DEF Typed, ChainsOK, ChainsTypeOK, MaybeClaim
  <2> QED
    BY <1>1, <2>1, ChainsAssumption DEF Environment, Others, ChainStep, Addresses, Open,
                                        MaybeClaim
<1>2. CASE Land
  <2>1. PICK e \in Epochs : e = disp.task.epoch
    BY <1>2 DEF Land, Typed, PassOK, HoldsTask, Busy, Task
  <2>2. Transaction(disp.task.kind, e, disp.claim, disp.task.position)
    BY <1>2, <2>1 DEF Land
  <2>3. /\ disp.claim \in MaybeClaim
        /\ disp.task.kind = "SendSnapshot" => disp.claim # NoClaim
    BY <1>2 DEF Land, Typed, ProcessTypeOK, PassOK, HoldsTask, Busy, Dispatching, MaybeClaim
  <2> QED
    BY <2>2, <2>3 DEF Transaction, ChainStep, Addresses, Relay, CanRelay, MaybeClaim
<1>3. CASE (DispatcherStep \/ DispatcherFault) /\ ~Land
  BY <1>3, TaskMoves DEF ChainStep
<1>4. CASE FirstStart \/ Restart \/ Kill
  BY <1>4 DEF FirstStart, Restart, Start, Kill, ChainStep
<1>5. CASE IndexerStep \/ IndexerFault
  BY <1>5, IndexerKeepsChains DEF ChainStep
<1>6. CASE UNCHANGED vars
  BY <1>6 DEF vars, chainVars, ChainStep
<1> QED
  BY <1>1, <1>2, <1>3, <1>4, <1>5, <1>6 DEF Next

LEMMA OneEventMore ==
    ASSUME ChainsOK, NEW e \in Epochs, Appended(e), NEW x \in Epochs
    PROVE  /\ Cardinality(EventsOf(x))' =
                IF x = e THEN Cardinality(EventsOf(x)) + 1 ELSE Cardinality(EventsOf(x))
           /\ \A i \in EventsOf(x) : Number(x, i)' = Number(x, i)
<1>1. PICK n \in Nat : /\ n \notin DOMAIN log /\ DOMAIN log' = DOMAIN log \cup {n}
                       /\ log'[n].epoch = e
                       /\ \A i \in DOMAIN log : log'[i] = log[i] /\ i < n
  BY DEF Appended
<1>2. IsFiniteSet(EventsOf(x)) /\ n \notin EventsOf(x) /\ EventsOf(x) \subseteq Nat
  BY <1>1, EventsFinite DEF EventsOf
<1>3. EventsOf(x)' = IF x = e THEN EventsOf(x) \cup {n} ELSE EventsOf(x)
  BY <1>1 DEF EventsOf
<1>4. Cardinality(EventsOf(x))' = Cardinality(EventsOf(x)')
  OBVIOUS
<1>5. ASSUME NEW i \in EventsOf(x)
      PROVE  Number(x, i)' = Number(x, i)
  <2>1. i \in Nat /\ i < n
    BY <1>1, <1>2 DEF EventsOf
  <2>2. ~(n <= i)
    BY <2>1
  <2>3. {j \in EventsOf(x)' : j <= i} = {j \in EventsOf(x) : j <= i}
    BY <1>3, <2>2
  <2> QED
    BY <2>3 DEF Number
<1> QED
  BY <1>2, <1>3, <1>4, <1>5, FS_AddElement

(* The refinement mapping, one step of the replica at a time. *)
ReplicaCounts == [e \in Epochs |-> Cardinality(EventsOf(e))]
ReplicaKnown == [e \in Epochs |-> Numbers(e)]
ReplicaSettled == [e \in Epochs |-> Paid(e)]

LEMMA Mapping ==
    /\ [Replica!Next]_Replica!vars <=>
          \/ UNCHANGED <<ReplicaCounts, ReplicaKnown, ReplicaSettled>>
          \/ \E e \in Epochs :
                Replica!Publish(e) \/ Replica!Settle(e) \/ Replica!Learn(e) \/ Replica!Forget(e)
BY DEF Replica!Next, Replica!vars, ReplicaCounts, ReplicaKnown, ReplicaSettled, Numbers, Paid

LEMMA MapPublish ==
    ASSUME NEW e \in Epochs, ~Paid(e), SamePaid,
           \A x \in Epochs : /\ Numbers(x)' = Numbers(x)
                             /\ Cardinality(EventsOf(x))' =
                                  IF x = e THEN Cardinality(EventsOf(x)) + 1
                                  ELSE Cardinality(EventsOf(x))
    PROVE  Replica!Publish(e)
<1>1. ~ReplicaSettled[e]
  BY DEF ReplicaSettled
<1>2. ReplicaCounts' = [ReplicaCounts EXCEPT ![e] = @ + 1]
  BY DEF ReplicaCounts
<1>3. ReplicaKnown' = ReplicaKnown
  BY DEF ReplicaKnown
<1>4. ReplicaSettled' = ReplicaSettled
  <2>1. ASSUME NEW x \in Epochs PROVE Paid(x)' = Paid(x)
    BY DEF SamePaid, Paid
  <2> QED
    BY <2>1, Zenon DEF ReplicaSettled
<1> QED
  BY <1>1, <1>2, <1>3, <1>4
  DEF Replica!Publish, ReplicaCounts, ReplicaKnown, ReplicaSettled, Numbers, Paid

LEMMA MapSettle ==
    ASSUME NEW e \in Epochs, SettlesOne(e), Cardinality(EventsOf(e)) > 0,
           \A x \in Epochs : /\ Numbers(x)' = Numbers(x)
                             /\ Cardinality(EventsOf(x))' = Cardinality(EventsOf(x))
    PROVE  Replica!Settle(e)
<1>1. ~ReplicaSettled[e] /\ ReplicaCounts[e] > 0
  BY DEF ReplicaSettled, ReplicaCounts, SettlesOne
<1>2. ReplicaCounts' = ReplicaCounts
  BY DEF ReplicaCounts
<1>3. ReplicaKnown' = ReplicaKnown
  BY DEF ReplicaKnown
<1>4. ReplicaSettled' = [ReplicaSettled EXCEPT ![e] = TRUE]
  <2>1. ASSUME NEW x \in Epochs
        PROVE  Paid(x)' = IF x = e THEN TRUE ELSE Paid(x)
    BY DEF SettlesOne, Paid
  <2>2. [ReplicaSettled EXCEPT ![e] = TRUE] =
           [x \in Epochs |-> IF x = e THEN TRUE ELSE Paid(x)]
    BY DEF ReplicaSettled
  <2> QED
    BY <2>1, <2>2, Zenon DEF ReplicaSettled
<1> QED
  BY <1>1, <1>2, <1>3, <1>4
  DEF Replica!Settle, ReplicaCounts, ReplicaKnown, ReplicaSettled, Numbers, Paid

(* While the chains rest, only what is known can change. *)
LEMMA MapLearn ==
    ASSUME NEW e \in Epochs, UNCHANGED <<ReplicaCounts, ReplicaSettled>>,
           NEW n \in Nat, Numbers(e) = 1 .. n, Numbers(e)' = 1 .. (n + 1),
           n < Cardinality(EventsOf(e)),
           \A x \in Epochs : x # e => Numbers(x)' = Numbers(x)
    PROVE  Replica!Learn(e)
<1>1. ReplicaKnown[e] = 1 .. n /\ Cardinality(1 .. n) = n
  BY FS_Interval DEF ReplicaKnown
<1>2. ReplicaKnown' = [ReplicaKnown EXCEPT ![e] = 1 .. (Cardinality(@) + 1)]
  <2>1. ReplicaKnown' = [ReplicaKnown EXCEPT ![e] = 1 .. (n + 1)]
    BY DEF ReplicaKnown
  <2> QED
    BY <1>1, <2>1
<1>3. Cardinality(ReplicaKnown[e]) < ReplicaCounts[e]
  BY <1>1 DEF ReplicaCounts
<1>4. \A S : Replica!Cardinality(S) = Cardinality(S)
  BY DEF Cardinality, Replica!Cardinality
<1> QED
  BY <1>2, <1>3, <1>4
  DEF Replica!Learn, ReplicaCounts, ReplicaKnown, ReplicaSettled, Numbers, Paid

LEMMA MapForget ==
    ASSUME NEW e \in Epochs, UNCHANGED <<ReplicaCounts, ReplicaSettled>>,
           Paid(e), Numbers(e) # {}, Numbers(e)' = {},
           \A x \in Epochs : x # e => Numbers(x)' = Numbers(x)
    PROVE  Replica!Forget(e)
<1>1. ReplicaSettled[e] /\ ReplicaKnown[e] # {}
  BY DEF ReplicaSettled, ReplicaKnown
<1>2. ReplicaKnown' = [ReplicaKnown EXCEPT ![e] = {}]
  BY DEF ReplicaKnown
<1> QED
  BY <1>1, <1>2
  DEF Replica!Forget, ReplicaCounts, ReplicaKnown, ReplicaSettled, Numbers, Paid

LEMMA SameNumbers ==
    ASSUME NEW x, Told(x, claims[x])' = Told(x, claims[x]),
           \A i \in EventsOf(x) : Number(x, i)' = Number(x, i)
    PROVE  Numbers(x)' = Numbers(x)
<1>1. Told(x, claims[x]) \subseteq EventsOf(x)
  BY DEF Told
<1>2. Numbers(x)' = {Number(x, i)' : i \in Told(x, claims[x])'}
  BY DEF Numbers
<1> QED
  BY <1>1, <1>2 DEF Numbers

LEMMA SameLog ==
    ASSUME log' = log
    PROVE  \A x : /\ EventsOf(x)' = EventsOf(x)
                  /\ Cardinality(EventsOf(x))' = Cardinality(EventsOf(x))
                  /\ \A i : Number(x, i)' = Number(x, i)
BY DEF EventsOf, Number

(* The chains move on and the file does not. *)
LEMMA ChainIsReplica ==
    ASSUME AllHold, ChainStep(Epochs), claims' = claims
    PROVE  [Replica!Next]_Replica!vars
<1>1. ChainInOrder' /\ LogExtends /\ ChainsOK /\ ChainJudged
  BY ChainStepInOrder DEF AllHold, Typed, Judged, InOrder
<1>2. \A x \in Epochs : Told(x, claims[x])' = Told(x, claims[x])
  BY <1>1, NothingNewTold DEF AllHold
<1>3. CASE UNCHANGED <<log, claimHash>>
  <2>1. \A x \in Epochs : /\ Numbers(x)' = Numbers(x)
                          /\ Cardinality(EventsOf(x))' = Cardinality(EventsOf(x))
    BY <1>2, <1>3, SameLog, SameNumbers
  <2>2. ReplicaSettled' = ReplicaSettled
    BY <1>3 DEF ReplicaSettled, Paid, Emitted
  <2>3. ReplicaCounts' = ReplicaCounts /\ ReplicaKnown' = ReplicaKnown
    BY <2>1 DEF ReplicaCounts, ReplicaKnown
  <2> QED
    BY <2>2, <2>3, Mapping
<1>4. ASSUME NEW e \in Epochs, PublishesOne(e)
      PROVE  Replica!Publish(e)
  <2>1. ASSUME NEW x \in Epochs
        PROVE  /\ Numbers(x)' = Numbers(x)
               /\ Cardinality(EventsOf(x))' =
                    IF x = e THEN Cardinality(EventsOf(x)) + 1 ELSE Cardinality(EventsOf(x))
    BY <1>1, <1>2, <1>4, OneEventMore, SameNumbers DEF PublishesOne
  <2> QED
    BY <1>4, <2>1, MapPublish DEF PublishesOne
<1>5. ASSUME NEW e \in Epochs, SettlesOne(e)
      PROVE  Replica!Settle(e)
  <2>1. log' = log
    BY <1>5 DEF SettlesOne
  <2>2. \A x \in Epochs : /\ Numbers(x)' = Numbers(x)
                          /\ Cardinality(EventsOf(x))' = Cardinality(EventsOf(x))
    BY <1>2, <2>1, SameLog, SameNumbers
  <2>3. EventsOf(e) # {} /\ IsFiniteSet(EventsOf(e))
    BY <1>1, <1>5, EventsFinite DEF SettlesOne, Emitted, EventsOf
  <2>4. Cardinality(EventsOf(e)) > 0
    <3>1. Cardinality(EventsOf(e)) \in Nat /\ Cardinality(EventsOf(e)) # 0
      BY <2>3, FS_CardinalityType, FS_EmptySet
    <3> QED
      BY <3>1
  <2> QED
    BY <1>5, <2>2, <2>4, MapSettle
<1>6. \/ UNCHANGED <<log, claimHash>>
      \/ \E e \in Epochs : PublishesOne(e) \/ SettlesOne(e)
  BY <1>1, ChainPublishes
<1> QED
  BY <1>3, <1>4, <1>5, <1>6, Mapping

(* The file moves, and the chains do not. *)
LEMMA FileMoveIsReplica ==
    ASSUME AllHold, AllHold', AllFollowed, AllFollowed', UNCHANGED chainVars,
           NEW e \in Epochs, NEW c, claims' = [claims EXCEPT ![e] = c],
           \/ c = NoClaim /\ Paid(e)
           \/ \E i \in DOMAIN log : log[i].epoch = e /\ LearnsFrom(i, e, c)
    PROVE  [Replica!Next]_Replica!vars
<1>1. log' = log /\ claimHash' = claimHash
  BY DEF chainVars
<1>2. /\ claims \in [Epochs -> MaybeClaim]
      /\ claims'[e] = c /\ \A x \in Epochs : x # e => claims'[x] = claims[x]
  BY ScanTypes DEF AllHold
<1>3. UNCHANGED <<ReplicaCounts, ReplicaSettled>>
  <2>1. ReplicaSettled' = ReplicaSettled
    BY <1>1 DEF ReplicaSettled, Paid, Emitted
  <2>2. ReplicaCounts' = ReplicaCounts
    BY <1>1, SameLog DEF ReplicaCounts
  <2> QED
    BY <2>1, <2>2
<1>4. ASSUME NEW x \in Epochs, x # e
      PROVE  Numbers(x)' = Numbers(x)
  <2>1. Told(x, claims[x])' = Told(x, claims[x])
    BY <1>1, <1>2, <1>4 DEF Told, Tells, EventsOf
  <2> QED
    BY <1>1, <2>1, SameLog, SameNumbers
<1>5. Told(e, claims[e])' = Told(e, c)
  BY <1>1, <1>2 DEF Told, Tells, EventsOf
<1>6. ASSUME Told(e, c) = Told(e, claims[e])
      PROVE  [Replica!Next]_Replica!vars
  <2>1. Numbers(e)' = Numbers(e)
    BY <1>1, <1>5, <1>6, SameLog, SameNumbers
  <2>2. ReplicaKnown' = ReplicaKnown
    BY <1>4, <2>1 DEF ReplicaKnown
  <2> QED
    BY <1>3, <2>2, Mapping
<1>7. PICK n \in Nat : n = Cardinality(Told(e, claims[e])) /\ Numbers(e) = 1 .. n
  BY KnownIsFirst DEF AllHold, FirstOnes
<1>8. CASE c = NoClaim /\ Paid(e) /\ Told(e, c) # Told(e, claims[e])
  <2>1. Told(e, c) = {}
    BY <1>8 DEF Told, Tells
  <2>2. Numbers(e)' = {} /\ Numbers(e) # {}
    BY <1>5, <1>8, <2>1 DEF Numbers
  <2>3. Replica!Forget(e)
    BY <1>3, <1>4, <1>8, <2>2, MapForget
  <2> QED
    BY <2>3, Mapping
<1>9. ASSUME NEW i \in DOMAIN log, log[i].epoch = e, LearnsFrom(i, e, c),
             Told(e, c) # Told(e, claims[e])
      PROVE  [Replica!Next]_Replica!vars
  <2>1. i \in EventsOf(e)
    BY <1>9 DEF EventsOf
  <2>2. Told(e, c) = Told(e, claims[e]) \cup {i}
    BY <1>9, <2>1 DEF LearnsFrom, Told, EventsOf
  <2>3. i \notin Told(e, claims[e])
    BY <1>9, <2>2
  <2>4. /\ IsFiniteSet(EventsOf(e)) /\ IsFiniteSet(Told(e, claims[e]))
        /\ Told(e, claims[e]) \in SUBSET EventsOf(e)
    <3>1. Told(e, claims[e]) \in SUBSET EventsOf(e)
      BY DEF Told
    <3>2. IsFiniteSet(EventsOf(e))
      BY EventsFinite DEF AllHold, Typed
    <3> QED
      BY <3>1, <3>2, FS_Subset
  <2>5. Cardinality(Told(e, c)) = n + 1
    BY <1>7, <2>2, <2>3, <2>4, FS_AddElement
  <2>6. n < Cardinality(EventsOf(e))
    <3>1. Told(e, claims[e]) # EventsOf(e)
      BY <2>1, <2>3
    <3>2. n <= Cardinality(EventsOf(e)) /\ n # Cardinality(EventsOf(e))
      BY <1>7, <2>4, <3>1, FS_Subset
    <3>3. Cardinality(EventsOf(e)) \in Nat
      BY <2>4, FS_CardinalityType
    <3> QED
      BY <3>2, <3>3
  <2>7. Numbers(e)' = 1 .. (n + 1)
    <3>1. FirstOnes(e)'
      BY KnownIsFirstNext DEF AllHold
    <3>2. PICK m \in Nat : m = Cardinality(Told(e, claims[e])') /\ Numbers(e)' = 1 .. m
      BY <3>1 DEF FirstOnes
    <3> QED
      BY <1>5, <2>5, <3>2
  <2>8. Replica!Learn(e)
    BY <1>3, <1>4, <1>7, <2>6, <2>7, MapLearn
  <2> QED
    BY <2>8, Mapping
<1> QED
  BY <1>6, <1>8, <1>9

LEMMA InitReplica == Init => Replica!Init
<1> SUFFICES ASSUME Init PROVE Replica!Init
  OBVIOUS
<1>1. DOMAIN log = {}
  BY DEF Init, ChainsInit
<1>2. \A e \in Epochs : EventsOf(e) = {} /\ Told(e, claims[e]) = {}
  BY <1>1 DEF EventsOf, Told
<1>3. \A e \in Epochs : Cardinality(EventsOf(e)) = 0
  BY <1>2, FS_EmptySet
<1>4. ReplicaCounts = [e \in Epochs |-> 0]
  BY <1>3 DEF ReplicaCounts
<1>5. ReplicaKnown = [e \in Epochs |-> {}]
  BY <1>2 DEF ReplicaKnown, Numbers
<1>6. ReplicaSettled = [e \in Epochs |-> FALSE]
  BY <1>1 DEF ReplicaSettled, Paid, Emitted
<1> QED
  BY <1>4, <1>5, <1>6
  DEF Replica!Init, ReplicaCounts, ReplicaKnown, ReplicaSettled, Numbers, Paid

LEMMA NextReplica ==
    AllHold /\ AllHold' /\ AllFollowed /\ AllFollowed' /\ [Next]_vars =>
        [Replica!Next]_Replica!vars
<1> SUFFICES ASSUME AllHold, AllHold', AllFollowed, AllFollowed', [Next]_vars
             PROVE  [Replica!Next]_Replica!vars
  OBVIOUS
<1>1. FileMoves
  BY NextInOrder DEF AllHold
<1>2. CASE claims' = claims
  BY <1>2, ChainsStep, ChainIsReplica DEF AllHold
<1>3. ASSUME UNCHANGED chainVars, NEW e \in Epochs, claims' = RemoveClaim(claims, e), Paid(e)
      PROVE  [Replica!Next]_Replica!vars
  BY <1>3, FileMoveIsReplica DEF RemoveClaim
<1>4. ASSUME UNCHANGED chainVars, NEW e \in Epochs, NEW i \in DOMAIN log, NEW c \in ClaimData,
             log[i].epoch = e, LearnsFrom(i, e, c), claims' = [claims EXCEPT ![e] = c]
      PROVE  [Replica!Next]_Replica!vars
  BY <1>4, FileMoveIsReplica
<1> QED
  BY <1>1, <1>2, <1>3, <1>4 DEF FileMoves

(* If indexing began before every claim, the claims file is a lagging      *)
(* replica of the outbox (claims.rs, indexer.rs): in whatever order blocks *)
(* are read again, files torn and the route killed, it learns the events   *)
(* of an epoch one by one in their order, skips none, never goes back, and *)
(* forgets an epoch only when its deposit has been withdrawn.              *)
THEOREM FileImplementsReplica == Spec /\ []AllFollowed => FileIsReplica
<1>1. Init => Replica!Init
  BY InitReplica
<1>2. AllHold /\ AllHold' /\ AllFollowed /\ AllFollowed' /\ [Next]_vars =>
          [Replica!Next]_Replica!vars
  BY NextReplica
<1>3. Spec => []AllHold
  BY Invariance
<1> QED
  BY <1>1, <1>2, <1>3, PTL DEF Spec, FileIsReplica, Replica!Spec

LEMMA ClockBounded == Typed /\ clock <= MaxClock /\ [Next]_vars => (clock <= MaxClock)'
<1> SUFFICES ASSUME Typed, clock <= MaxClock, [Next]_vars PROVE clock' <= MaxClock
  OBVIOUS
<1>1. clock' = clock \/ (clock < MaxClock /\ clock' = clock + 1)
  BY ChainsStep
  DEF ChainStep, Tick, Claim, Challenge, StartVerification, VerifySnapshot, SendSnapshot,
      WithdrawDeposit, Relay, chainVars
<1>2. clock \in Nat /\ MaxClock \in Nat
  BY ChainsAssumption DEF Typed, ChainsOK, ChainsTypeOK
<1> QED
  BY <1>1, <1>2

(* A route that never outlives the lookback of its indexer (indexer.rs)    *)
(* follows every claim: its file is a replica without further condition.   *)
THEOREM ShortLivedIsReplica ==
    ASSUME MaxClock \in 1 .. Lookback
    PROVE  Spec => FileIsReplica
<1>1. AllHold /\ clock <= MaxClock => AllFollowed
  <2> SUFFICES ASSUME AllHold, clock <= MaxClock, NEW e \in Epochs, Emitted("Claimed", e)
               PROVE  Followed(e)
    BY DEF AllFollowed
  <2>1. /\ clock \in Nat /\ Lookback \in Nat /\ indexingSince \in Nat
        /\ indexingSince <= SyncStart
    BY ScanTypes, ProcessAssumption DEF AllHold, InOrder, ScanInOrder
  <2>2. indexingSince = 0
    BY <2>1 DEF SyncStart, Truncated
  <2>3. PICK i \in DOMAIN log : log[i].kind = "Claimed" /\ log[i].epoch = e
    BY DEF Emitted
  <2>4. log[i].ts >= 0
    BY <2>3, EventType DEF AllHold, Typed
  <2> QED
    BY <2>2, <2>3, <2>4 DEF Followed, EventsOf
<1>2. Init => clock <= MaxClock
  BY ProcessAssumption, ChainsAssumption DEF Init, ChainsInit
<1>3. Typed /\ clock <= MaxClock /\ [Next]_vars => (clock <= MaxClock)'
  BY ClockBounded
<1>4. AllHold => Typed
  BY DEF AllHold
<1>5. Spec => []AllHold
  BY Invariance
<1>6. Spec => [](clock <= MaxClock)
  BY <1>2, <1>3, <1>4, <1>5, PTL DEF Spec
<1>7. Spec /\ []AllFollowed => FileIsReplica
  BY FileImplementsReplica
<1> QED
  BY <1>1, <1>5, <1>6, <1>7, PTL
-----------------------------------------------------------------------------
(* Messages of this validator about a claim in dispute. *)

(* The record of a claim, its outcome apart, has what event ev says of it. *)
SaysOf(c, ev) ==
    /\ ev.kind = "Claimed" => c.root = ev.arg /\ c.claimed = ev.ts
    /\ ev.kind = "VerificationStarted" => c.verification = ev.ts
    /\ ev.kind = "Challenged" => c.challenger = ev.arg

(* A hash is of what the events say. *)
HashIs(e, c) ==
    c # NoClaim =>
        /\ \A i \in EventsOf(e) : SaysOf(c, log[i])
        /\ c.verification # 0 => Emitted("VerificationStarted", e)

IsOpen(e) == claimHash[e] # NoClaim /\ claimHash[e].honest = "None"

(* A message that was relayed has settled its claim. *)
SpentSettled ==
    \A i \in spent : /\ i \in DOMAIN sent
                     /\ \E e \in Epochs : /\ sent[i].epoch = e
                                          /\ Emitted("Claimed", e) /\ ~IsOpen(e)

(* A call that emits an event, and what it makes of the hash. *)
Calls(kind, e, arg, d) ==
    /\ Emit(kind, e, arg) /\ claimHash' = [claimHash EXCEPT ![e] = d]
    /\ kind = "Claimed" =>
          /\ ~Emitted("Claimed", e)
          /\ d.root = arg /\ d.claimed = clock /\ d.verification = 0
    /\ kind # "Claimed" =>
          /\ IsOpen(e)
          /\ d.root = claimHash[e].root /\ d.claimed = claimHash[e].claimed
          /\ kind = "VerificationStarted" =>
                claimHash[e].verification = 0 /\ d.verification = clock
          /\ kind # "VerificationStarted" => d.verification = claimHash[e].verification
          /\ kind = "Challenged" => d.challenger = arg
          /\ kind # "Challenged" => d.challenger = claimHash[e].challenger
    /\ kind = "Verified" => d.honest # "None"
    /\ kind \in {"Challenged", "VerificationStarted"} => claimHash[e].challenger = "zero"

Called == \E kind \in EventKinds, e \in Epochs, d \in ClaimData,
              arg \in Roots \cup Addresses \cup {"-"} : Calls(kind, e, arg, d)

LEMMA ChainCalls ==
    ASSUME ChainsOK, NEW mine, ChainStep(mine)
    PROVE  \/ /\ log' = log
              /\ \A e \in Epochs : claimHash'[e] = NoClaim \/ claimHash'[e] = claimHash[e]
           \/ Called
<1>1. claimHash \in [Epochs -> MaybeClaim] /\ clock \in Nat
  BY DEF ChainsOK, ChainsTypeOK, MaybeClaim
<1> DEFINE Args == Roots \cup Addresses \cup {"-"}
<1>0. ASSUME NEW kind \in EventKinds, NEW e \in Epochs, NEW d \in ClaimData,
             NEW arg \in Args, Calls(kind, e, arg, d)
      PROVE  Called
  BY <1>0, Zenon DEF Called
<1>00. /\ {"Claimed", "Challenged", "VerificationStarted", "Verified"} \subseteq EventKinds
       /\ Roots \subseteq Args /\ {"me", "other", "-"} \subseteq Args
  BY DEF EventKinds, Addresses
<1> HIDE DEF Args
<1>2. ASSUME NEW e \in Epochs, NEW root \in Roots, Claim(e, root)
      PROVE  Called
  <2> DEFINE d == NewClaim(root, clock)
  <2>1. /\ d \in ClaimData /\ d.root = root /\ d.claimed = clock /\ d.verification = 0
    BY <1>1 DEF NewClaim, ClaimData, Parties, Addresses
  <2>2. claimHash' = [claimHash EXCEPT ![e] = d]
    BY <1>2 DEF Claim
  <2> HIDE DEF d
  <2>3. Calls("Claimed", e, root, d)
    BY <1>2, <2>1, <2>2 DEF Claim, Calls
  <2> QED
    BY <1>0, <1>00, <2>1, <2>3
<1>3. ASSUME NEW e \in Epochs, NEW c \in MaybeClaim, NEW who \in {"me", "other"},
             Challenge(e, c, who)
      PROVE  Called
  <2> DEFINE d == [c EXCEPT !.challenger = who]
  <2>1. c \in ClaimData /\ claimHash[e] = c /\ IsOpen(e) /\ c.challenger = "zero"
    BY <1>3 DEF Challenge, CanChallenge, Open, IsOpen, MaybeClaim
  <2>2. /\ d \in ClaimData /\ d.root = c.root /\ d.claimed = c.claimed
        /\ d.verification = c.verification /\ d.challenger = who
    BY <2>1 DEF ClaimData, Addresses
  <2>3. claimHash' = [claimHash EXCEPT ![e] = d]
    BY <1>3 DEF Challenge
  <2> HIDE DEF d
  <2>4. Calls("Challenged", e, who, d)
    BY <1>3, <2>1, <2>2, <2>3 DEF Challenge, Calls
  <2> QED
    BY <1>0, <1>00, <2>2, <2>4
<1>4. ASSUME NEW e \in Epochs, NEW c \in MaybeClaim, StartVerification(e, c)
      PROVE  Called
  <2> DEFINE d == [c EXCEPT !.verification = clock]
  <2>1. /\ c \in ClaimData /\ claimHash[e] = c /\ IsOpen(e)
        /\ c.challenger = "zero" /\ c.verification = 0
    BY <1>4 DEF StartVerification, CanStart, Open, IsOpen, MaybeClaim
  <2>2. /\ d \in ClaimData /\ d.root = c.root /\ d.claimed = c.claimed
        /\ d.verification = clock /\ d.challenger = c.challenger
    BY <1>1, <2>1 DEF ClaimData
  <2>3. claimHash' = [claimHash EXCEPT ![e] = d]
    BY <1>4 DEF StartVerification
  <2> HIDE DEF d
  <2>4. Calls("VerificationStarted", e, "-", d)
    BY <1>4, <2>1, <2>2, <2>3 DEF StartVerification, Calls
  <2> QED
    BY <1>0, <1>00, <2>2, <2>4
<1>5. ASSUME NEW e \in Epochs, NEW c \in MaybeClaim, NEW winner \in {"Claimer", "Challenger"},
             Open(e, c), Emit("Verified", e, "-"),
             claimHash' = [claimHash EXCEPT ![e] = [c EXCEPT !.honest = winner]]
      PROVE  Called
  <2> DEFINE d == [c EXCEPT !.honest = winner]
  <2>1. c \in ClaimData /\ claimHash[e] = c /\ IsOpen(e)
    BY <1>5 DEF Open, IsOpen, MaybeClaim
  <2>2. /\ d \in ClaimData /\ d.root = c.root /\ d.claimed = c.claimed
        /\ d.verification = c.verification /\ d.challenger = c.challenger
        /\ d.honest # "None"
    BY <2>1 DEF ClaimData, Parties
  <2>3. claimHash' = [claimHash EXCEPT ![e] = d]
    BY <1>5
  <2> HIDE DEF d
  <2>4. Calls("Verified", e, "-", d)
    BY <1>5, <2>1, <2>2, <2>3 DEF Calls
  <2> QED
    BY <1>0, <1>00, <2>2, <2>4
<1>6. ASSUME NEW e \in Epochs, NEW c \in MaybeClaim, VerifySnapshot(e, c)
      PROVE  Called
  BY <1>5, <1>6 DEF VerifySnapshot, CanVerify
<1>7. ASSUME NEW i \in DOMAIN sent, Relay(i)
      PROVE  Called
  <2>1. sent \in Seq(Message)
    BY DEF ChainsOK, ChainsTypeOK
  <2>2. sent[i] \in Message
    BY <2>1, ElementOfSeq, LenProperties
  <2>3. PICK e \in Epochs, c \in MaybeClaim : e = sent[i].epoch /\ c = sent[i].claim
    BY <2>2 DEF Message, MaybeClaim
  <2>4. PICK winner \in {"Claimer", "Challenger"} :
           claimHash' = [claimHash EXCEPT ![e] = [c EXCEPT !.honest = winner]]
    BY <1>7, <2>3 DEF Relay
  <2>5. Open(e, c) /\ Emit("Verified", e, "-")
    BY <1>7, <2>3 DEF Relay, CanRelay
  <2> QED
    BY <1>5, <2>4, <2>5
<1>8. ASSUME NEW e \in Epochs, NEW c \in MaybeClaim, WithdrawDeposit(e, c)
      PROVE  /\ log' = log
             /\ \A x \in Epochs : claimHash'[x] = NoClaim \/ claimHash'[x] = claimHash[x]
  BY <1>1, <1>8 DEF WithdrawDeposit
<1>9. ASSUME \/ Tick \/ UNCHANGED chainVars
             \/ \E e \in Epochs, c \in ClaimData, own \in BOOLEAN : SendSnapshot(e, c, own)
      PROVE  log' = log /\ claimHash' = claimHash
  BY <1>9 DEF Tick, SendSnapshot, chainVars
<1>10. \/ Called
       \/ /\ log' = log
          /\ \A x \in Epochs : claimHash'[x] = NoClaim \/ claimHash'[x] = claimHash[x]
  BY <1>2, <1>3, <1>4, <1>6, <1>7, <1>8, <1>9 DEF ChainStep
<1> QED
  BY <1>10

(* What one call appends. *)
LEMMA EmitAppends ==
    ASSUME ChainsOK, NEW kind, NEW e, NEW arg, Emit(kind, e, arg)
    PROVE  \E n \in Nat :
              /\ n \notin DOMAIN log /\ DOMAIN log' = DOMAIN log \cup {n}
              /\ \A i \in DOMAIN log : log'[i] = log[i]
              /\ log'[n].kind = kind /\ log'[n].epoch = e
              /\ log'[n].ts = clock /\ log'[n].arg = arg
<1> DEFINE ev == [kind |-> kind, epoch |-> e, ts |-> clock, arg |-> arg]
           n == Len(log) + 1
<1>1. /\ DOMAIN log' = 1..(Len(log) + 1) /\ DOMAIN log = 1..Len(log) /\ Len(log) \in Nat
      /\ \A i \in 1..Len(log) : log'[i] = log[i]
      /\ log'[Len(log) + 1] = ev
  BY DEF ChainsOK, ChainsTypeOK, Emit
<1>2. ev.kind = kind /\ ev.epoch = e /\ ev.ts = clock /\ ev.arg = arg
  OBVIOUS
<1>3. n \in Nat /\ n \notin DOMAIN log /\ DOMAIN log' = DOMAIN log \cup {n}
  BY <1>1
<1> HIDE DEF ev
<1>4. log'[n].kind = kind /\ log'[n].epoch = e /\ log'[n].ts = clock /\ log'[n].arg = arg
  BY <1>1, <1>2
<1>5. \A i \in DOMAIN log : log'[i] = log[i]
  BY <1>1
<1> HIDE DEF n
<1> QED
  BY <1>3, <1>4, <1>5

HashesAre == \A e \in Epochs : HashIs(e, claimHash[e])

(* The hash goes on saying what was emitted: no event happens twice.       *)
LEMMA ChainKeepsHashes ==
    ASSUME ChainsOK, ChainInOrder, HashesAre, NEW mine, ChainStep(mine)
    PROVE  HashesAre'
<1>1. claimHash \in [Epochs -> MaybeClaim]
  BY DEF ChainsOK, ChainsTypeOK, MaybeClaim
<1>2. CASE /\ log' = log
           /\ \A e \in Epochs : claimHash'[e] = NoClaim \/ claimHash'[e] = claimHash[e]
  BY <1>2 DEF HashesAre, HashIs, EventsOf, SaysOf, Emitted
<1>3. ASSUME NEW kind \in EventKinds, NEW e \in Epochs, NEW d \in ClaimData,
             NEW arg, Calls(kind, e, arg, d)
      PROVE  HashesAre'
  <2>1. PICK n \in Nat :
              /\ n \notin DOMAIN log /\ DOMAIN log' = DOMAIN log \cup {n}
              /\ \A i \in DOMAIN log : log'[i] = log[i]
              /\ log'[n].kind = kind /\ log'[n].epoch = e
              /\ log'[n].ts = clock /\ log'[n].arg = arg
    BY <1>3, EmitAppends DEF Calls
  <2>2. claimHash' = [claimHash EXCEPT ![e] = d]
    BY <1>3 DEF Calls
  <2>3. claimHash'[e] = d /\ \A x \in Epochs : x # e => claimHash'[x] = claimHash[x]
    BY <1>1, <2>2
  <2>4. ASSUME NEW x \in Epochs, x # e
        PROVE  HashIs(x, claimHash[x])'
    <3>1. EventsOf(x)' = EventsOf(x) /\ \A i \in EventsOf(x) : log'[i] = log[i]
      BY <2>1, <2>4 DEF EventsOf
    <3>2. Emitted("VerificationStarted", x) => Emitted("VerificationStarted", x)'
      BY <2>1 DEF Emitted
    <3> QED
      BY <2>3, <2>4, <3>1, <3>2 DEF HashesAre, HashIs, SaysOf
  <2>5. ASSUME NEW i \in DOMAIN log, log[i].epoch = e
        PROVE  SaysOf(d, log[i])
    <3>1. Emitted("Claimed", e) /\ Emitted(log[i].kind, e)
      BY <2>5 DEF ChainInOrder, LogOrdered, Emitted
    <3>2. kind # "Claimed" /\ IsOpen(e)
      BY <1>3, <3>1 DEF Calls
    <3>3. SaysOf(claimHash[e], log[i])
      BY <2>5, <3>2 DEF HashesAre, HashIs, EventsOf, IsOpen
    <3>4. HashTells(e, claimHash[e]) /\ claimHash[e] # NoClaim
      BY <3>2 DEF ChainInOrder, IsOpen
    <3>5. kind = "VerificationStarted" => log[i].kind # "VerificationStarted"
      BY <1>3, <3>1, <3>4 DEF HashTells, Calls
    <3>6. kind = "Challenged" => log[i].kind # "Challenged"
      BY <1>3, <3>1, <3>4 DEF HashTells, Calls
    <3> QED
      BY <1>3, <3>2, <3>3, <3>5, <3>6 DEF SaysOf, Calls
  <2>6. SaysOf(d, log'[n])
    BY <1>3, <2>1 DEF SaysOf, Calls
  <2>7. d.verification # 0 => Emitted("VerificationStarted", e)'
    <3>1. CASE kind = "VerificationStarted"
      BY <2>1, <3>1 DEF Emitted
    <3>2. CASE kind # "VerificationStarted" /\ d.verification # 0
      <4>1. IsOpen(e) /\ claimHash[e].verification # 0
        BY <1>3, <3>2 DEF Calls
      <4>2. Emitted("VerificationStarted", e)
        BY <4>1 DEF HashesAre, HashIs, IsOpen
      <4> QED
        BY <2>1, <4>2 DEF Emitted
    <3> QED
      BY <3>1, <3>2
  <2>8. HashIs(e, claimHash[e])'
    <3>1. \A i \in EventsOf(e)' : SaysOf(d, log'[i])
      BY <2>1, <2>5, <2>6 DEF EventsOf
    <3> QED
      BY <2>3, <2>7, <3>1 DEF HashIs, SaysOf
  <2> QED
    BY <2>4, <2>8 DEF HashesAre
<1> QED
  BY <1>2, <1>3, ChainCalls DEF Called

(* A claim that is open was open before, and once challenged it rests.     *)
LEMMA StaysOpen ==
    ASSUME ChainsOK, NEW mine, ChainStep(mine), NEW e \in Epochs,
           Emitted("Claimed", e), IsOpen(e)'
    PROVE  IsOpen(e) /\ (claimHash'[e] = claimHash[e] \/ claimHash[e].challenger = "zero")
<1>1. claimHash \in [Epochs -> MaybeClaim]
  BY DEF ChainsOK, ChainsTypeOK, MaybeClaim
<1>2. CASE claimHash'[e] = NoClaim \/ claimHash'[e] = claimHash[e]
  BY <1>2 DEF IsOpen
<1>3. ASSUME NEW kind \in EventKinds, NEW x \in Epochs, NEW d \in ClaimData,
             NEW arg, Calls(kind, x, arg, d)
      PROVE  IsOpen(e) /\ (claimHash'[e] = claimHash[e] \/ claimHash[e].challenger = "zero")
  <2>1. claimHash' = [claimHash EXCEPT ![x] = d]
    BY <1>3 DEF Calls
  <2>2. claimHash'[e] = IF x = e THEN d ELSE claimHash[e]
    BY <1>1, <2>1
  <2>3. CASE x # e
    BY <1>2, <2>2, <2>3
  <2>4. CASE x = e
    BY <1>3, <2>2, <2>4 DEF Calls, IsOpen, EventKinds
  <2> QED
    BY <2>3, <2>4
<1> QED
  BY <1>2, <1>3, ChainCalls DEF Called

(* A relay that is done stays done, and its claim with it. *)
LEMMA ChainKeepsSettled ==
    ASSUME ChainsOK, ChainJudged, SpentSettled, NEW mine, ChainStep(mine)
    PROVE  SpentSettled'
<1>1. Grows
  BY ChainStepType
<1>2. ASSUME NEW i \in spent
      PROVE  /\ i \in DOMAIN sent'
             /\ \E e \in Epochs : /\ sent'[i].epoch = e
                                  /\ Emitted("Claimed", e)' /\ ~IsOpen(e)'
  <2>1. i \in DOMAIN sent
    BY DEF SpentSettled
  <2>2. PICK e \in Epochs : sent[i].epoch = e /\ Emitted("Claimed", e) /\ ~IsOpen(e)
    BY DEF SpentSettled
  <2>3. ~IsOpen(e)'
    BY <2>2, StaysOpen
  <2>4. Emitted("Claimed", e)'
    BY <1>1, <2>2, EmittedGrows
  <2> QED
    BY <1>1, <2>1, <2>2, <2>3, <2>4 DEF Grows
<1>3. ASSUME NEW i \in DOMAIN sent, Relay(i)
      PROVE  \E e \in Epochs : /\ sent'[i].epoch = e
                               /\ Emitted("Claimed", e)' /\ ~IsOpen(e)'
  <2>1. sent \in Seq(Message) /\ claimHash \in [Epochs -> MaybeClaim]
    BY DEF ChainsOK, ChainsTypeOK, MaybeClaim
  <2>2. sent[i] \in Message
    BY <2>1, ElementOfSeq, LenProperties
  <2>3. PICK e \in Epochs, c \in ClaimData : e = sent[i].epoch /\ c = sent[i].claim
    BY <2>2 DEF Message
  <2>4. PICK winner \in {"Claimer", "Challenger"} :
           claimHash' = [claimHash EXCEPT ![e] = [c EXCEPT !.honest = winner]]
    BY <1>3, <2>3 DEF Relay
  <2>5. claimHash'[e] = [c EXCEPT !.honest = winner]
    BY <2>1, <2>4
  <2>6. claimHash'[e].honest # "None"
    BY <2>5 DEF ClaimData
  <2>7. claimHash[e] # NoClaim
    BY <1>3, <2>3 DEF Relay, CanRelay, Open
  <2>8. Emitted("Claimed", e)
    BY <2>7 DEF ChainJudged, Witnessed, ClaimedAs, Emitted
  <2>9. Emitted("Claimed", e)'
    BY <1>1, <2>8, EmittedGrows
  <2>10. sent'[i].epoch = e
    BY <1>1, <2>3 DEF Grows
  <2> QED
    BY <2>6, <2>9, <2>10 DEF IsOpen
<1>4. spent' = spent \/ \E i \in DOMAIN sent : Relay(i) /\ spent' = spent \cup {i}
  BY DEF ChainStep, Tick, Claim, Challenge, StartVerification, VerifySnapshot, SendSnapshot,
         WithdrawDeposit, Relay, chainVars
<1> QED
  BY <1>1, <1>2, <1>3, <1>4 DEF SpentSettled, Grows

-----------------------------------------------------------------------------
(* Messages of this validator about a claim in dispute: what a task, a     *)
(* copy of the claim, and a message may rely on.                           *)

(* The file has the challenge, or the dispute is over. *)
Disputed(e) ==
    \/ Paid(e)
    \/ \E n \in DOMAIN log : /\ log[n].epoch = e /\ log[n].kind = "Challenged"
                             /\ Tells(claims[e], log[n])

(* Record c settles the dispute of epoch e if anything still does.         *)
Resolves(e, c) ==
    /\ Emitted("Claimed", e)
    /\ Followed(e) /\ IsOpen(e) => c = claimHash[e] /\ c.challenger # "zero"

Sends(t, e) == t.kind = "SendSnapshot" /\ t.epoch = e

TasksDisputed ==
    \A t \in tasks \cup disp.ready, e \in Epochs : Sends(t, e) => Disputed(e)

CopyResolves ==
    disp.phase = "send" =>
        \A e \in Epochs, c \in ClaimData :
            Sends(disp.task, e) /\ disp.claim = c => Resolves(e, c)

MessagesResolve ==
    \A i \in DOMAIN sent, e \in Epochs, c \in ClaimData :
        sent[i].mine /\ sent[i].epoch = e /\ sent[i].claim = c => Resolves(e, c)

Disputes == HashesAre /\ SpentSettled /\ TasksDisputed /\ CopyResolves /\ MessagesResolve

(* The time indexing began moves at a start only, and forwards.            *)
LEMMA SinceMoves ==
    ASSUME [Next]_vars
    PROVE  \/ indexingSince' = indexingSince
           \/ log' = log /\ indexingSince' = SyncStart
<1>1. CASE Environment \/ Kill \/ UNCHANGED vars
  BY <1>1 DEF Environment, Kill, Die, vars, storeVars
<1>2. CASE FirstStart \/ Restart
  BY <1>2 DEF FirstStart, Restart, Start, chainVars
<1>3. CASE IndexerStep \/ IndexerFault
  BY <1>3 DEF IndexerStep, IndexerFault, ScanNothing, ScanChunk, FinishChunk, Handle,
       ScanFailed, TargetSearchFailed, HandlerFails, HandleSnapshotSent, HandleClaimed,
       HandleUnknown, Begin, BeginChallenged, FinishVerificationStarted, FinishChallenged,
       FinishVerified, Proceed, Schedule, Commit, Panic, storeVars
<1>4. CASE Land
  BY <1>4 DEF Land, dispatcherFrame
<1>5. CASE (DispatcherStep \/ DispatcherFault) /\ ~Land
  BY <1>5, TaskMoves
<1> QED
  BY <1>1, <1>2, <1>3, <1>4, <1>5 DEF Next

LEMMA FollowedBack ==
    ASSUME AllHold, AllHold', [Next]_vars, NEW e \in Epochs,
           Emitted("Claimed", e), Followed(e)'
    PROVE  Followed(e)
<1>1. ChainStep(Epochs)
  BY ChainsStep DEF AllHold
<1>2. LogExtends /\ ChainInOrder'
  BY <1>1, ChainStepInOrder DEF AllHold, Typed, Judged, InOrder
<1>3. CASE indexingSince' = indexingSince
  <2>1. PICK i \in DOMAIN log : log[i].epoch = e
    BY DEF Emitted
  <2> QED
    BY <1>2, <1>3, <2>1, FollowedBefore DEF AllHold
<1>4. CASE log' = log /\ indexingSince' = SyncStart
  <2>1. indexingSince \in Nat /\ SyncStart \in Nat /\ indexingSince <= SyncStart
    BY ScanTypes, ProcessAssumption DEF AllHold, InOrder, ScanInOrder, SyncStart, Truncated
  <2>2. PICK k \in DOMAIN log : /\ log[k].epoch = e /\ log[k].kind = "Claimed"
                                /\ log[k].ts >= SyncStart
    BY <1>4 DEF Followed, EventsOf
  <2>3. log[k].ts \in Nat
    BY EventType DEF AllHold, Typed
  <2>4. log[k].ts >= indexingSince
    BY <2>1, <2>2, <2>3
  <2> QED
    BY <2>2, <2>4 DEF Followed, EventsOf
<1> QED
  BY <1>3, <1>4, SinceMoves

LEMMA ResolvesStays ==
    ASSUME AllHold, AllHold', [Next]_vars, NEW e \in Epochs, NEW c \in ClaimData,
           Resolves(e, c)
    PROVE  Resolves(e, c)'
<1>1. ChainStep(Epochs)
  BY ChainsStep DEF AllHold
<1>2. Grows
  BY <1>1, ChainStepType DEF AllHold, Typed
<1>3. Emitted("Claimed", e) /\ Emitted("Claimed", e)'
  BY <1>2, EmittedGrows DEF Resolves
<1>4. ASSUME Followed(e)', IsOpen(e)'
      PROVE  c = claimHash'[e] /\ c.challenger # "zero"
  <2>1. Followed(e)
    BY <1>3, <1>4, FollowedBack
  <2>2. IsOpen(e) /\ (claimHash'[e] = claimHash[e] \/ claimHash[e].challenger = "zero")
    BY <1>1, <1>3, <1>4, StaysOpen DEF AllHold, Typed
  <2> QED
    BY <2>1, <2>2 DEF Resolves
<1> QED
  BY <1>3, <1>4 DEF Resolves

LEMMA DisputedStays ==
    ASSUME AllHold, [Next]_vars, NEW e \in Epochs, Disputed(e)
    PROVE  Disputed(e)'
<1>1. FileMoves
  BY NextInOrder DEF AllHold
<1>2. Remembers
  BY NextInformed DEF AllHold
<1>3. Grows
  BY ChainsStep, ChainStepType DEF AllHold, Typed
<1>4. CASE Paid(e)
  BY <1>2, <1>4 DEF Remembers, Disputed
<1>5. ASSUME NEW n \in DOMAIN log, log[n].epoch = e, log[n].kind = "Challenged",
             Tells(claims[e], log[n])
      PROVE  Disputed(e)'
  <2>1. n \in DOMAIN log' /\ log'[n] = log[n]
    BY <1>3 DEF Grows
  <2>2. Tells(claims'[e], log[n]) => Disputed(e)'
    BY <1>5, <2>1 DEF Disputed, Tells
  <2>3. claims \in [Epochs -> MaybeClaim]
    BY ScanTypes DEF AllHold
  <2>4. ASSUME NEW x \in Epochs, claims' = RemoveClaim(claims, x), Paid(x)
        PROVE  Disputed(e)'
    <3>1. CASE x = e
      BY <1>2, <2>4, <3>1 DEF Remembers, Disputed
    <3>2. CASE x # e
      BY <1>5, <2>2, <2>3, <2>4, <3>2 DEF RemoveClaim
    <3> QED
      BY <3>1, <3>2
  <2>5. ASSUME NEW x \in Epochs, NEW i \in DOMAIN log, NEW c \in ClaimData,
               LearnsFrom(i, x, c), claims' = [claims EXCEPT ![x] = c]
        PROVE  Disputed(e)'
    <3>1. CASE x = e
      <4>1. claims'[e] = c
        BY <2>3, <2>5, <3>1
      <4>2. Tells(c, log[n])
        BY <1>5, <2>5, <3>1 DEF LearnsFrom
      <4> QED
        BY <2>2, <4>1, <4>2
    <3>2. CASE x # e
      BY <1>5, <2>2, <2>3, <2>5, <3>2
    <3> QED
      BY <3>1, <3>2
  <2>6. CASE claims' = claims
    BY <1>5, <2>2, <2>6
  <2> QED
    BY <1>1, <2>4, <2>5, <2>6 DEF FileMoves
<1> QED
  BY <1>4, <1>5 DEF Disputed

(* The record of a claim in dispute is the claim the outbox hashes.        *)
LEMMA RecordResolves ==
    ASSUME AllHold, HashesAre, NEW e \in Epochs, claims[e] # NoClaim, Disputed(e)
    PROVE  Resolves(e, claims[e])
<1> DEFINE c == claims[e]
           h == claimHash[e]
<1>1. PICK k \in DOMAIN log : /\ log[k].kind = "Claimed" /\ log[k].epoch = e
                              /\ Tells(c, log[k])
  BY StoredTellsClaim DEF AllHold
<1>2. Emitted("Claimed", e)
  BY <1>1 DEF Emitted
<1>3. ASSUME Followed(e), IsOpen(e)
      PROVE  c = h /\ c.challenger # "zero"
  <2>1. h \in ClaimData /\ c \in ClaimData /\ h # NoClaim /\ h.honest = "None"
    BY <1>3, ScanTypes DEF IsOpen, AllHold, Typed, ChainsOK, ChainsTypeOK, MaybeClaim
  <2>2. PICK n \in DOMAIN log : /\ log[n].epoch = e /\ log[n].kind = "Challenged"
                                /\ Tells(c, log[n])
    BY <1>3 DEF Disputed, Paid, IsOpen
  <2>3. /\ HashIs(e, h) /\ HashTells(e, h) /\ LogOrdered
        /\ OnlyEvents(e, c) /\ NoGaps(e, c)
    BY <1>3 DEF HashesAre, AllHold, InOrder, ChainInOrder, FileInOrder, StoredIsHistory
  <2>4. \A i \in DOMAIN log : log[i].epoch = e => SaysOf(h, log[i])
    BY <2>1, <2>3 DEF HashIs, EventsOf
  <2>5. c.root = h.root /\ c.claimed = h.claimed
    BY <1>1, <2>4 DEF SaysOf, Tells
  <2>6. c.challenger = h.challenger /\ c.challenger # "zero"
    BY <2>2, <2>3, <2>4 DEF SaysOf, Tells, LogOrdered
  <2>7. c.honest = "None"
    BY <2>1, <2>3 DEF OnlyEvents, Told, EventsOf, Emitted, HashTells
  <2>8. c.verification = h.verification
    <3>1. ASSUME NEW m \in DOMAIN log, log[m].epoch = e, log[m].kind = "VerificationStarted"
          PROVE  c.verification = h.verification
      <4>1. m \in Nat /\ n \in Nat
        BY ScanTypes DEF AllHold
      <4>2. ~(n < m) /\ n # m
        BY <2>2, <2>3, <3>1 DEF LogOrdered, Rank
      <4>3. m < n
        BY <4>1, <4>2
      <4>4. m \in Told(e, c)
        BY <2>2, <2>3, <3>1, <4>3 DEF NoGaps, Told, EventsOf
      <4> QED
        BY <2>4, <3>1, <4>4 DEF Told, Tells, SaysOf
    <3>2. CASE ~Emitted("VerificationStarted", e)
      <4>1. h.verification = 0
        BY <2>1, <2>3, <3>2 DEF HashIs
      <4>2. c.verification = 0
        BY <2>1, <2>3, <3>2 DEF OnlyEvents, Told, EventsOf, Emitted, Tells
      <4> QED
        BY <4>1, <4>2
    <3> QED
      BY <3>1, <3>2 DEF Emitted
  <2>9. c = h
    <3> HIDE DEF c, h
    <3> QED
      BY <2>1, <2>5, <2>6, <2>7, <2>8 DEF ClaimData
  <2> QED
    BY <2>6, <2>9
<1> QED
  BY <1>2, <1>3 DEF Resolves

(* Where a task of a message comes from: an earlier one, except that        *)
(* FinishChallenged makes a SendSnapshot, HandleSnapshotSent a relay.       *)
MessageTasks == {"SendSnapshot", "ExecuteRelay"}

Inherited(new) ==
    \A t \in new : t.kind \in MessageTasks => \E u \in tasks \cup disp.ready : SameAs(t, u)

LEMMA FromInherited ==
    ASSUME NEW new, From(new, tasks)
    PROVE  Inherited(new)
BY DEF From, Inherited

LEMMA AddInherited ==
    ASSUME NEW ts, Inherited(ts), NEW e, NEW kind, kind \notin MessageTasks,
           NEW after, NEW position
    PROVE  Inherited(AddTask(ts, e, kind, after, position))
BY AddTaskFrom DEF Inherited

LEMMA SameInherited == Inherited(tasks) /\ Inherited(disp.ready)
BY DEF Inherited, SameAs

LEMMA IndexerSchedules ==
    ASSUME Typed, IndexerStep \/ IndexerFault, ~FinishChallenged,
           \A i \in idx.queue : ~HandleSnapshotSent(i)
    PROVE  Inherited(tasks') /\ (disp' = disp \/ disp' = IdleDispatcher)
<1>1. tasks \in SUBSET Task
  BY DEF Typed, ProcessTypeOK
<1>2. \A e, kinds : Inherited(Invalidate(tasks, e, kinds))
  BY <1>1, InvalidateFrom, FromInherited
<1>3. Inherited(tasks)
  BY SameInherited
<1>4. ASSUME NEW cs, NEW torn, NEW new, NEW x, Commit(cs, torn, new, x),
             Inherited(new), \A ts \in torn : Inherited(ts)
      PROVE  Inherited(tasks') /\ (disp' = disp \/ disp' = IdleDispatcher)
  <2>1. CASE tasks' = new /\ UNCHANGED disp
    BY <1>4, <2>1
  <2>2. CASE tasks' \in torn /\ disp' = IdleDispatcher
    BY <1>4, <2>2
  <2> QED
    BY <1>4, <2>1, <2>2 DEF Commit, Die
<1>5. {"ValidateClaim", "VerifySnapshot", "WithdrawDeposit"} \cap MessageTasks = {}
  BY DEF MessageTasks
<1>6. ASSUME NEW i \in idx.queue, HandleClaimed(i)
      PROVE  Inherited(tasks') /\ (disp' = disp \/ disp' = IdleDispatcher)
  <2>1. \A e, after : Inherited(AddTask(tasks, e, "ValidateClaim", after, 0))
    BY <1>3, <1>5, AddInherited
  <2>2. \A ts \in {tasks} : Inherited(ts)
    BY <1>3
  <2>3. CASE Proceed(Handled(i)) \/ Panic("Duplicate claim")
    BY <1>3, <2>3 DEF Proceed, Panic, Die, storeVars
  <2>4. CASE Commit(StoreClaim(claims, log[i].epoch, NewClaim(log[i].arg, log[i].ts)), {tasks},
                    AddTask(tasks, log[i].epoch, "ValidateClaim", log[i].ts, 0), Handled(i))
    BY <1>4, <2>1, <2>2, <2>4
  <2> QED
    BY <1>6, <2>3, <2>4 DEF HandleClaimed
<1>7. ASSUME NEW i \in idx.queue, HandleUnknown(i) \/ Begin(i)
      PROVE  Inherited(tasks') /\ (disp' = disp \/ disp' = IdleDispatcher)
  BY <1>3, <1>7 DEF HandleUnknown, Begin, Proceed, Panic, Die, storeVars
<1>8. ASSUME NEW i \in idx.queue, BeginChallenged(i)
      PROVE  Inherited(tasks') /\ (disp' = disp \/ disp' = IdleDispatcher)
  <2>1. \A ts \in {tasks} : Inherited(ts)
    BY <1>3
  <2>2. Commit([claims EXCEPT ![log[i].epoch].challenger = log[i].arg], {tasks},
               Invalidate(tasks, log[i].epoch, Doomed), Awaiting(i))
    BY <1>8 DEF BeginChallenged
  <2> QED
    BY <1>2, <1>4, <2>1, <2>2
<1>9. CASE FinishVerificationStarted
  <2> DEFINE ev == log[idx.at]
             without == Invalidate(tasks, ev.epoch, {"StartVerification"})
             new == AddTask(without, ev.epoch, "VerifySnapshot",
                            ev.ts + ChallengePeriod + Slack, 0)
  <2>1. Inherited(without)
    BY <1>2
  <2>2. Inherited(new)
    <3> HIDE DEF without
    <3> QED
      BY <1>5, <2>1, AddInherited
  <2>3. \A ts \in {tasks, without} : Inherited(ts)
    BY <1>3, <2>1
  <2>4. CASE Panic("Cannot update claim")
    BY <1>3, <2>4 DEF Panic, Die, storeVars
  <2>5. CASE Commit([claims EXCEPT ![ev.epoch].verification = ev.ts], {tasks, without},
                    new, Resumed)
    <3> HIDE DEF without, new
    <3> QED
      BY <1>4, <2>2, <2>3, <2>5
  <2> QED
    BY <1>9, <2>4, <2>5 DEF FinishVerificationStarted
<1>10. CASE FinishVerified
  <2> DEFINE ev == log[idx.at]
             without == Invalidate(tasks, ev.epoch, Doomed \cup {"ExecuteRelay"})
             new == AddTask(without, ev.epoch, "WithdrawDeposit", ev.ts, 0)
  <2>1. Inherited(without)
    BY <1>2
  <2>2. Inherited(new)
    <3> HIDE DEF without
    <3> QED
      BY <1>5, <2>1, AddInherited
  <2>3. \A ts \in {tasks, without} : Inherited(ts)
    BY <1>3, <2>1
  <2>4. CASE Panic("Cannot update claim")
    BY <1>3, <2>4 DEF Panic, Die, storeVars
  <2>5. CASE Commit([claims EXCEPT ![ev.epoch].honest = idx.verdict], {tasks, without},
                    new, Resumed)
    <3> HIDE DEF without, new
    <3> QED
      BY <1>4, <2>2, <2>3, <2>5
  <2> QED
    BY <1>10, <2>4, <2>5 DEF FinishVerified
<1>11. CASE \/ ScanNothing \/ ScanChunk \/ ScanFailed \/ TargetSearchFailed
            \/ FinishChunk \/ HandlerFails
  BY <1>3, <1>11 DEF ScanNothing, ScanChunk, ScanFailed, TargetSearchFailed, FinishChunk,
                     HandlerFails, Panic, Die, storeVars
<1> QED
  BY <1>6, <1>7, <1>8, <1>9, <1>10, <1>11 DEF IndexerStep, IndexerFault, Handle

(* FinishChallenged schedules one for the epoch whose challenge it read.   *)
LEMMA ChallengeSchedules ==
    ASSUME AllHold, FinishChallenged
    PROVE  \E e \in Epochs :
              /\ Disputed(e) /\ disp' = disp
              /\ \A t \in tasks' : t \in tasks \/ t.epoch = e
<1>1. /\ idx.phase = "await" /\ log[idx.at].kind = "Challenged"
      /\ tasks' = AddTask(tasks, log[idx.at].epoch, "SendSnapshot", log[idx.at].ts, 0)
      /\ disp' = disp
  BY DEF FinishChallenged, Awaits, Schedule
<1>2. idx.at \in DOMAIN log /\ log[idx.at].epoch \in Epochs
  BY <1>1, AwaitedEntry DEF AllHold
<1>3. PICK e \in Epochs : e = log[idx.at].epoch
  BY <1>2
<1>4. Known(e)
  BY <1>1, <1>3 DEF AllHold, Informed, AwaitKnown
<1>5. claims[e] = NoClaim \/ Tells(claims[e], log[idx.at])
  BY <1>1, <1>3 DEF AllHold, InOrder, AwaitInOrder, TellsEntry
<1>6. Disputed(e)
  BY <1>1, <1>2, <1>3, <1>4, <1>5 DEF Disputed, Known
<1>7. \A t \in tasks' : t \in tasks \/ t.epoch = e
  BY <1>1, <1>3, AddTaskFrom
<1> QED
  BY <1>1, <1>6, <1>7

(* What a step of the dispatcher hands on: tasks of before, copies of      *)
(* them, one to execute, and a claim that has just been read.              *)
HandsOn ==
    /\ Inherited(tasks')
    /\ disp'.ready \subseteq tasks \cup disp.ready
    /\ disp'.phase \in Busy =>
          disp'.task \in disp.ready \/ (disp.phase \in Busy /\ disp'.task = disp.task)
    /\ disp'.phase = "send" /\ disp'.task.kind = "SendSnapshot" =>
          \E t \in disp.ready : /\ disp'.task = t /\ disp'.claim = claims[t.epoch]
                                /\ claims[t.epoch] # NoClaim

LEMMA NextHandsOn ==
    ASSUME Inherited(tasks'), NEW ready \in SUBSET Task, ready \subseteq tasks \cup disp.ready,
           NEW now \in Nat, disp' = Pass(ready, now)
    PROVE  HandsOn
<1>1. disp'.ready = ready /\ disp'.phase \notin Busy
  BY PassType
<1>2. disp'.phase # "send"
  BY <1>1 DEF Busy
<1> QED
  BY <1>1, <1>2 DEF HandsOn

LEMMA DieHandsOn ==
    ASSUME Inherited(tasks'), disp' = IdleDispatcher
    PROVE  HandsOn
BY IdleType DEF HandsOn, Busy

LEMMA EndHandsOn ==
    ASSUME Typed, disp.phase \in Busy, Ends
    PROVE  HandsOn
<1>1. /\ disp.task \in Task /\ tasks \in SUBSET Task /\ IsFiniteSet(tasks)
      /\ disp.now \in Nat /\ disp.now + RetryDelay \in Nat /\ disp.ready \in SUBSET Task
  BY ProcessAssumption DEF Typed, ProcessTypeOK, PassOK, HoldsTask, Dispatching
<1>2. disp' = Pass(disp.ready, disp.now) \/ disp' = IdleDispatcher
  BY DEF Ends, Complete, Reschedule, Keep, Forget, Succeed, MoveOn, Die
<1>3. Inherited(tasks')
  <2>1. CASE tasks' = tasks
    BY <2>1, SameInherited
  <2>2. CASE tasks' = RemoveTask(tasks, disp.task)
    BY <1>1, <2>2, RemoveTaskFrom, FromInherited
  <2>3. CASE Reschedule
    <3> DEFINE later == RescheduleTask(tasks, disp.task, disp.now + RetryDelay)
    <3>1. later \in SUBSET Task /\ From(later, tasks)
      BY <1>1, RescheduleTaskType, RescheduleTaskFrom
    <3>2. tasks' = RemoveTask(later, disp.task) \/ tasks' = later
      BY <2>3 DEF Reschedule, Succeed
    <3> HIDE DEF later
    <3>3. From(tasks', later)
      BY <3>1, <3>2, RemoveTaskFrom DEF From, SameAs
    <3>4. From(tasks', tasks)
      BY <3>1, <3>3 DEF From, SameAs
    <3> QED
      BY <3>4, FromInherited
  <2> QED
    BY <2>1, <2>2, <2>3 DEF Ends, Complete, Keep, Forget, Succeed
<1>4. disp.ready \subseteq tasks \cup disp.ready
  OBVIOUS
<1> QED
  BY <1>1, <1>2, <1>3, <1>4, NextHandsOn, DieHandsOn

LEMMA PauseHandsOn ==
    ASSUME Typed, disp.phase \in Busy, Pauses
    PROVE  HandsOn
<1>1. disp \in Dispatching
  BY DEF Typed, ProcessTypeOK
<1>2. tasks' = tasks /\ disp'.ready = disp.ready /\ disp'.task = disp.task
  BY <1>1 DEF Pauses, Wait, Dispatching
<1> QED
  BY <1>2, SameInherited DEF HandsOn, Pauses

LEMMA PollHandsOn ==
    ASSUME Typed, Poll \/ ReadNow \/ ReadNowFailed
    PROVE  HandsOn
<1>1. tasks' = tasks /\ disp \in Dispatching /\ clock \in Nat
  BY DEF Poll, ReadNow, ReadNowFailed, Typed, ChainsOK, ChainsTypeOK, ProcessTypeOK
<1>2. CASE Poll
  <2>1. disp'.ready = tasks /\ disp'.phase = "polled"
    BY <1>1, <1>2 DEF Poll, Dispatching
  <2> QED
    BY <1>1, <2>1, SameInherited DEF HandsOn, Busy
<1>3. CASE ReadNow
  <2> DEFINE ready == {t \in disp.ready : clock >= t.after}
  <2>1. ready \in SUBSET Task /\ ready \subseteq tasks \cup disp.ready
    BY <1>1 DEF Dispatching
  <2>2. disp' = Pass(ready, clock)
    BY <1>3 DEF ReadNow
  <2> HIDE DEF ready
  <2> QED
    BY <1>1, <2>1, <2>2, SameInherited, NextHandsOn
<1>4. CASE ReadNowFailed
  BY <1>1, <1>4, SameInherited, DieHandsOn DEF ReadNowFailed
<1> QED
  BY <1>2, <1>3, <1>4

LEMMA BeginTaskHandsOn ==
    ASSUME Typed, NEW t \in disp.ready, BeginTask(t)
    PROVE  HandsOn
<1> DEFINE taken == [disp EXCEPT !.ready = @ \ {t}, !.task = t]
<1>1. disp \in Dispatching /\ t \in Task /\ tasks \in SUBSET Task /\ disp.now \in Nat
  BY DEF Typed, ProcessTypeOK, Dispatching
<1>2. CASE /\ t.kind \in DOMAIN FirstWait
           /\ disp' = [taken EXCEPT !.phase = FirstWait[t.kind]] /\ tasks' = tasks
  <2>1. FirstWait[t.kind] # "send"
    BY <1>2 DEF FirstWait
  <2>2. disp'.ready = disp.ready \ {t} /\ disp'.phase # "send" /\ disp'.task = t
    BY <1>1, <1>2, <2>1 DEF Dispatching
  <2> QED
    BY <1>2, <2>2, SameInherited DEF HandsOn
<1>3. CASE /\ disp' = [taken EXCEPT !.phase = "send", !.claim = claims[t.epoch]]
           /\ claims[t.epoch] # NoClaim /\ tasks' = tasks
  <2>1. /\ disp'.ready = disp.ready \ {t} /\ disp'.task = t
        /\ disp'.claim = claims[t.epoch]
    BY <1>1, <1>3 DEF Dispatching
  <2> QED
    BY <1>3, <2>1, SameInherited DEF HandsOn
<1>4. CASE Die("No claim found") /\ UNCHANGED <<tasks, claims>>
  BY <1>4, SameInherited, DieHandsOn DEF Die
<1>5. CASE tasks' = RemoveTask(tasks, t) /\ disp' = Pass(disp.ready \ {t}, disp.now)
  <2>1. Inherited(tasks')
    BY <1>1, <1>5, RemoveTaskFrom, FromInherited
  <2>2. disp.ready \ {t} \in SUBSET Task /\ disp.ready \ {t} \subseteq tasks \cup disp.ready
    BY <1>1 DEF Dispatching
  <2> QED
    BY <1>1, <1>5, <2>1, <2>2, NextHandsOn
<1> QED
  BY <1>2, <1>3, <1>4, <1>5 DEF BeginTask

LEMMA JudgeHandsOn ==
    ASSUME Typed, Judge
    PROVE  HandsOn
<1> DEFINE e == disp.task.epoch
           start == AddTask(tasks, e, "StartVerification", disp.now + StartDelay + Slack, 0)
           challenge == AddTask(tasks, e, "Challenge", disp.now, 0)
<1>1. /\ tasks \in SUBSET Task /\ disp.task \in Task /\ e \in Epochs
      /\ IsFiniteSet(tasks) /\ disp.now \in Nat /\ disp.ready \in SUBSET Task
  BY DEF Judge, Doing, Busy, Typed, ProcessTypeOK, PassOK, HoldsTask, Dispatching, Task
<1>2. Inherited(start) /\ Inherited(challenge)
  BY SameInherited, AddInherited DEF MessageTasks
<1>3. start \in SUBSET Task /\ challenge \in SUBSET Task
  <2>1. {"StartVerification", "Challenge"} \subseteq Kinds /\ 0 \in Nat
    BY DEF Kinds
  <2>2. disp.now + StartDelay + Slack \in Nat
    BY <1>1, ChainsAssumption, ProcessAssumption
  <2> QED
    BY <1>1, <2>1, <2>2, AddTaskType
<1>4. Succeed(start) \/ Succeed(challenge)
  BY DEF Judge
<1> HIDE DEF start, challenge, e
<1>5. PICK ts \in SUBSET Task : Inherited(ts) /\ Succeed(ts)
  BY <1>2, <1>3, <1>4
<1>6. /\ tasks' = ts \/ tasks' = RemoveTask(ts, disp.task)
      /\ disp' = Pass(disp.ready, disp.now) \/ disp' = IdleDispatcher
  BY <1>5 DEF Succeed, MoveOn, Die
<1>7. Inherited(tasks')
  <2>1. From(RemoveTask(ts, disp.task), ts)
    BY <1>5, RemoveTaskFrom
  <2> QED
    BY <1>5, <1>6, <2>1 DEF From, Inherited, SameAs
<1>8. disp.ready \subseteq tasks \cup disp.ready
  OBVIOUS
<1> QED
  BY <1>1, <1>6, <1>7, <1>8, NextHandsOn, DieHandsOn

LEMMA DispatcherHandsOn ==
    ASSUME Typed, DispatcherStep \/ DispatcherFault
    PROVE  HandsOn
<1>1. CASE Poll \/ ReadNow \/ ReadNowFailed
  BY <1>1, PollHandsOn
<1>2. CASE \E t \in disp.ready : BeginTask(t)
  BY <1>2, BeginTaskHandsOn
<1>3. CASE Judge
  BY <1>3, JudgeHandsOn
<1>4. CASE CheckFinality \/ CheckHash \/ CheckSpent
             \/ RequestFailed \/ BlockSearchFailed \/ OutOfFunds
  <2>1. disp.phase \in Busy
    BY <1>4 DEF CheckFinality, CheckHash, CheckSpent, RequestFailed, BlockSearchFailed,
                OutOfFunds, Doing, Busy
  <2>2. claims[disp.task.epoch] \in MaybeClaim /\ NoClaim \in MaybeClaim
    BY <2>1 DEF Typed, ProcessTypeOK, PassOK, HoldsTask, Task, MaybeClaim
  <2>3. "compare" \in Phases /\ "send" \in Phases
    BY DEF Phases
  <2>4. Ends \/ Pauses \/ (UNCHANGED tasks /\ disp' = IdleDispatcher)
    <3>1. CASE CheckFinality
      BY <2>2, <2>3, <3>1 DEF CheckFinality, Doing, Ends, Pauses, Die
    <3>2. CASE CheckHash
      BY <2>2, <2>3, <3>2 DEF CheckHash, Doing, Ends, Pauses, Die
    <3>3. CASE CheckSpent
      BY <2>2, <2>3, <3>3 DEF CheckSpent, Doing, Ends, Pauses
    <3>4. CASE RequestFailed \/ OutOfFunds
      BY <3>4 DEF RequestFailed, OutOfFunds, Ends
    <3>5. CASE BlockSearchFailed
      BY <3>5 DEF BlockSearchFailed, Die
    <3> QED
      BY <1>4, <3>1, <3>2, <3>3, <3>4, <3>5
  <2> QED
    BY <2>1, <2>4, EndHandsOn, PauseHandsOn, DieHandsOn, SameInherited
<1>5. CASE Land \/ Revert
  <2>1. tasks' = tasks /\ \E result : Answered(result)
    BY <1>5 DEF Land, Revert
  <2>2. /\ disp'.ready = disp.ready /\ disp'.phase = "result" /\ disp'.task = disp.task
        /\ disp.phase \in Busy
    BY <1>5, <2>1 DEF Answered, Typed, ProcessTypeOK, Dispatching, Land, Revert, Busy
  <2> QED
    BY <2>1, <2>2, SameInherited DEF HandsOn
<1>6. CASE \/ Confirmed \/ ChallengeFailed \/ StartVerificationFailed
           \/ VerifySnapshotFailed \/ WithdrawFailed \/ SendFailed \/ RelayFailed
  <2>1. Ends
    BY <1>6 DEF Ends, Confirmed, ChallengeFailed, StartVerificationFailed,
         VerifySnapshotFailed, DropIfEmitted, WithdrawFailed, SendFailed, RelayFailed,
         RescheduleIfInvalid
  <2>2. disp.phase \in Busy
    BY <1>6 DEF Confirmed, ChallengeFailed, StartVerificationFailed, VerifySnapshotFailed,
         WithdrawFailed, SendFailed, RelayFailed, Failed, Doing, Busy
  <2> QED
    BY <2>1, <2>2, EndHandsOn
<1> QED
  BY <1>1, <1>2, <1>3, <1>4, <1>5, <1>6 DEF DispatcherStep, DispatcherFault, Work, Sending

LEMMA SentMoves ==
    ASSUME Typed, [Next]_vars
    PROVE  \/ sent' = sent
           \/ \E e \in Epochs, c \in ClaimData, own \in BOOLEAN :
                 /\ SendSnapshot(e, c, own)
                 /\ own => disp.phase = "send" /\ Sends(disp.task, e) /\ disp.claim = c
<1>1. CASE Environment
  <2>1. \A e \in Epochs : claimHash[e] # NoClaim => claimHash[e] \in ClaimData
    BY DEF Typed, ChainsOK, ChainsTypeOK
  <2>2. CASE \E e \in Epochs : /\ Open(e, claimHash[e])
                               /\ SendSnapshot(e, claimHash[e], FALSE)
    BY <2>1, <2>2 DEF Open
  <2>3. CASE sent' = sent
    BY <2>3
  <2> QED
    BY <1>1, <2>2, <2>3
    DEF Environment, Others, Tick, Claim, Challenge, StartVerification, VerifySnapshot,
        WithdrawDeposit, Relay
<1>2. CASE Land
  <2>1. PICK e \in Epochs : e = disp.task.epoch
    BY <1>2 DEF Land, Typed, PassOK, HoldsTask, Busy, Task
  <2>2. /\ Transaction(disp.task.kind, e, disp.claim, disp.task.position)
        /\ disp.phase = "send"
    BY <1>2, <2>1 DEF Land
  <2>3. disp.task.kind = "SendSnapshot" => disp.claim \in ClaimData
    BY <1>2 DEF Land, Typed, ProcessTypeOK, PassOK, HoldsTask, Busy, Dispatching
  <2>4. CASE disp.task.kind = "SendSnapshot" /\ SendSnapshot(e, disp.claim, TRUE)
    BY <2>1, <2>2, <2>3, <2>4 DEF Sends
  <2>5. CASE sent' = sent
    BY <2>5
  <2> QED
    BY <2>2, <2>4, <2>5
    DEF Transaction, Challenge, StartVerification, VerifySnapshot, WithdrawDeposit, Relay
<1>3. CASE (DispatcherStep \/ DispatcherFault) /\ ~Land
  BY <1>3, TaskMoves DEF chainVars
<1>4. CASE FirstStart \/ Restart \/ Kill \/ UNCHANGED vars
  BY <1>4 DEF FirstStart, Restart, Start, Kill, vars, chainVars
<1>5. CASE IndexerStep \/ IndexerFault
  BY <1>5, IndexerKeepsChains DEF chainVars
<1> QED
  BY <1>1, <1>2, <1>3, <1>4, <1>5 DEF Next

LEMMA MessagesResolveNext ==
    ASSUME AllHold, AllHold', Disputes, [Next]_vars
    PROVE  MessagesResolve'
<1>1. Grows /\ sent \in Seq(Message)
  BY ChainsStep, ChainStepType DEF AllHold, Typed, ChainsOK, ChainsTypeOK
<1>2. ASSUME NEW i \in DOMAIN sent, NEW e \in Epochs, NEW c \in ClaimData,
             sent'[i].mine, sent'[i].epoch = e, sent'[i].claim = c
      PROVE  Resolves(e, c)'
  BY <1>1, <1>2, ResolvesStays DEF Grows, Disputes, MessagesResolve
<1>3. CASE sent' = sent
  BY <1>2, <1>3 DEF MessagesResolve
<1>4. ASSUME NEW e \in Epochs, NEW c \in ClaimData, NEW own \in BOOLEAN,
             SendSnapshot(e, c, own),
             own => disp.phase = "send" /\ Sends(disp.task, e) /\ disp.claim = c
      PROVE  MessagesResolve'
  <2> DEFINE m == [epoch |-> e, ts |-> clock, mine |-> own, claim |-> c]
  <2>1. sent' = Append(sent, m) /\ m.epoch = e /\ m.claim = c /\ m.mine = own
    BY <1>4 DEF SendSnapshot
  <2>2. m \in Message
    BY DEF Message, AllHold, Typed, ChainsOK, ChainsTypeOK
  <2> HIDE DEF m
  <2>3. \A i \in DOMAIN sent' : i \in DOMAIN sent \/ sent'[i] = m
    BY <1>1, <2>1, <2>2, AppendProperties, LenProperties
  <2>4. own => Resolves(e, c)'
    BY <1>4, ResolvesStays DEF Disputes, CopyResolves
  <2>5. ASSUME NEW i \in DOMAIN sent', NEW x \in Epochs, NEW d \in ClaimData,
               sent'[i].mine, sent'[i].epoch = x, sent'[i].claim = d
        PROVE  Resolves(x, d)'
    <3>1. CASE i \in DOMAIN sent
      BY <1>2, <2>5, <3>1
    <3>2. CASE sent'[i] = m
      <4>1. x = e /\ d = c /\ own
        BY <2>1, <2>5, <3>2
      <4> QED
        BY <2>4, <4>1
    <3> QED
      BY <2>3, <3>1, <3>2
  <2> QED
    BY <2>5 DEF MessagesResolve
<1> QED
  BY <1>3, <1>4, SentMoves DEF AllHold

LEMMA TasksDisputedNext ==
    ASSUME AllHold, Disputes, [Next]_vars
    PROVE  TasksDisputed'
<1>1. ASSUME NEW u \in tasks \cup disp.ready, NEW t, SameAs(t, u), NEW e \in Epochs, Sends(t, e)
      PROVE  Disputed(e)'
  <2>1. Disputed(e)
    BY <1>1 DEF Disputes, TasksDisputed, Sends, SameAs
  <2> QED
    BY <2>1, DisputedStays
<1>2. ASSUME Inherited(tasks'), Inherited(disp'.ready)
      PROVE  TasksDisputed'
  BY <1>1, <1>2 DEF Inherited, MessageTasks, TasksDisputed, Sends
<1>3. Inherited(tasks) /\ Inherited(disp.ready)
  BY SameInherited
<1>4. IdleDispatcher.ready = {} /\ Inherited({})
  BY IdleType DEF Inherited
<1>5. CASE Environment \/ FirstStart \/ Restart \/ Kill \/ UNCHANGED vars
  BY <1>2, <1>3, <1>4, <1>5
  DEF Environment, FirstStart, Restart, Start, Kill, Die, vars, storeVars, procVars
<1>6. CASE /\ IndexerStep \/ IndexerFault
           /\ ~FinishChallenged /\ \A i \in idx.queue : ~HandleSnapshotSent(i)
  BY <1>2, <1>3, <1>4, <1>6, IndexerSchedules DEF AllHold
<1>9. ASSUME NEW i \in idx.queue, HandleSnapshotSent(i)
      PROVE  TasksDisputed'
  <2>1. \A t \in tasks' : t \in tasks \/ t.kind = "ExecuteRelay"
    BY <1>9, AddTaskFrom DEF HandleSnapshotSent, Proceed, Schedule, storeVars
  <2>2. disp' = disp
    BY <1>9 DEF HandleSnapshotSent, Proceed, Schedule
  <2> QED
    BY <1>1, <2>1, <2>2 DEF TasksDisputed, Sends, SameAs
<1>7. CASE FinishChallenged
  <2>1. PICK e \in Epochs : /\ Disputed(e) /\ disp' = disp
                            /\ \A t \in tasks' : t \in tasks \/ t.epoch = e
    BY <1>7, ChallengeSchedules
  <2>2. Disputed(e)'
    BY <2>1, DisputedStays
  <2> QED
    BY <1>1, <2>1, <2>2 DEF TasksDisputed, Sends, SameAs
<1>8. CASE DispatcherStep \/ DispatcherFault
  <2>1. HandsOn
    BY <1>8, DispatcherHandsOn DEF AllHold
  <2>2. Inherited(disp'.ready)
    BY <2>1 DEF HandsOn, Inherited, SameAs
  <2> QED
    BY <1>2, <2>1, <2>2 DEF HandsOn
<1> QED
  BY <1>5, <1>6, <1>7, <1>8, <1>9 DEF Next

LEMMA CopyResolvesNext ==
    ASSUME AllHold, AllHold', Disputes, [Next]_vars
    PROVE  CopyResolves'
<1>1. CASE disp' = disp
  BY <1>1, ResolvesStays DEF Disputes, CopyResolves
<1>2. CASE disp' = IdleDispatcher
  BY <1>2, IdleType DEF CopyResolves
<1>3. CASE Environment \/ FirstStart \/ Restart \/ Kill \/ UNCHANGED vars
  BY <1>1, <1>2, <1>3
  DEF Environment, FirstStart, Restart, Start, Kill, Die, vars, procVars
<1>4. CASE /\ IndexerStep \/ IndexerFault
           /\ ~FinishChallenged /\ \A i \in idx.queue : ~HandleSnapshotSent(i)
  BY <1>1, <1>2, <1>4, IndexerSchedules DEF AllHold
<1>5. CASE FinishChallenged \/ \E i \in idx.queue : HandleSnapshotSent(i)
  BY <1>1, <1>5 DEF FinishChallenged, HandleSnapshotSent, Proceed, Schedule
<1>6. CASE DispatcherStep \/ DispatcherFault
  <2> SUFFICES ASSUME disp'.phase = "send", NEW e \in Epochs, NEW c \in ClaimData,
                      Sends(disp'.task, e), disp'.claim = c
               PROVE  Resolves(e, c)'
    BY DEF CopyResolves
  <2>1. PICK t \in disp.ready : /\ disp'.task = t /\ disp'.claim = claims[t.epoch]
                                /\ claims[t.epoch] # NoClaim
    BY <1>6, DispatcherHandsOn DEF AllHold, HandsOn, Sends
  <2>2. t.epoch = e /\ c = claims[e] /\ claims[e] # NoClaim /\ Disputed(e)
    BY <2>1 DEF Disputes, TasksDisputed, Sends
  <2>3. Resolves(e, c)
    BY <2>2, RecordResolves DEF Disputes
  <2> QED
    BY <2>3, ResolvesStays
<1> QED
  BY <1>3, <1>4, <1>5, <1>6 DEF Next

LEMMA NextDisputes ==
    AllHold /\ AllHold' /\ Disputes /\ [Next]_vars => Disputes'
<1> SUFFICES ASSUME AllHold, AllHold', Disputes, [Next]_vars PROVE Disputes'
  OBVIOUS
<1>1. ChainStep(Epochs)
  BY ChainsStep DEF AllHold
<1>2. HashesAre' /\ SpentSettled'
  BY <1>1, ChainKeepsHashes, ChainKeepsSettled
  DEF Disputes, AllHold, Typed, Judged, InOrder
<1> QED
  BY <1>2, TasksDisputedNext, CopyResolvesNext, MessagesResolveNext DEF Disputes

LEMMA InitDisputes == Init => Disputes
<1> SUFFICES ASSUME Init PROVE Disputes
  OBVIOUS
<1>1. /\ DOMAIN sent = {} /\ spent = {} /\ \A e \in Epochs : claimHash[e] = NoClaim
      /\ tasks = {} /\ disp.ready = {} /\ disp.phase = "idle"
  BY DEF Init, ChainsInit, ProcessInit, IdleDispatcher
<1> QED
  BY <1>1 DEF Disputes, HashesAre, HashIs, SpentSettled, TasksDisputed, CopyResolves,
              MessagesResolve

LEMMA DisputesTell == AllHold /\ Disputes => SentIsResolvable
<1> SUFFICES ASSUME AllHold, Disputes, NEW i \in DOMAIN sent, sent[i].mine,
                    Followed(sent[i].epoch),
                    Open(sent[i].epoch, claimHash[sent[i].epoch])
             PROVE  CanRelay(i)
  BY DEF SentIsResolvable
<1>1. sent \in Seq(Message)
  BY DEF AllHold, Typed, ChainsOK, ChainsTypeOK
<1>2. sent[i] \in Message
  BY <1>1, ElementOfSeq, LenProperties
<1>3. PICK e \in Epochs, c \in ClaimData : e = sent[i].epoch /\ c = sent[i].claim
  BY <1>2 DEF Message
<1>4. Followed(e) /\ IsOpen(e)
  BY <1>3 DEF Open, IsOpen
<1>5. c = claimHash[e] /\ c.challenger # "zero"
  BY <1>3, <1>4 DEF Disputes, MessagesResolve, Resolves
<1>6. i \notin spent
  BY <1>3, <1>4 DEF Disputes, SpentSettled
<1> QED
  BY <1>3, <1>4, <1>5, <1>6 DEF CanRelay, Open, IsOpen

(* While a claim is open, a message this validator has sent about it       *)
(* (send_snapshot.rs) says what the outbox hashes, the challenge included: *)
(* relayed, it settles the dispute, whatever was redelivered, torn or      *)
(* killed between reading the challenge and sending.                       *)
THEOREM SentClaimsResolve == Spec => []SentIsResolvable
<1>1. AllHold /\ Disputes => SentIsResolvable
  BY DisputesTell
<1>2. Spec => []AllHold
  BY Invariance
<1> QED
  BY <1>1, <1>2, InitDisputes, NextDisputes, PTL DEF Spec
-----------------------------------------------------------------------------
(* A message of this validator that the scan of the inbox has met has its  *)
(* relay in the schedule until its claim is settled.                       *)

inboxCursor == cursor["inbox"]

InboxChunk == idx.side = "inbox" /\ idx.phase # "query"

InboxInOrder ==
    /\ inboxCursor # NoBlock =>
          /\ inboxCursor <= clock
          /\ indexingSince < inboxCursor => inboxCursor < clock
    /\ idx.target["inbox"] < clock
    /\ InboxChunk => inboxCursor # NoBlock /\ idx.to < clock

(* The scan of the inbox has met message i. *)
Heard(i) ==
    /\ inboxCursor # NoBlock /\ indexingSince <= sent[i].ts
    /\ \/ sent[i].ts < inboxCursor
       \/ indexingSince < inboxCursor /\ sent[i].ts = inboxCursor
       \/ InboxChunk /\ sent[i].ts <= idx.to /\ i \notin idx.queue

Closed(e) == Emitted("Claimed", e) /\ ~IsOpen(e)

Relays(t, e) == t.kind = "ExecuteRelay" /\ t.epoch = e

HasRelay(ts, e) == \E t \in ts : Relays(t, e)

(* A relay is of a message of this validator about its own epoch, *)
Carries(t) ==
    t.kind = "ExecuteRelay" =>
        /\ t.position \in DOMAIN sent
        /\ sent[t.position].mine /\ sent[t.position].epoch = t.epoch

RelaysCarry ==
    /\ \A t \in tasks \cup disp.ready : Carries(t)
    /\ disp.phase \in Busy => Carries(disp.task)

(* and once it has been answered there is nothing left to settle.          *)
AnsweredIsClosed ==
    disp.phase = "result" =>
        \A e \in Epochs : Relays(disp.task, e) /\ Followed(e) => Closed(e)

HeardIsRelayed ==
    \A i \in DOMAIN sent, e \in Epochs :
        sent[i].mine /\ sent[i].epoch = e /\ Followed(e) /\ Heard(i) =>
            HasRelay(tasks, e) \/ Closed(e)

Relaying == InboxInOrder /\ RelaysCarry /\ AnsweredIsClosed /\ HeardIsRelayed

(* What the schedule's operators leave of the relays.                      *)
LEMMA RetainHasRelay ==
    ASSUME NEW kept \in SUBSET Task, NEW e, HasRelay(kept, e)
    PROVE  HasRelay(Retain(kept), e)
<1>1. PICK t \in kept : Relays(t, e)
  BY DEF HasRelay
<1>2. PICK u : u = [t EXCEPT !.place = 1 + Cardinality({w \in kept : w.place < t.place})]
  OBVIOUS
<1>3. u \in Retain(kept)
  BY <1>2, Zenon DEF Retain
<1>4. u.kind = t.kind /\ u.epoch = t.epoch
  BY <1>2 DEF Task
<1> QED
  BY <1>1, <1>3, <1>4 DEF HasRelay, Relays

LEMMA AddHasRelay ==
    ASSUME NEW ts, NEW e, HasRelay(ts, e), NEW x, NEW kind, NEW after, NEW position
    PROVE  HasRelay(AddTask(ts, x, kind, after, position), e)
BY DEF HasRelay, AddTask

LEMMA InvalidateHasRelay ==
    ASSUME NEW ts \in SUBSET Task, NEW e, HasRelay(ts, e), NEW x, NEW kinds,
           x = e => "ExecuteRelay" \notin kinds
    PROVE  HasRelay(Invalidate(ts, x, kinds), e)
<1>1. HasRelay(ts \ TasksOf(ts, x, kinds), e)
  BY DEF HasRelay, Relays, TasksOf
<1> QED
  BY <1>1, RetainHasRelay DEF Invalidate

LEMMA RemoveHasRelay ==
    ASSUME NEW ts \in SUBSET Task, NEW e, HasRelay(ts, e), NEW task, ~Relays(task, e)
    PROVE  HasRelay(RemoveTask(ts, task), e)
<1>1. HasRelay(ts \ TasksOf(ts, task.epoch, {task.kind}), e)
  BY DEF HasRelay, Relays, TasksOf
<1> QED
  BY <1>1, RetainHasRelay DEF RemoveTask

LEMMA RescheduleHasRelay ==
    ASSUME NEW ts \in SUBSET Task, NEW e, HasRelay(ts, e), NEW task, NEW after,
           ~Relays(task, e)
    PROVE  HasRelay(RescheduleTask(ts, task, after), e)
<1>1. PICK t \in ts : Relays(t, e)
  BY DEF HasRelay
<1>2. t \notin TasksOf(ts, task.epoch, {task.kind})
  BY <1>1 DEF TasksOf, Relays
<1> QED
  BY <1>1, <1>2 DEF HasRelay, RescheduleTask

(* A claim that is closed stays closed. *)
LEMMA ClosedStays ==
    ASSUME AllHold, [Next]_vars, NEW e \in Epochs, Closed(e)
    PROVE  Closed(e)'
<1>1. ChainStep(Epochs)
  BY ChainsStep DEF AllHold
<1>2. Emitted("Claimed", e)'
  BY <1>1, ChainStepType, EmittedGrows DEF AllHold, Typed, Closed
<1>3. ~IsOpen(e)'
  BY <1>1, StaysOpen DEF AllHold, Typed, Closed
<1> QED
  BY <1>2, <1>3 DEF Closed

(* The end of a task takes no other task's relay.                          *)
LEMMA EndKeepsRelay ==
    ASSUME Typed, disp.phase \in Busy, Ends, NEW e, HasRelay(tasks, e),
           ~Relays(disp.task, e)
    PROVE  HasRelay(tasks', e)
<1>1. /\ disp.task \in Task /\ tasks \in SUBSET Task /\ IsFiniteSet(tasks)
      /\ disp.now + RetryDelay \in Nat
  BY ProcessAssumption DEF Typed, ProcessTypeOK, PassOK, HoldsTask, Dispatching
<1>2. CASE tasks' = tasks
  BY <1>2
<1>3. CASE tasks' = RemoveTask(tasks, disp.task)
  BY <1>1, <1>3, RemoveHasRelay
<1>4. CASE Reschedule
  <2> DEFINE later == RescheduleTask(tasks, disp.task, disp.now + RetryDelay)
  <2>1. later \in SUBSET Task /\ HasRelay(later, e)
    BY <1>1, RescheduleTaskType, RescheduleHasRelay
  <2>2. tasks' = RemoveTask(later, disp.task) \/ tasks' = later
    BY <1>4 DEF Reschedule, Succeed
  <2> HIDE DEF later
  <2> QED
    BY <2>1, <2>2, RemoveHasRelay
<1> QED
  BY <1>2, <1>3, <1>4 DEF Ends, Complete, Keep, Forget, Succeed

(* Where no request fails, a relay is given up when it was answered or     *)
(* found to be spent.                                                      *)
NoRequestFails == Faults \cap {"rpc", "unconfirmed"} = {}

GivenUp(e) ==
    /\ Relays(disp.task, e)
    /\ \/ disp.phase = "result"
       \/ disp.phase = "spent" /\ disp.task.position \in spent

LEMMA DispatcherKeepsRelay ==
    ASSUME Typed, NoRequestFails, DispatcherStep \/ DispatcherFault,
           NEW e, HasRelay(tasks, e)
    PROVE  HasRelay(tasks', e) \/ GivenUp(e)
<1>0. tasks \in SUBSET Task /\ disp \in Dispatching
  BY DEF Typed, ProcessTypeOK
<1>1. CASE Poll \/ ReadNow \/ ReadNowFailed \/ Land \/ Revert
  BY <1>1 DEF Poll, ReadNow, ReadNowFailed, Land, Revert
<1>2. ASSUME NEW t \in disp.ready, BeginTask(t)
      PROVE  HasRelay(tasks', e)
  <2>1. CASE tasks' = tasks
    BY <2>1
  <2>2. CASE t.kind \in {"StartVerification", "VerifySnapshot"} /\ tasks' = RemoveTask(tasks, t)
    BY <1>0, <2>2, RemoveHasRelay DEF Relays
  <2> QED
    BY <1>2, <2>1, <2>2 DEF BeginTask
<1>3. CASE Judge
  <2> DEFINE x == disp.task.epoch
             start == AddTask(tasks, x, "StartVerification", disp.now + StartDelay + Slack, 0)
             challenge == AddTask(tasks, x, "Challenge", disp.now, 0)
  <2>1. /\ IsFiniteSet(tasks) /\ disp.now \in Nat /\ x \in Epochs
        /\ disp.task.kind = "ValidateClaim"
    BY <1>3 DEF Judge, Doing, Busy, Typed, ProcessTypeOK, PassOK, HoldsTask, Dispatching, Task
  <2>2. HasRelay(start, e) /\ HasRelay(challenge, e)
    BY AddHasRelay
  <2>3. start \in SUBSET Task /\ challenge \in SUBSET Task
    <3>1. {"StartVerification", "Challenge"} \subseteq Kinds /\ 0 \in Nat
      BY DEF Kinds
    <3>2. disp.now + StartDelay + Slack \in Nat
      BY <2>1, ChainsAssumption, ProcessAssumption
    <3> QED
      BY <1>0, <2>1, <3>1, <3>2, AddTaskType
  <2>4. tasks' \in {start, challenge, RemoveTask(start, disp.task),
                   RemoveTask(challenge, disp.task)}
    BY <1>3 DEF Judge, Succeed
  <2> HIDE DEF start, challenge, x
  <2> QED
    BY <2>1, <2>2, <2>3, <2>4, RemoveHasRelay DEF Relays
<1>4. CASE CheckFinality \/ CheckHash \/ OutOfFunds
  <2>1. disp.phase \in Busy /\ disp.task.kind # "ExecuteRelay"
    BY <1>4 DEF CheckFinality, CheckHash, OutOfFunds, Doing, Busy
  <2>2. Ends \/ tasks' = tasks
    BY <1>4 DEF CheckFinality, CheckHash, OutOfFunds, Ends, Wait
  <2> QED
    BY <2>1, <2>2, EndKeepsRelay DEF Relays
<1>5. CASE CheckSpent
  <2>1. disp.phase = "spent" /\ disp.phase \in Busy
    BY <1>5 DEF CheckSpent, Doing, Busy
  <2>2. (Ends /\ disp.task.position \in spent) \/ tasks' = tasks
    BY <1>5 DEF CheckSpent, Ends, NoRequestFails, Wait
  <2> QED
    BY <2>1, <2>2, EndKeepsRelay DEF GivenUp
<1>6. CASE RequestFailed \/ BlockSearchFailed
  BY <1>6 DEF RequestFailed, BlockSearchFailed, NoRequestFails
<1>7. CASE \/ Confirmed \/ ChallengeFailed \/ StartVerificationFailed
           \/ VerifySnapshotFailed \/ WithdrawFailed \/ SendFailed \/ RelayFailed
  <2>1. Ends
    BY <1>7 DEF Ends, Confirmed, ChallengeFailed, StartVerificationFailed,
         VerifySnapshotFailed, DropIfEmitted, WithdrawFailed, SendFailed, RelayFailed,
         RescheduleIfInvalid
  <2>2. disp.phase = "result" /\ disp.phase \in Busy
    BY <1>7 DEF Confirmed, ChallengeFailed, StartVerificationFailed, VerifySnapshotFailed,
         WithdrawFailed, SendFailed, RelayFailed, Failed, Doing, Busy
  <2> QED
    BY <2>1, <2>2, EndKeepsRelay DEF GivenUp
<1> QED
  BY <1>1, <1>2, <1>3, <1>4, <1>5, <1>6, <1>7 DEF DispatcherStep, DispatcherFault, Work, Sending

(* The indexer takes a relay only when the dispute is over.                *)
LEMMA IndexerKeepsRelay ==
    ASSUME AllHold, IndexerStep \/ IndexerFault, NEW e \in Epochs, HasRelay(tasks, e)
    PROVE  HasRelay(tasks', e) \/ Closed(e)
<1>1. tasks \in SUBSET Task
  BY DEF AllHold, Typed, ProcessTypeOK
<1>2. \A x, kind, after, position : HasRelay(AddTask(tasks, x, kind, after, position), e)
  BY AddHasRelay
<1>3. ASSUME NEW cs, NEW torn, NEW new, NEW x, Commit(cs, torn, new, x),
             HasRelay(new, e), \A ts \in torn : HasRelay(ts, e)
      PROVE  HasRelay(tasks', e)
  BY <1>3 DEF Commit
<1>4. ASSUME NEW i \in idx.queue, HandleSnapshotSent(i) \/ HandleUnknown(i) \/ Begin(i)
      PROVE  HasRelay(tasks', e)
  BY <1>2, <1>4 DEF HandleSnapshotSent, HandleUnknown, Begin, Proceed, Schedule, Panic, storeVars
<1>5. ASSUME NEW i \in idx.queue, HandleClaimed(i)
      PROVE  HasRelay(tasks', e)
  <2>1. CASE Proceed(Handled(i)) \/ Panic("Duplicate claim")
    BY <2>1 DEF Proceed, Panic, storeVars
  <2>2. CASE Commit(StoreClaim(claims, log[i].epoch, NewClaim(log[i].arg, log[i].ts)), {tasks},
                    AddTask(tasks, log[i].epoch, "ValidateClaim", log[i].ts, 0), Handled(i))
    BY <1>2, <2>2 DEF Commit
  <2> QED
    BY <1>5, <2>1, <2>2 DEF HandleClaimed
<1>6. ASSUME NEW i \in idx.queue, BeginChallenged(i)
      PROVE  HasRelay(tasks', e)
  <2>1. HasRelay(Invalidate(tasks, log[i].epoch, Doomed), e)
    BY <1>1, InvalidateHasRelay DEF Doomed
  <2> QED
    BY <1>6, <2>1 DEF BeginChallenged, Commit
<1>7. CASE FinishVerificationStarted
  <2> DEFINE ev == log[idx.at]
             without == Invalidate(tasks, ev.epoch, {"StartVerification"})
             new == AddTask(without, ev.epoch, "VerifySnapshot",
                            ev.ts + ChallengePeriod + Slack, 0)
  <2>1. HasRelay(without, e)
    BY <1>1, InvalidateHasRelay
  <2>2. HasRelay(new, e)
    <3> HIDE DEF without
    <3> QED
      BY <2>1, AddHasRelay
  <2>3. tasks' \in {tasks, without, new}
    BY <1>7 DEF FinishVerificationStarted, Commit, Panic, storeVars
  <2> HIDE DEF without, new
  <2> QED
    BY <2>1, <2>2, <2>3
<1>8. CASE FinishChallenged
  BY <1>2, <1>8 DEF FinishChallenged, Schedule
<1>9. CASE FinishVerified
  <2> DEFINE ev == log[idx.at]
             without == Invalidate(tasks, ev.epoch, Doomed \cup {"ExecuteRelay"})
             new == AddTask(without, ev.epoch, "WithdrawDeposit", ev.ts, 0)
  <2>1. CASE ev.epoch = e
    <3>1. idx.phase = "await" /\ ev.kind = "Verified"
      BY <1>9 DEF FinishVerified, Awaits
    <3>2. idx.at \in DOMAIN log
      BY <3>1, AwaitedEntry DEF AllHold
    <3>3. Emitted("Verified", e) /\ Emitted("Claimed", e) /\ HashTells(e, claimHash[e])
      BY <2>1, <3>1, <3>2 DEF Emitted, AllHold, InOrder, ChainInOrder, LogOrdered
    <3> QED
      BY <3>3 DEF HashTells, Closed, IsOpen
  <2>2. CASE ev.epoch # e
    <3>1. HasRelay(without, e)
      BY <1>1, <2>2, InvalidateHasRelay
    <3>2. HasRelay(new, e)
      <4> HIDE DEF without
      <4> QED
        BY <3>1, AddHasRelay
    <3>3. tasks' \in {tasks, without, new}
      BY <1>9 DEF FinishVerified, Commit, Panic, storeVars
    <3> HIDE DEF without, new
    <3> QED
      BY <3>1, <3>2, <3>3
  <2> QED
    BY <2>1, <2>2
<1>10. CASE \/ ScanNothing \/ ScanChunk \/ ScanFailed \/ TargetSearchFailed
            \/ FinishChunk \/ HandlerFails
  BY <1>10 DEF ScanNothing, ScanChunk, ScanFailed, TargetSearchFailed, FinishChunk,
               HandlerFails, Panic, storeVars
<1> QED
  BY <1>4, <1>5, <1>6, <1>7, <1>8, <1>9, <1>10 DEF IndexerStep, IndexerFault, Handle

LEMMA RelayStays ==
    ASSUME AllHold, Disputes, RelaysCarry, AnsweredIsClosed, NoRequestFails, [Next]_vars,
           NEW e \in Epochs, Followed(e), HasRelay(tasks, e)
    PROVE  HasRelay(tasks', e) \/ Closed(e)'
<1>1. CASE Environment \/ FirstStart \/ Restart \/ Kill \/ UNCHANGED vars
  BY <1>1 DEF Environment, FirstStart, Restart, Start, Kill, vars, storeVars
<1>2. CASE IndexerStep \/ IndexerFault
  BY <1>2, IndexerKeepsRelay, ClosedStays
<1>3. CASE DispatcherStep \/ DispatcherFault
  <2>1. HasRelay(tasks', e) \/ GivenUp(e)
    BY <1>3, DispatcherKeepsRelay DEF AllHold
  <2>2. CASE GivenUp(e) /\ disp.phase = "result"
    BY <2>2, ClosedStays DEF GivenUp, AnsweredIsClosed
  <2>3. CASE GivenUp(e) /\ disp.phase = "spent" /\ disp.task.position \in spent
    <3>1. Carries(disp.task)
      BY <2>3 DEF RelaysCarry, Busy
    <3>2. PICK i \in spent : i = disp.task.position /\ sent[i].epoch = e
      BY <2>3, <3>1 DEF Carries, GivenUp, Relays
    <3>3. Closed(e)
      BY <3>2 DEF Disputes, SpentSettled, Closed
    <3> QED
      BY <3>3, ClosedStays
  <2> QED
    BY <2>1, <2>2, <2>3 DEF GivenUp
<1> QED
  BY <1>1, <1>2, <1>3 DEF Next

-----------------------------------------------------------------------------
(* Relays carry messages, and an answer is one way or the other the end.   *)

(* Where sent grows, a message that was there is still there.              *)
LEMMA CarriesStays ==
    ASSUME AllHold, [Next]_vars, NEW t, NEW u, SameAs(t, u), Carries(u)
    PROVE  Carries(t)'
<1>1. Grows
  BY ChainsStep, ChainStepType DEF AllHold, Typed
<1> QED
  BY <1>1 DEF Grows, Carries, SameAs

LEMMA RelaysCarryNext ==
    ASSUME AllHold, RelaysCarry, [Next]_vars
    PROVE  RelaysCarry'
<1>1. ASSUME NEW u \in tasks \cup disp.ready, NEW t, SameAs(t, u)
      PROVE  Carries(t)'
  BY <1>1, CarriesStays DEF RelaysCarry
<1>2. \A u \in tasks \cup disp.ready : Carries(u)'
  BY <1>1 DEF SameAs
<1>3. ASSUME NEW u, Carries(u)', disp'.task = u
      PROVE  Carries(disp.task)'
  BY <1>3 DEF Carries
<1>4. ASSUME disp.phase \in Busy, disp'.task = disp.task
       PROVE  Carries(disp.task)'
  <2>1. PICK u : u = disp.task
    OBVIOUS
  <2>2. Carries(u)'
    BY <1>4, <2>1, CarriesStays DEF RelaysCarry, SameAs
  <2> QED
    BY <1>3, <1>4, <2>1, <2>2
<1>5. ASSUME Inherited(tasks'), \A t \in disp'.ready : t \in tasks \cup disp.ready
      PROVE  \A t \in tasks' \cup disp'.ready : Carries(t)'
  BY <1>1, <1>2, <1>5 DEF Inherited, MessageTasks, Carries
<1>6. IdleDispatcher.ready = {} /\ IdleDispatcher.phase \notin Busy
  BY IdleType DEF Busy
<1>7. CASE Environment \/ FirstStart \/ Restart \/ Kill \/ UNCHANGED vars
  BY <1>4, <1>5, <1>6, <1>7, SameInherited
  DEF Environment, FirstStart, Restart, Start, Kill, Die, vars, storeVars, procVars, RelaysCarry
<1>8. CASE /\ IndexerStep \/ IndexerFault
           /\ ~FinishChallenged /\ \A i \in idx.queue : ~HandleSnapshotSent(i)
  BY <1>4, <1>5, <1>6, <1>8, IndexerSchedules DEF AllHold, RelaysCarry
<1>9. CASE FinishChallenged
  <2>1. disp' = disp /\ \A t \in tasks' : t \in tasks \/ t.kind = "SendSnapshot"
    BY <1>9, AddTaskFrom DEF FinishChallenged, Schedule
  <2> QED
    BY <1>2, <1>4, <2>1 DEF RelaysCarry, Carries
<1>10. ASSUME NEW i \in idx.queue, HandleSnapshotSent(i)
      PROVE  RelaysCarry'
  <2>1. i \in DOMAIN sent /\ disp' = disp /\ sent' = sent
    BY <1>10 DEF HandleSnapshotSent, Delivers, Proceed, Schedule, AllHold, Typed, ScanOK,
                indexerFrame, chainVars
  <2>2. ASSUME NEW t \in tasks', t \notin tasks
        PROVE  t.position = i /\ t.epoch = sent[i].epoch /\ sent[i].mine
    BY <1>10, <2>2 DEF HandleSnapshotSent, Proceed, Schedule, AddTask, storeVars
  <2>3. \A t \in tasks' : Carries(t)'
    BY <1>2, <2>1, <2>2 DEF Carries
  <2> QED
    BY <1>2, <1>4, <2>1, <2>3 DEF RelaysCarry
<1>11. CASE DispatcherStep \/ DispatcherFault
  <2>1. HandsOn
    BY <1>11, DispatcherHandsOn DEF AllHold
  <2>2. \A t \in tasks' \cup disp'.ready : Carries(t)'
    BY <1>5, <2>1 DEF HandsOn
  <2>3. ASSUME disp'.task \in disp.ready
        PROVE  Carries(disp.task)'
    BY <1>2, <1>3, <2>3
  <2> QED
    BY <1>4, <2>1, <2>2, <2>3 DEF HandsOn, RelaysCarry
<1> QED
  BY <1>7, <1>8, <1>9, <1>10, <1>11 DEF Next

(* This validator sends messages about claims that were made.              *)
LEMMA MessageClaimed ==
    ASSUME AllHold, Disputes, NEW i \in DOMAIN sent, sent[i].mine, NEW e, sent[i].epoch = e
    PROVE  e \in Epochs /\ Emitted("Claimed", e)
<1>1. sent \in Seq(Message)
  BY DEF AllHold, Typed, ChainsOK, ChainsTypeOK
<1>2. sent[i] \in Message
  BY <1>1, ElementOfSeq, LenProperties
<1>3. PICK x \in Epochs, c \in ClaimData : x = sent[i].epoch /\ c = sent[i].claim
  BY <1>2 DEF Message
<1> QED
  BY <1>3 DEF Disputes, MessagesResolve, Resolves

LEMMA AnswersOnly ==
    ASSUME Typed, DispatcherStep \/ DispatcherFault, disp'.phase = "result"
    PROVE  Land \/ Revert
<1>0. disp \in Dispatching
  BY DEF Typed, ProcessTypeOK
<1>1. \A ready, now : Pass(ready, now).phase # "result" /\ IdleDispatcher.phase # "result"
  BY DEF Pass, IdleDispatcher
<1>2. ~Poll
  BY <1>0 DEF Poll, Dispatching
<1>3. ~ReadNow /\ ~ReadNowFailed
  BY <1>1 DEF ReadNow, ReadNowFailed
<1>4. ASSUME NEW t \in disp.ready, BeginTask(t)
      PROVE  FALSE
  <2> DEFINE taken == [disp EXCEPT !.ready = @ \ {t}, !.task = t]
  <2>1. t.kind \in DOMAIN FirstWait => FirstWait[t.kind] # "result"
    BY DEF FirstWait
  <2>2. CASE t.kind \in DOMAIN FirstWait /\ disp' = [taken EXCEPT !.phase = FirstWait[t.kind]]
    <3>1. disp'.phase = FirstWait[t.kind]
      BY <1>0, <2>2 DEF Dispatching
    <3> QED
      BY <2>1, <2>2, <3>1
  <2>3. CASE disp' = [taken EXCEPT !.phase = "send", !.claim = claims[t.epoch]]
    BY <1>0, <2>3 DEF Dispatching
  <2>4. CASE disp' = Pass(disp.ready \ {t}, disp.now) \/ disp' = IdleDispatcher
    BY <1>1, <2>4
  <2> QED
    BY <1>4, <2>2, <2>3, <2>4 DEF BeginTask, Die
<1>5. ~Ends
  BY <1>1 DEF Ends, Complete, Reschedule, Keep, Forget, Succeed, MoveOn, Die
<1>6. ~CheckFinality /\ ~CheckHash /\ ~CheckSpent
  BY <1>0, <1>1, <1>5 DEF CheckFinality, CheckHash, CheckSpent, Ends, Wait, Die, Dispatching
<1>7. ~Judge
  BY <1>1 DEF Judge, Succeed, MoveOn, Die
<1>8. ~RequestFailed /\ ~BlockSearchFailed /\ ~OutOfFunds
  BY <1>1, <1>5 DEF RequestFailed, BlockSearchFailed, OutOfFunds, Ends, Die
<1>9. ~(\/ Confirmed \/ ChallengeFailed \/ StartVerificationFailed
        \/ VerifySnapshotFailed \/ WithdrawFailed \/ SendFailed \/ RelayFailed)
  BY <1>5 DEF Ends, Confirmed, ChallengeFailed, StartVerificationFailed,
       VerifySnapshotFailed, DropIfEmitted, WithdrawFailed, SendFailed, RelayFailed,
       RescheduleIfInvalid
<1> QED
  BY <1>2, <1>3, <1>4, <1>6, <1>7, <1>8, <1>9
  DEF DispatcherStep, DispatcherFault, Work, Sending

(* A relay that lands settles its claim; if it is refused, the claim was   *)
(* settled before, as the message was good.                                *)
LEMMA AnsweredIsClosedNext ==
    ASSUME AllHold, AllHold', Disputes, Disputes', RelaysCarry, AnsweredIsClosed,
           NoRequestFails, [Next]_vars
    PROVE  AnsweredIsClosed'
<1> SUFFICES ASSUME disp'.phase = "result", NEW e \in Epochs, Relays(disp'.task, e), Followed(e)'
             PROVE  Closed(e)'
  BY DEF AnsweredIsClosed
<1>1. ASSUME disp'.task = disp.task, disp.phase \in Busy
      PROVE  /\ Followed(e) /\ Emitted("Claimed", e)
             /\ disp.task.position \in DOMAIN sent
             /\ sent[disp.task.position].mine /\ sent[disp.task.position].epoch = e
  <2>1. /\ disp.task.position \in DOMAIN sent
        /\ sent[disp.task.position].mine /\ sent[disp.task.position].epoch = e
    BY <1>1 DEF RelaysCarry, Carries, Relays
  <2>2. Emitted("Claimed", e)
    BY <2>1, MessageClaimed
  <2> QED
    BY <2>1, <2>2, FollowedBack
<1>2. CASE disp' = disp
  BY <1>1, <1>2, ClosedStays DEF AnsweredIsClosed, Busy
<1>3. disp' # IdleDispatcher
  BY IdleType
<1>4. CASE Environment \/ FirstStart \/ Restart \/ Kill \/ UNCHANGED vars
  BY <1>2, <1>3, <1>4 DEF Environment, FirstStart, Restart, Start, Kill, Die, vars, procVars
<1>5. CASE IndexerStep \/ IndexerFault
  <2>1. CASE ~FinishChallenged /\ \A i \in idx.queue : ~HandleSnapshotSent(i)
    BY <1>2, <1>3, <1>5, <2>1, IndexerSchedules DEF AllHold
  <2>2. CASE FinishChallenged \/ \E i \in idx.queue : HandleSnapshotSent(i)
    BY <1>2, <2>2 DEF FinishChallenged, HandleSnapshotSent, Proceed, Schedule
  <2> QED
    BY <2>1, <2>2
<1>6. CASE DispatcherStep \/ DispatcherFault
  <2>1. Land \/ Revert
    BY <1>6, AnswersOnly DEF AllHold
  <2>2. disp'.task = disp.task /\ disp.phase \in Busy /\ disp.task.kind = "ExecuteRelay"
    BY <2>1 DEF Land, Revert, Answered, Relays, AllHold, Typed, ProcessTypeOK, Dispatching, Busy
  <2>3. PICK i \in DOMAIN sent : i = disp.task.position /\ sent[i].mine /\ sent[i].epoch = e
    BY <1>1, <2>2
  <2>4. CASE Land
    <3>1. Relay(i)
      BY <2>2, <2>3, <2>4 DEF Land, Transaction
    <3>2. i \in spent' /\ sent'[i].epoch = e
      BY <2>3, <3>1 DEF Relay
    <3> QED
      BY <3>2 DEF Disputes, SpentSettled, Closed
  <2>5. CASE Revert
    <3>1. ~CanRelay(i)
      BY <2>2, <2>3, <2>5 DEF Revert, NoRequestFails, CanLand
    <3>2. ~Open(e, claimHash[e])
      BY <1>1, <2>2, <2>3, <3>1, DisputesTell DEF SentIsResolvable
    <3>3. Closed(e)
      BY <1>1, <2>2, <3>2 DEF Open, Closed, IsOpen
    <3> QED
      BY <3>3, ClosedStays
  <2> QED
    BY <2>1, <2>4, <2>5
<1> QED
  BY <1>4, <1>5, <1>6 DEF Next
-----------------------------------------------------------------------------
(* The scan of the inbox meets no message but by handling it. *)

InboxMoves ==
    /\ InboxInOrder'
    /\ \A i \in DOMAIN sent' :
          Heard(i)' => i \in DOMAIN sent /\ (Heard(i) \/ (i \in idx.queue /\ HandleSnapshotSent(i)))

LEMMA InboxTypes ==
    ASSUME AllHold
    PROVE  /\ clock \in Nat /\ clock >= 1 /\ indexingSince \in Nat
           /\ inboxCursor \in Nat \cup {NoBlock} /\ NoBlock \notin Nat
           /\ idx \in Indexing /\ idx.to \in Nat /\ idx.target["inbox"] \in Nat
           /\ \A i \in DOMAIN sent : sent[i].ts \in Nat
           /\ Running => inboxCursor \in Nat
<1>1. ASSUME NEW i \in DOMAIN sent
      PROVE  sent[i].ts \in Nat
  <2>1. sent \in Seq(Message)
    BY DEF AllHold, Typed, ChainsOK, ChainsTypeOK
  <2>2. sent[i] \in Message
    BY <2>1, ElementOfSeq, LenProperties
  <2> QED
    BY <2>2 DEF Message
<1>2. idx \in Indexing /\ cursor \in [Sides -> Nat \cup {NoBlock}]
  BY DEF AllHold, Typed, ProcessTypeOK
<1>3. idx.to \in Nat /\ idx.target["inbox"] \in Nat
  BY <1>2 DEF Indexing, Sides
<1>4. inboxCursor \in Nat \cup {NoBlock} /\ (Running => inboxCursor \in Nat)
  BY <1>2 DEF inboxCursor, Sides, AllHold, Typed, ScanOK
<1> QED
  BY <1>1, <1>2, <1>3, <1>4, ScanTypes DEF AllHold

LEMMA QuietInbox ==
    ASSUME AllHold, InboxInOrder, UNCHANGED <<cursor, indexingSince>>, UNCHANGED chainVars,
           idx'.target["inbox"] < clock,
           \/ ~InboxChunk'
           \/ InboxChunk /\ InboxChunk' /\ idx'.to = idx.to /\ idx'.queue = idx.queue
    PROVE  InboxMoves
<1>1. inboxCursor' = inboxCursor /\ clock' = clock /\ sent' = sent
  BY DEF inboxCursor, chainVars
<1>2. InboxInOrder'
  BY <1>1 DEF InboxInOrder
<1>3. ASSUME NEW i \in DOMAIN sent, Heard(i)'
      PROVE  Heard(i)
  BY <1>1, <1>3 DEF Heard
<1> QED
  BY <1>1, <1>2, <1>3 DEF InboxMoves

LEMMA ChainInbox ==
    ASSUME AllHold, InboxInOrder, [Next]_vars, ChainStep(Epochs),
           UNCHANGED <<cursor, indexingSince, idx>>
    PROVE  InboxMoves
<1>1. inboxCursor' = inboxCursor /\ (InboxChunk' <=> InboxChunk)
  BY DEF inboxCursor, InboxChunk
<1>2. clock' \in Nat /\ clock <= clock' /\ Grows
  <2>1. ChainsOK' /\ Grows
    BY ChainStepType DEF AllHold, Typed
  <2>2. clock \in Nat /\ clock' \in Nat
    BY <2>1 DEF AllHold, Typed, ChainsOK, ChainsTypeOK
  <2>3. clock' = clock \/ clock' = clock + 1
    BY DEF ChainStep, Tick, Claim, Challenge, StartVerification, VerifySnapshot,
           SendSnapshot, WithdrawDeposit, Relay, chainVars
  <2> QED
    BY <2>1, <2>2, <2>3
<1>3. InboxInOrder'
  BY <1>1, <1>2, InboxTypes DEF InboxInOrder
<1>4. ASSUME NEW i \in DOMAIN sent, Heard(i)'
      PROVE  Heard(i)
  <2>1. sent'[i] = sent[i]
    BY <1>2 DEF Grows
  <2> QED
    BY <1>1, <1>4, <2>1 DEF Heard
<1>5. ASSUME NEW i \in DOMAIN sent', i \notin DOMAIN sent
      PROVE  ~Heard(i)'
  <2>1. PICK e \in Epochs, c \in ClaimData, own \in BOOLEAN : SendSnapshot(e, c, own)
    BY <1>5, SentMoves DEF AllHold
  <2> DEFINE m == [epoch |-> e, ts |-> clock, mine |-> own, claim |-> c]
  <2>2. sent' = Append(sent, m) /\ m.ts = clock
    BY <2>1 DEF SendSnapshot
  <2>3. m \in Message /\ sent \in Seq(Message)
    BY DEF Message, AllHold, Typed, ChainsOK, ChainsTypeOK
  <2> HIDE DEF m
  <2>4. sent'[i] = m
    BY <1>5, <2>2, <2>3, AppendProperties, LenProperties
  <2>5. sent'[i].ts = clock
    BY <2>2, <2>4
  <2> QED
    BY <1>1, <2>5, InboxTypes DEF Heard, InboxInOrder
<1> QED
  BY <1>3, <1>4, <1>5 DEF InboxMoves

LEMMA StartInbox ==
    ASSUME AllHold, InboxInOrder, FirstStart \/ Restart
    PROVE  InboxMoves
<1>1. /\ UNCHANGED chainVars /\ sent' = sent /\ clock' = clock /\ idx' = idx
      /\ \/ UNCHANGED <<cursor, indexingSince>>
         \/ indexingSince' = SyncStart /\ cursor' = [s \in Sides |-> SyncStart]
  BY DEF FirstStart, Restart, Start, chainVars
<1>2. idx = IdleIndexer
  BY DEF FirstStart, Restart, Start, AllHold, InStep, Running, Stopped
<1>3. ~InboxChunk' /\ idx'.target["inbox"] < clock
  BY <1>1, <1>2, InboxTypes DEF InboxChunk, IdleIndexer, Sides
<1>4. CASE UNCHANGED <<cursor, indexingSince>>
  BY <1>1, <1>3, <1>4, QuietInbox
<1>5. CASE indexingSince' = SyncStart /\ cursor' = [s \in Sides |-> SyncStart]
  <2>1. SyncStart \in Nat /\ SyncStart <= clock
    BY InboxTypes, ProcessAssumption DEF SyncStart, Truncated
  <2>2. inboxCursor' = SyncStart
    BY <1>5 DEF inboxCursor, Sides
  <2>3. InboxInOrder'
    BY <1>1, <1>3, <1>5, <2>1, <2>2 DEF InboxInOrder
  <2>4. ASSUME NEW i \in DOMAIN sent
        PROVE  ~Heard(i)'
    BY <1>1, <1>3, <1>5, <2>1, <2>2, InboxTypes DEF Heard
  <2> QED
    BY <1>1, <2>3, <2>4 DEF InboxMoves
<1> QED
  BY <1>1, <1>4, <1>5

LEMMA InboxTargetIsPast ==
    ASSUME AllHold, InboxInOrder
    PROVE  Target("inbox") \in Nat /\ Target("inbox") < clock
<1>1. FinalBlock \in Nat /\ FinalBlock < clock
  BY InboxTypes, ProcessAssumption DEF FinalBlock, Truncated
<1>2. idx.target["inbox"] \in Nat /\ idx.target["inbox"] < clock
  BY InboxTypes DEF InboxInOrder
<1> QED
  BY <1>1, <1>2 DEF Target

LEMMA ScanInbox ==
    ASSUME AllHold, InboxInOrder, ScanNothing \/ ScanFailed \/ ScanChunk \/ FinishChunk
    PROVE  InboxMoves
<1>1. /\ UNCHANGED chainVars /\ sent' = sent /\ clock' = clock
      /\ indexingSince' = indexingSince
  BY DEF ScanNothing, ScanFailed, ScanChunk, FinishChunk, indexerFrame, storeVars, chainVars
<1>2. /\ idx \in Indexing /\ idx.side \in Sides /\ idx.target["inbox"] < clock
      /\ clock \in Nat /\ clock >= 1
  BY InboxTypes DEF Indexing, InboxInOrder
<1>3. Target("inbox") \in Nat /\ Target("inbox") < clock
  BY InboxTargetIsPast
<1>4. CASE ScanNothing \/ ScanFailed
  <2>1. cursor' = cursor /\ idx'.phase = "query"
    BY <1>2, <1>4 DEF ScanNothing, ScanFailed, ScanResult, Indexing, Sides, storeVars
  <2>2. \/ idx'.target["inbox"] \in {0, idx.target["inbox"]}
        \/ idx'.target["inbox"] = Target("inbox")
    <3>1. CASE ScanNothing
      BY <1>2, <3>1 DEF ScanNothing, ScanResult, Indexing, Sides
    <3>2. CASE ScanFailed
      BY <1>2, <3>2 DEF ScanFailed, ScanResult, Indexing, Sides
    <3> QED
      BY <1>4, <3>1, <3>2
  <2>3. idx'.target["inbox"] < clock /\ ~InboxChunk'
    BY <1>2, <1>3, <2>1, <2>2 DEF InboxChunk
  <2> QED
    BY <1>1, <2>1, <2>3, QuietInbox
<1>5. CASE ScanChunk
  <2> DEFINE from == cursor[idx.side]
             to   == Least(from + Chunk, Target(idx.side))
  <2>1. /\ idx'.phase = "logs" /\ idx'.side = idx.side /\ idx'.to = to
        /\ idx'.queue = InRange(idx.side, from, to) /\ cursor' = cursor
        /\ idx'.target["inbox"] = IF idx.side = "inbox" THEN Target("inbox")
                                  ELSE idx.target["inbox"]
    BY <1>2, <1>5 DEF ScanChunk, Indexing, Sides, storeVars
  <2>2. CASE idx.side = "outbox"
    <3>1. ~InboxChunk' /\ idx'.target["inbox"] < clock
      BY <1>2, <2>1, <2>2 DEF InboxChunk
    <3> QED
      BY <1>1, <2>1, <3>1, QuietInbox
  <2>3. CASE idx.side = "inbox"
    <3>1. /\ from \in Nat /\ from = inboxCursor /\ inboxCursor' = from
          /\ to \in Nat /\ to < clock
      <4>1. from \in Nat /\ from = inboxCursor /\ inboxCursor' = from
        BY <1>5, <2>1, <2>3, InboxTypes DEF ScanChunk, inboxCursor
      <4>2. from + Chunk \in Nat
        BY <4>1, ProcessAssumption
      <4> QED
        BY <1>2, <1>3, <2>3, <4>1, <4>2 DEF Least
    <3>2. \A i \in DOMAIN sent : i \in idx'.queue <=> from <= sent[i].ts /\ sent[i].ts <= to
      BY <2>1, <2>3 DEF InRange, LogBlocks
    <3> HIDE DEF from, to
    <3>3. InboxInOrder'
      BY <1>1, <1>2, <1>3, <2>1, <2>3, <3>1, InboxTypes DEF InboxInOrder
    <3>4. ASSUME NEW i \in DOMAIN sent, Heard(i)'
          PROVE  Heard(i)
      <4>1. sent[i].ts \in Nat
        BY InboxTypes
      <4> QED
        BY <1>1, <2>1, <3>1, <3>2, <3>4, <4>1 DEF Heard
    <3> QED
      BY <1>1, <3>3, <3>4 DEF InboxMoves
  <2> QED
    BY <1>2, <2>2, <2>3 DEF Sides
<1>6. CASE FinishChunk
  <2>1. /\ idx'.phase = "query" /\ idx.phase = "logs" /\ idx.queue = {}
        /\ idx'.target["inbox"] \in {0, idx.target["inbox"]}
    BY <1>2, <1>6 DEF FinishChunk, ScanResult, Indexing, Sides
  <2>2. ~InboxChunk' /\ idx'.target["inbox"] < clock
    BY <1>2, <2>1 DEF InboxChunk
  <2>3. cursor' = [cursor EXCEPT ![idx.side] = idx.to] /\ cursor \in [Sides -> Nat \cup {NoBlock}]
    BY <1>6 DEF FinishChunk, AllHold, Typed, ProcessTypeOK
  <2>4. CASE idx.side = "outbox"
    <3>1. inboxCursor' = inboxCursor
      BY <2>3, <2>4 DEF inboxCursor, Sides
    <3>2. InboxInOrder'
      BY <1>1, <2>2, <3>1 DEF InboxInOrder
    <3>3. \A i \in DOMAIN sent : Heard(i)' => Heard(i)
      BY <1>1, <2>2, <3>1 DEF Heard
    <3> QED
      BY <1>1, <3>2, <3>3 DEF InboxMoves
  <2>5. CASE idx.side = "inbox"
    <3>1. inboxCursor' = idx.to
      BY <2>3, <2>5 DEF inboxCursor, Sides
    <3>2. InboxChunk /\ idx.to < clock /\ inboxCursor # NoBlock /\ idx.to \in Nat
      BY <2>1, <2>5, InboxTypes DEF InboxChunk, InboxInOrder
    <3>3. InboxInOrder'
      BY <1>1, <1>2, <2>2, <3>1, <3>2 DEF InboxInOrder
    <3>4. ASSUME NEW i \in DOMAIN sent, Heard(i)'
          PROVE  Heard(i)
      <4>1. sent[i].ts \in Nat
        BY InboxTypes
      <4>2. sent[i].ts <= idx.to /\ indexingSince <= sent[i].ts
        BY <1>1, <2>2, <3>1, <3>2, <3>4, <4>1 DEF Heard
      <4> QED
        BY <2>1, <3>2, <4>2 DEF Heard
    <3> QED
      BY <1>1, <3>3, <3>4 DEF InboxMoves
  <2> QED
    BY <1>2, <2>4, <2>5 DEF Sides
<1> QED
  BY <1>4, <1>5, <1>6

LEMMA HandleInbox ==
    ASSUME AllHold, InboxInOrder, Handle \/ HandlerFails
    PROVE  InboxMoves
<1>1. UNCHANGED chainVars /\ UNCHANGED <<cursor, indexingSince>>
  BY DEF Handle, HandlerFails, HandleSnapshotSent, HandleClaimed, HandleUnknown, Begin,
         BeginChallenged, FinishVerificationStarted, FinishChallenged, FinishVerified,
         Proceed, Schedule, Commit, Panic, storeVars, indexerFrame
<1>2. idx \in Indexing /\ idx.target["inbox"] < clock /\ clock \in Nat /\ clock >= 1
  BY InboxTypes DEF InboxInOrder
<1>3. CASE idx' = IdleIndexer
  <2>1. ~InboxChunk' /\ idx'.target["inbox"] < clock
    BY <1>2, <1>3 DEF InboxChunk, IdleIndexer, Sides
  <2> QED
    BY <1>1, <2>1, QuietInbox
<1>4. CASE idx'.side = "outbox" /\ idx'.target = idx.target
  BY <1>1, <1>2, <1>4, QuietInbox DEF InboxChunk
<1>5. ASSUME NEW i \in idx.queue, HandleSnapshotSent(i)
      PROVE  InboxMoves
  <2>1. /\ InboxChunk /\ InboxChunk' /\ idx'.to = idx.to /\ idx'.target = idx.target
        /\ idx'.queue = idx.queue \ {i}
    BY <1>2, <1>5 DEF HandleSnapshotSent, Delivers, Handled, Proceed, Schedule, InboxChunk, Indexing
  <2>2. inboxCursor' = inboxCursor /\ clock' = clock /\ sent' = sent
    BY <1>1 DEF inboxCursor, chainVars
  <2>3. InboxInOrder'
    BY <1>1, <2>1, <2>2 DEF InboxInOrder
  <2>4. ASSUME NEW j \in DOMAIN sent, Heard(j)', j # i
        PROVE  Heard(j)
    BY <1>1, <2>1, <2>2, <2>4 DEF Heard
  <2> QED
    BY <1>5, <2>2, <2>3, <2>4 DEF InboxMoves
<1>6. ASSUME NEW i \in idx.queue,
             HandleClaimed(i) \/ HandleUnknown(i) \/ Begin(i) \/ BeginChallenged(i)
      PROVE  idx' = IdleIndexer \/ (idx'.side = "outbox" /\ idx'.target = idx.target)
  <2>1. idx.side = "outbox"
    BY <1>6 DEF HandleClaimed, HandleUnknown, Begin, BeginChallenged, Delivers
  <2>2. \/ idx' = IdleIndexer \/ idx' = Handled(i) \/ idx' = Awaiting(i)
        \/ \E v : idx' = [Awaiting(i) EXCEPT !.verdict = v]
    BY <1>6 DEF HandleClaimed, HandleUnknown, Begin, BeginChallenged, Proceed, Commit, Panic, Die
  <2> QED
    BY <1>2, <2>1, <2>2 DEF Handled, Awaiting, Indexing
<1>7. CASE FinishVerificationStarted \/ FinishChallenged \/ FinishVerified
  <2>1. idx.side = "outbox"
    BY <1>7 DEF FinishVerificationStarted, FinishChallenged, FinishVerified, Awaits,
                AllHold, Typed, ScanOK
  <2>2. idx' = IdleIndexer \/ idx' = Resumed
    BY <1>7 DEF FinishVerificationStarted, FinishChallenged, FinishVerified, Schedule,
                Commit, Panic, Die
  <2>3. idx' = IdleIndexer \/ (idx'.side = "outbox" /\ idx'.target = idx.target)
    BY <1>2, <2>1, <2>2 DEF Resumed, Indexing
  <2> QED
    BY <1>3, <1>4, <2>3
<1>8. CASE HandlerFails
  BY <1>3, <1>8 DEF HandlerFails, Panic, Die
<1> QED
  BY <1>3, <1>4, <1>5, <1>6, <1>7, <1>8 DEF Handle

LEMMA NextInbox ==
    ASSUME AllHold, InboxInOrder, [Next]_vars
    PROVE  InboxMoves
<1>1. CASE Environment
  BY <1>1, ChainsStep, ChainInbox DEF AllHold, Environment, storeVars, procVars
<1>2. CASE FirstStart \/ Restart
  BY <1>2, StartInbox
<1>3. CASE UNCHANGED vars
  <2>1. UNCHANGED chainVars /\ UNCHANGED <<cursor, indexingSince, idx>>
    BY <1>3 DEF vars, storeVars, procVars
  <2> QED
    BY <2>1, QuietInbox DEF InboxChunk, InboxInOrder
<1>4. ASSUME UNCHANGED chainVars, UNCHANGED <<cursor, indexingSince>>,
             idx' = idx \/ idx' = IdleIndexer
      PROVE  InboxMoves
  <2>1. CASE idx' = idx
    BY <1>4, <2>1, QuietInbox DEF InboxChunk, InboxInOrder
  <2>2. CASE idx' = IdleIndexer
    BY <1>4, <2>2, QuietInbox, InboxTypes DEF InboxChunk, IdleIndexer, Sides
  <2> QED
    BY <1>4, <2>1, <2>2
<1>5. CASE Kill
  BY <1>4, <1>5 DEF Kill, Die, storeVars
<1>6. CASE IndexerStep \/ IndexerFault
  <2>1. CASE TargetSearchFailed
    BY <1>4, <2>1 DEF TargetSearchFailed, Panic, Die, storeVars, indexerFrame
  <2> QED
    BY <1>6, <2>1, ScanInbox, HandleInbox DEF IndexerStep, IndexerFault
<1>7. CASE Land
  BY <1>7, ChainsStep, ChainInbox DEF AllHold, Land, dispatcherFrame
<1>8. CASE (DispatcherStep \/ DispatcherFault) /\ ~Land
  BY <1>4, <1>8, TaskMoves
<1> QED
  BY <1>1, <1>2, <1>3, <1>5, <1>6, <1>7, <1>8 DEF Next
-----------------------------------------------------------------------------
(* A message is handled by scheduling its relay, and the relay stays.      *)
LEMMA HandledIsRelayed ==
    ASSUME NEW i, NEW e, sent[i].mine, sent[i].epoch = e, HandleSnapshotSent(i)
    PROVE  HasRelay(tasks', e)
<1>1. CASE HasTask(e, {"ExecuteRelay"}) /\ tasks' = tasks
  BY <1>1 DEF HasTask, TasksOf, HasRelay, Relays
<1>2. ASSUME NEW after, tasks' = AddTask(tasks, e, "ExecuteRelay", after, i)
      PROVE  HasRelay(tasks', e)
  <2>1. PICK t : t = [place |-> 1 + Cardinality(tasks), epoch |-> e, kind |-> "ExecuteRelay",
                      after |-> after, position |-> i]
    OBVIOUS
  <2>2. t \in tasks'
    BY <1>2, <2>1 DEF AddTask
  <2>3. Relays(t, e)
    BY <2>1 DEF Relays
  <2> QED
    BY <2>2, <2>3 DEF HasRelay
<1>3. \/ HasTask(e, {"ExecuteRelay"}) /\ tasks' = tasks
      \/ tasks' = AddTask(tasks, e, "ExecuteRelay", sent[i].ts + RelayDelay, i)
  BY DEF HandleSnapshotSent, Proceed, Schedule, storeVars
<1> QED
  BY <1>1, <1>2, <1>3

LEMMA HeardIsRelayedNext ==
    ASSUME AllHold, AllHold', Disputes, Disputes', InboxInOrder, RelaysCarry, AnsweredIsClosed,
           HeardIsRelayed, NoRequestFails, [Next]_vars
    PROVE  HeardIsRelayed'
<1> SUFFICES ASSUME NEW i \in DOMAIN sent', NEW e \in Epochs, sent'[i].mine,
                    sent'[i].epoch = e, Followed(e)', Heard(i)'
             PROVE  HasRelay(tasks', e) \/ Closed(e)'
  BY DEF HeardIsRelayed
<1>1. Grows
  BY ChainsStep, ChainStepType DEF AllHold, Typed
<1>2. i \in DOMAIN sent /\ (Heard(i) \/ HandleSnapshotSent(i))
  BY NextInbox DEF InboxMoves
<1>3. sent[i].mine /\ sent[i].epoch = e
  BY <1>1, <1>2 DEF Grows
<1>4. Emitted("Claimed", e)
  BY <1>2, <1>3, MessageClaimed
<1>5. Followed(e)
  BY <1>4, FollowedBack
<1>6. CASE Heard(i)
  <2>1. HasRelay(tasks, e) \/ Closed(e)
    BY <1>2, <1>3, <1>5, <1>6 DEF HeardIsRelayed
  <2> QED
    BY <1>5, <2>1, RelayStays, ClosedStays
<1>7. CASE HandleSnapshotSent(i)
  BY <1>3, <1>7, HandledIsRelayed
<1> QED
  BY <1>2, <1>6, <1>7

LEMMA NextRelaying ==
    ASSUME NoRequestFails
    PROVE  AllHold /\ AllHold' /\ Disputes /\ Disputes' /\ Relaying /\ [Next]_vars => Relaying'
BY NextInbox, RelaysCarryNext, AnsweredIsClosedNext, HeardIsRelayedNext
   DEF Relaying, InboxMoves

LEMMA InitRelaying == Init => Relaying
<1> SUFFICES ASSUME Init PROVE Relaying
  OBVIOUS
<1>1. /\ clock = 1 /\ DOMAIN sent = {} /\ tasks = {} /\ disp.ready = {} /\ disp.phase = "idle"
      /\ inboxCursor = NoBlock /\ idx.phase = "query" /\ idx.target["inbox"] = 0
  BY DEF Init, ChainsInit, ProcessInit, IdleDispatcher, IdleIndexer, inboxCursor, Sides
<1> QED
  BY <1>1 DEF Relaying, InboxInOrder, InboxChunk, RelaysCarry, AnsweredIsClosed,
              HeardIsRelayed, Busy

LEMMA RelayingTells == AllHold /\ Disputes /\ Relaying /\ AllFollowed => MessagesFollowed
<1> SUFFICES ASSUME AllHold, Disputes, Relaying, AllFollowed,
                    NEW i \in DOMAIN sent, sent[i].mine, CanRelay(i),
                    inboxCursor # NoBlock, indexingSince < inboxCursor,
                    indexingSince <= sent[i].ts, sent[i].ts <= inboxCursor
             PROVE  TasksOf(tasks, sent[i].epoch, {"ExecuteRelay"}) # {}
  BY DEF MessagesFollowed, inboxCursor
<1>1. PICK e \in Epochs : e = sent[i].epoch /\ Emitted("Claimed", e)
  BY MessageClaimed
<1>2. Followed(e)
  BY <1>1 DEF AllFollowed
<1>3. sent[i].ts < inboxCursor \/ sent[i].ts = inboxCursor
  BY InboxTypes
<1>4. Heard(i)
  BY <1>3 DEF Heard
<1>5. ~Closed(e)
  BY <1>1 DEF CanRelay, Open, Closed, IsOpen
<1>6. HasRelay(tasks, e)
  BY <1>1, <1>2, <1>4, <1>5 DEF Relaying, HeardIsRelayed
<1> QED
  BY <1>1, <1>6 DEF HasRelay, Relays, TasksOf

(* A message of this validator that the inbox cursor has passed            *)
(* (indexer.rs, handle_snapshot_sent) and that can still settle its        *)
(* dispute waits in the schedule to be relayed (execute_relay.rs), whatever *)
(* is killed, sent twice, loses its receipt or is relayed first by others. *)
(* It is so where no request fails, the relay's preview included, and no   *)
(* root is still unconfirmed: the dispatcher removes a task it reschedules *)
(* (dispatcher.rs), so one such answer loses the relay.                    *)
THEOREM MessagesAreFollowed ==
    ASSUME Faults \cap {"rpc", "unconfirmed"} = {}
    PROVE  Spec /\ []AllFollowed => []MessagesFollowed
<1>1. NoRequestFails
  BY DEF NoRequestFails
<1>2. AllHold /\ AllHold' /\ Disputes /\ Disputes' /\ Relaying /\ [Next]_vars => Relaying'
  BY <1>1, NextRelaying
<1>3. Spec => []AllHold
  BY Invariance
<1>4. Spec => []Disputes
  BY <1>3, InitDisputes, NextDisputes, PTL DEF Spec
<1>5. Spec => []Relaying
  BY <1>2, <1>3, <1>4, InitRelaying, PTL DEF Spec
<1> QED
  BY <1>3, <1>4, <1>5, RelayingTells, PTL
=============================================================================
