------------------------- MODULE BlockSearchProofs --------------------------
(***************************************************************************)
(* The bisection answers as BlockLookup does, for every chain, target and  *)
(* number of attempts.  Bracketed needs Ordered: the probe of one block    *)
(* says something of all the blocks before it.  Both survive new blocks,   *)
(* which are not earlier than the latest one.                              *)
(***************************************************************************)
EXTENDS BlockSearch, SequenceTheorems, TLAPS

Ordered == \A m, n \in 0 .. Latest : m <= n => Time(m) <= Time(n)

Inv == TypeOK /\ Ordered /\ Bracketed

(* Blocks keep their times, and the latest time does not go down. *)
LEMMA MineGrows ==
    ASSUME TypeOK, Mine
    PROVE  /\ TypeOK'
           /\ Latest \in Nat /\ Latest' = Latest + 1
           /\ \A n \in 0 .. Latest : chain'[n + 1] = Time(n)
           /\ chain'[Latest + 2] \in Nat /\ chain'[Latest + 2] >= Time(Latest)
           /\ \A n \in 0 .. Latest : Time(n) \in Nat
<1>1. Len(chain) \in Nat /\ Len(chain) >= 1
  BY EmptySeq, LenProperties DEF TypeOK
<1>2. \A n \in 0 .. Latest : Time(n) \in Nat
  BY <1>1, ElementOfSeq DEF TypeOK, Latest, Time
<1>3. PICK t \in Time(Latest) .. MaxTime : chain' = Append(chain, t)
  BY DEF Mine
<1>4. t \in Nat /\ t >= Time(Latest)
  BY <1>1, <1>2, <1>3, SearchAssumption DEF Latest
<1>5. /\ chain' \in Seq(Nat) /\ Len(chain') = Len(chain) + 1
      /\ \A i \in 1 .. Len(chain) : chain'[i] = chain[i]
      /\ chain'[Len(chain) + 1] = t
  BY <1>3, <1>4, AppendProperties DEF TypeOK
<1>6. TypeOK'
  BY <1>1, <1>5, EmptySeq DEF TypeOK, Mine
<1> QED
  BY <1>1, <1>2, <1>4, <1>5, <1>6 DEF Latest, Time

LEMMA TimesType ==
    ASSUME TypeOK
    PROVE  Latest \in Nat /\ \A n \in 0 .. Latest : Time(n) \in Nat
<1>1. Len(chain) \in Nat /\ Len(chain) >= 1
  BY EmptySeq, LenProperties DEF TypeOK
<1> QED
  BY <1>1, ElementOfSeq DEF TypeOK, Latest, Time

LEMMA MidBetween ==
    ASSUME TypeOK, lo < hi
    PROVE  Mid \in Nat /\ lo <= Mid /\ Mid < hi
BY DEF TypeOK, Mid

LEMMA InitInv == Init => Inv
BY SearchAssumption DEF Init, Inv, TypeOK, Ordered, Bracketed, Phases, Latest, Time

(* A probe leaves the bracket around the answer, closed or not.            *)
LEMMA ProbeNarrows ==
    ASSUME Inv, Probe
    PROVE  /\ lo' \in Nat /\ hi' \in Nat /\ lo' <= hi' /\ hi' <= Latest
           /\ target <= Time(hi') /\ target < Time(Latest)
           /\ \A m \in 0 .. lo' - 1 : Time(m) < target
<1> USE DEF Inv
<1>1. /\ lo < hi /\ Mid \in Nat /\ lo <= Mid /\ Mid < hi /\ hi <= Latest
      /\ target <= Time(hi) /\ target < Time(Latest)
      /\ \A m \in 0 .. lo - 1 : Time(m) < target
  BY MidBetween DEF Probe, Bracketed
<1>2. Mid \in 0 .. Latest /\ Latest \in Nat /\ lo \in Nat /\ hi \in Nat /\ target \in Nat
  BY <1>1, TimesType DEF TypeOK
<1>3. Time(Mid) \in Nat
  BY <1>2, TimesType
<1>4. CASE Time(Mid) < target
  <2>1. \A m \in 0 .. Mid : Time(m) < target
    BY <1>1, <1>2, <1>4, TimesType DEF Ordered
  <2>2. lo' = Mid + 1 /\ hi' = hi
    BY <1>4 DEF Probe, Loop
  <2> QED
    BY <1>1, <1>2, <2>1, <2>2
<1>5. CASE ~(Time(Mid) < target)
  <2>1. lo' = lo /\ hi' = Mid
    BY <1>5 DEF Probe, Loop
  <2> QED
    BY <1>1, <1>2, <1>3, <1>5, <2>1
<1> QED
  BY <1>4, <1>5

LEMMA NextInv == Inv /\ [Next]_vars => Inv'
<1> SUFFICES ASSUME Inv, [Next]_vars PROVE Inv'
  OBVIOUS
<1> USE SearchAssumption DEF Inv
<1>1. CASE Mine
  <2>1. UNCHANGED <<phase, target, lo, hi>>
    BY <1>1 DEF Mine
  <2>2. lo \in Nat /\ hi \in Nat /\ target \in Nat
    BY DEF TypeOK
  <2>3. Latest \in Nat /\ Latest' = Latest + 1
    BY <1>1, MineGrows
  <2>4. Time(Latest) \in Nat
    BY <2>3, TimesType
  <2>5. ASSUME phase = "probe"
        PROVE  /\ lo < hi /\ hi <= Latest' /\ hi \in 0 .. Latest /\ Latest \in Nat
               /\ target <= Time(hi) /\ target < Time(Latest)
               /\ \A m \in 0 .. lo - 1 : m \in 0 .. Latest /\ Time(m) < target
    BY <2>2, <2>3, <2>5 DEF Bracketed
  <2>6. ASSUME phase = "probe"
        PROVE  /\ target <= chain'[hi + 1] /\ target < chain'[Latest + 2]
               /\ \A m \in 0 .. lo - 1 : chain'[m + 1] < target
    <3>1. chain'[hi + 1] = Time(hi) /\ \A m \in 0 .. lo - 1 : chain'[m + 1] = Time(m)
      BY <1>1, <2>5, <2>6, MineGrows
    <3> QED
      BY <1>1, <2>2, <2>4, <2>5, <2>6, <3>1, MineGrows
  <2>7. Bracketed'
    BY <1>1, <2>1, <2>5, <2>6, MineGrows DEF Bracketed, Time
  <2>8. \A n \in 0 .. Latest : chain'[n + 1] <= chain'[Latest + 2]
    <3> SUFFICES ASSUME NEW n \in 0 .. Latest PROVE chain'[n + 1] <= chain'[Latest + 2]
      OBVIOUS
    <3>1. Latest \in 0 .. Latest /\ n <= Latest
      BY <1>1, MineGrows
    <3>2. Time(n) <= Time(Latest) /\ Time(n) \in Nat /\ Time(Latest) \in Nat
      BY <1>1, <3>1, MineGrows DEF Ordered
    <3> QED
      BY <1>1, <3>2, MineGrows
  <2>9. ASSUME NEW m \in 0 .. Latest + 1, NEW n \in 0 .. Latest + 1, m <= n
        PROVE  chain'[m + 1] <= chain'[n + 1]
    <3>1. CASE n \in 0 .. Latest
      <4>1. m \in 0 .. Latest
        BY <1>1, <2>9, <3>1, MineGrows
      <4>2. Time(m) <= Time(n)
        BY <2>9, <3>1, <4>1 DEF Ordered
      <4> QED
        BY <1>1, <3>1, <4>1, <4>2, MineGrows
    <3>2. CASE n = Latest + 1
      BY <1>1, <2>8, <2>9, <3>2, MineGrows
    <3> QED
      BY <1>1, <3>1, <3>2, MineGrows
  <2> QED
    BY <1>1, <2>7, <2>9, MineGrows DEF Ordered, Time
<1>2. CASE Ask
  BY <1>2 DEF Ask, TypeOK, Ordered, Bracketed, Phases, Latest, Time
<1>3. CASE ReadLatest
  BY <1>3, TimesType DEF ReadLatest, Loop, TypeOK, Ordered, Bracketed, Phases, Latest, Time
<1>4. CASE Probe
  <2>1. /\ UNCHANGED <<chain, target>>
        /\ phase' = (IF lo' < hi' THEN "probe" ELSE "done") /\ attempt' = 0
    BY <1>4 DEF Probe, Loop
  <2>2. Bracketed'
    BY <1>4, <2>1, ProbeNarrows DEF Bracketed, Latest, Time
  <2>3. lo' \in Nat /\ hi' \in Nat
    BY <1>4, ProbeNarrows
  <2>4. TypeOK'
    BY <2>1, <2>3 DEF TypeOK, Phases
  <2>5. Ordered'
    BY <2>1 DEF Ordered, Latest, Time
  <2> QED
    BY <2>2, <2>4, <2>5
<1>5. CASE RequestFails
  <2>1. UNCHANGED <<chain, target, lo, hi>> /\ phase' \in {phase, "panicked"}
        /\ attempt' \in 0 .. Attempts - 1
    BY <1>5 DEF RequestFails, GiveUp, TypeOK
  <2> QED
    BY <2>1 DEF TypeOK, Ordered, Bracketed, Phases, Latest, Time
<1>6. CASE BlockMissing
  BY <1>6 DEF BlockMissing, GiveUp, TypeOK, Ordered, Bracketed, Phases, Latest, Time
<1>7. CASE UNCHANGED vars
  BY <1>7 DEF vars, TypeOK, Ordered, Bracketed, Latest, Time
<1> QED
  BY <1>1, <1>2, <1>3, <1>4, <1>5, <1>6, <1>7 DEF Next, Request

(* The search ends with the answer: the bracket has closed on it.          *)
LEMMA ClosedBracket ==
    ASSUME TypeOK, NEW n \in 0 .. Latest, target <= Time(n), target < Time(Latest),
           \A m \in 0 .. n - 1 : Time(m) < target
    PROVE  Lookup!Answers(n, target)
BY TimesType DEF TypeOK, Lookup!Answers, Lookup!Latest, Lookup!Time, Latest, Time

LEMMA InitLookup == Init => Lookup!Init
BY SearchAssumption DEF Init, Lookup!Init, Searching

LEMMA NextLookup == Inv /\ [Next]_vars => [Lookup!Next]_Lookup!vars
<1> SUFFICES ASSUME Inv, [Next]_vars PROVE [Lookup!Next]_Lookup!vars
  OBVIOUS
<1> USE SearchAssumption DEF Inv
<1>1. CASE Mine
  <2>1. PICK t \in Time(Latest) .. MaxTime : chain' = Append(chain, t)
    BY <1>1 DEF Mine
  <2>2. t \in Nat /\ t >= Time(Latest) /\ chain'[Len(chain')] = t
        /\ Len(chain') = Len(chain) + 1
    <3>1. Latest \in 0 .. Latest /\ Time(Latest) \in Nat
      BY TimesType
    <3>2. t \in Nat /\ t >= Time(Latest)
      BY <2>1, <3>1
    <3> QED
      BY <2>1, <3>2, AppendProperties DEF TypeOK
  <2> QED
    BY <1>1, <2>1, <2>2
    DEF Mine, Searching, Latest, Time, Lookup!Next, Lookup!Mine, Lookup!Latest, Lookup!Time
<1>2. CASE Ask
  BY <1>2 DEF Ask, Searching, TypeOK, Lookup!Next, Lookup!Ask
<1>3. CASE ReadLatest
  <2>1. CASE target >= Time(Latest)
    <3>1. Lookup!Answers(Latest, target)
      BY <2>1, TimesType DEF Lookup!Answers, Lookup!Latest, Lookup!Time, Latest, Time
    <3> QED
      BY <1>3, <2>1, <3>1, TimesType
      DEF ReadLatest, Loop, Searching, Lookup!Next, Lookup!Reply
  <2>2. CASE ~(target >= Time(Latest))
    <3>1. CASE 0 < Latest
      BY <1>3, <2>2, <3>1 DEF ReadLatest, Loop, Searching, Lookup!vars
    <3>2. CASE ~(0 < Latest)
      <4>1. Latest = 0 /\ Time(Latest) \in Nat /\ target \in Nat
        BY <3>2, TimesType DEF TypeOK
      <4>2. Lookup!Answers(0, target)
        BY <2>2, <4>1, ClosedBracket
      <4> QED
        BY <1>3, <2>2, <3>2, <4>2
        DEF ReadLatest, Loop, Searching, Lookup!Next, Lookup!Reply
    <3> QED
      BY <3>1, <3>2
  <2> QED
    BY <2>1, <2>2
<1>4. CASE Probe
  <2>1. CASE phase' = "probe"
    BY <1>4, <2>1 DEF Probe, Loop, Searching, Lookup!vars
  <2>2. CASE phase' # "probe"
    <3>1. lo' = hi' /\ lo' \in 0 .. Latest
      BY <1>4, <2>2, ProbeNarrows, TimesType DEF Probe, Loop
    <3>2. Lookup!Answers(lo', target)
      BY <1>4, <3>1, ProbeNarrows, ClosedBracket
    <3> QED
      BY <1>4, <2>2, <3>2 DEF Probe, Loop, Searching, Lookup!Next, Lookup!Reply
  <2> QED
    BY <2>1, <2>2
<1>5. CASE RequestFails
  BY <1>5 DEF RequestFails, GiveUp, Searching, Lookup!Next, Lookup!GiveUp, Lookup!vars
<1>6. CASE BlockMissing
  BY <1>6 DEF BlockMissing, GiveUp, Searching, Lookup!Next, Lookup!GiveUp
<1>7. CASE UNCHANGED vars
  BY <1>7 DEF vars, Searching, Lookup!vars
<1> QED
  BY <1>1, <1>2, <1>3, <1>4, <1>5, <1>6, <1>7 DEF Next, Request

(* What the search has excluded stays excluded, however many blocks are    *)
(* mined between two of its requests (find_block_by_timestamp).            *)
THEOREM BracketHolds == Spec => []Bracketed
<1>1. Spec => []Inv
  BY InitInv, NextInv, PTL DEF Spec
<1>2. Inv => Bracketed
  BY DEF Inv
<1> QED
  BY <1>1, <1>2, PTL

(* The search answers as if it had read the whole chain at the moment of   *)
(* the answer (find_block_by_timestamp).                                   *)
THEOREM SearchImplementsLookup == Spec => SearchIsLookup
<1>1. Init => Lookup!Init
  BY InitLookup
<1>2. Inv /\ [Next]_vars => [Lookup!Next]_Lookup!vars
  BY NextLookup
<1>3. Spec => []Inv
  BY InitInv, NextInv, PTL DEF Spec
<1> QED
  BY <1>1, <1>2, <1>3, PTL DEF Spec, SearchIsLookup, Lookup!Spec
=============================================================================
