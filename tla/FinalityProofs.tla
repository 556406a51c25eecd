--------------------------- MODULE FinalityProofs ---------------------------
(***************************************************************************)
(* The finality check is right in both of its answers, for every range,    *)
(* number of pages and depth.  What the two proofs share is Settled: which *)
(* blocks a reorganisation can no longer reach.                            *)
(***************************************************************************)
EXTENDS Finality, SequenceTheorems, TLAPS

(* A final block stays, and so does one found so deep that it may become   *)
(* final while the final block is asked for.                               *)
Settled ==
    /\ Tip <= top /\ top - ReorgDepth <= Tip
    /\ final = 0 \/ final <= top - Depth
    /\ asked.final <= final /\ asked.l2 <= l2

BatchOK ==
    phase \in {"batch", "latest", "start", "logs", "finalized"} =>
        batch >= 1 /\ batch >= Least(l2End, asked.l2)

FoundOK ==
    phase = "finalized" =>
        /\ found >= 1 /\ found <= seen /\ seen <= top /\ top <= seen + Slack
        /\ found <= seen - ReorgDepth => found <= Tip /\ l1[found] = batch

PagesOK == phase = "logs" => from >= 1 /\ pages < MaxIterations

YesInv == TypeOK /\ Settled /\ BatchOK /\ PagesOK /\ FoundOK /\ YesIsFinal

DeliveredOnce ==
    \A m, n \in 1 .. Tip : l1[m] = l1[n] /\ l1[m] # 0 => m = n

(* The batch, if it was in a final block when the question was asked.      *)
Overlooked(n) == n \in 1 .. asked.final /\ l1[n] = batch

Reached(i) == i * (SearchRange + 1)

SearchOK ==
    /\ phase \in {"start", "logs", "finalized"} => latest > asked.final
    /\ phase \in {"logs", "finalized", "no"} => start >= 1
    /\ phase \in {"logs", "no"} =>
          \A n \in start .. from - 1 : ~ Overlooked(n)
    /\ phase = "logs" =>
          /\ from >= start /\ from < latest
          /\ from = start + Reached(pages)
    /\ phase = "finalized" => \A n \in Nat : Overlooked(n) => n = found

NoInv == YesInv /\ DeliveredOnce /\ SearchOK /\ NoIsRight

USE FinalityAssumption

LEMMA Lengths ==
    ASSUME TypeOK
    PROVE  Tip \in Nat \ {0} /\ \A n \in 1 .. Tip : l1[n] \in Nat
BY EmptySeq, LenProperties, ElementOfSeq DEF TypeOK, Tip

LEMMA LeastType ==
    ASSUME NEW a \in Nat, NEW b \in Nat
    PROVE  /\ Least(a, b) \in Nat /\ Least(a, b) <= a /\ Least(a, b) <= b
           /\ Least(a, b) = a \/ Least(a, b) = b
BY DEF Least

LEMMA InitInv == Init => YesInv /\ NoInv
<1> SUFFICES ASSUME Init PROVE YesInv /\ NoInv
  OBVIOUS
<1>1. Tip = 1 /\ l1 \in Seq(Nat) /\ l1 # <<>> /\ l1[1] = 0
  BY DEF Init, Tip
<1>2. TypeOK
  BY <1>1 DEF Init, TypeOK, Answers, Requests
<1> QED
  BY <1>1, <1>2 DEF Init, YesInv, NoInv, Settled, BatchOK, PagesOK, FoundOK,
     YesIsFinal, DeliveredOnce, SearchOK, NoIsRight

-----------------------------------------------------------------------------
(* What the chains do: nothing settled changes.                            *)

Kept ==
    /\ \A n \in 1 .. Tip : n <= top - ReorgDepth => n <= Tip' /\ l1'[n] = l1[n]
    /\ top' >= top /\ final' >= final /\ l2' >= l2

LEMMA MineKeeps ==
    ASSUME TypeOK, Settled, Mine
    PROVE  TypeOK' /\ Settled' /\ Kept /\ Tip' = Tip + 1
<1>1. PICK k \in 0 .. l2 : MayDeliver(k) /\ l1' = Append(l1, k)
  BY DEF Mine
<1>2. k \in Nat /\ l1 \in Seq(Nat)
  BY DEF TypeOK
<1>3. /\ l1' \in Seq(Nat) /\ l1' # <<>> /\ Tip' = Tip + 1
      /\ \A n \in 1 .. Tip : l1'[n] = l1[n]
  BY <1>1, <1>2, AppendProperties, EmptySeq, LenProperties DEF Tip
<1>4. Tip \in Nat /\ top' = IF Tip + 1 > top THEN Tip + 1 ELSE top
  BY Lengths DEF Mine
<1>5. TypeOK'
  BY <1>3, <1>4 DEF TypeOK, Mine, chains, search
<1>6. UNCHANGED <<final, l2, asked>> /\ top \in Nat /\ top' >= top /\ top' \in Nat
  BY <1>4 DEF Mine, TypeOK
<1>7. Settled'
  BY <1>3, <1>4, <1>6 DEF Settled, TypeOK
<1>8. Kept
  BY <1>3, <1>4, <1>6 DEF Kept, TypeOK
<1> QED
  BY <1>3, <1>5, <1>7, <1>8

LEMMA ReorgKeeps ==
    ASSUME TypeOK, Settled, Reorg
    PROVE  /\ TypeOK' /\ Settled' /\ Kept
           /\ Tip' < Tip /\ \A n \in 1 .. Tip' : l1'[n] = l1[n]
<1>1. PICK n \in 1 .. Tip - 1 : n >= top - ReorgDepth /\ l1' = SubSeq(l1, 1, n)
  BY DEF Reorg
<1>2. Tip \in Nat /\ l1 \in Seq(Nat)
  BY Lengths DEF TypeOK
<1>3. /\ l1' \in Seq(Nat) /\ Tip' = n
      /\ \A m \in 1 .. n : l1'[m] = l1[m]
  BY <1>1, <1>2, SubSeqProperties DEF Tip
<1>4. l1' # <<>>
  BY <1>1, <1>2, <1>3, EmptySeq DEF Tip
<1>5. TypeOK'
  BY <1>3, <1>4 DEF TypeOK, Reorg, search
<1>6. UNCHANGED <<top, final, l2, asked>> /\ top \in Nat
  BY DEF Reorg, TypeOK
<1>7. Settled'
  BY <1>1, <1>2, <1>3, <1>6 DEF Settled
<1>8. Kept
  BY <1>1, <1>2, <1>3, <1>6 DEF Kept, TypeOK
<1> QED
  BY <1>1, <1>2, <1>3, <1>5, <1>7, <1>8

LEMMA ChainKeeps ==
    ASSUME TypeOK, Settled, Chain
    PROVE  /\ TypeOK' /\ Settled' /\ Kept
           /\ UNCHANGED <<l1End, l2End, search, asked, phase>>
<1>1. CASE Mine
  BY <1>1, MineKeeps DEF Mine
<1>2. CASE Reorg
  BY <1>2, ReorgKeeps DEF Reorg
<1>3. CASE Finalise
  <2>1. UNCHANGED <<l1, top, l2, l1End, l2End, search, asked, phase>>
    BY <1>3 DEF Finalise
  <2>2. Tip' = Tip /\ Tip \in Nat
    BY <2>1, Lengths DEF Tip
  <2>3. final' \in Nat /\ final' > final /\ final' <= top - Depth
    BY <1>3, <2>2 DEF Finalise, TypeOK
  <2> QED
    BY <2>1, <2>2, <2>3 DEF TypeOK, Settled, Kept, search
<1>4. CASE Produce
  <2>1. UNCHANGED <<l1, top, final, l1End, l2End, search, asked, phase>> /\ l2' = l2 + 1
    BY <1>4 DEF Produce
  <2>2. Tip' = Tip
    BY <2>1 DEF Tip
  <2> QED
    BY <2>1, <2>2 DEF TypeOK, Settled, Kept, search
<1> QED
  BY <1>1, <1>2, <1>3, <1>4 DEF Chain

-----------------------------------------------------------------------------
(* A yes.                                                                  *)

LEMMA ChainYes ==
    ASSUME YesInv, Chain
    PROVE  YesInv'
<1>1. /\ TypeOK /\ Settled /\ TypeOK' /\ Settled' /\ Kept
      /\ UNCHANGED <<l1End, l2End, batch, latest, start, from, pages, found, seen,
                     asked, phase>>
  BY ChainKeeps DEF YesInv, search
<1>2. /\ Tip \in Nat /\ Tip' \in Nat /\ top \in Nat /\ top' \in Nat
      /\ final \in Nat /\ final' \in Nat /\ seen \in Nat /\ found \in Nat
  BY <1>1, Lengths DEF TypeOK, Tip
<1>3. \A n \in 1 .. Tip : n <= final => n <= Tip' /\ l1'[n] = l1[n]
  BY <1>1, <1>2 DEF Settled, Kept
<1>4. BatchOK'
  BY <1>1 DEF YesInv, BatchOK, Least
<1>5. YesIsFinal'
  <2>1. SUFFICES ASSUME phase = "yes"
                 PROVE  \E n \in 1 .. final' : n <= Tip' /\ l1'[n] >= Least(l2End, asked.l2)'
    BY <1>1 DEF YesIsFinal
  <2>2. PICK n \in 1 .. final : n <= Tip /\ l1[n] >= Least(l2End, asked.l2)
    BY <2>1 DEF YesInv, YesIsFinal
  <2>3. n \in 1 .. final' /\ n <= Tip' /\ l1'[n] = l1[n]
    BY <1>1, <1>2, <1>3, <2>2 DEF Kept
  <2>4. Least(l2End, asked.l2)' = Least(l2End, asked.l2)
    BY <1>1 DEF Least
  <2> QED
    BY <2>2, <2>3, <2>4
<1>6. phase = "finalized" => top' <= seen + Slack
  <2>1. CASE Mine
    BY <1>2, <2>1, Lengths DEF Mine, YesInv, FoundOK
  <2>2. CASE Reorg \/ Finalise \/ Produce
    BY <2>2 DEF Reorg, Finalise, Produce, YesInv, FoundOK
  <2> QED
    BY <2>1, <2>2 DEF Chain
<1>7. FoundOK'
  <2>1. SUFFICES ASSUME phase = "finalized", found <= seen - ReorgDepth
                 PROVE  found <= Tip' /\ l1'[found] = batch
    BY <1>1, <1>2, <1>6 DEF YesInv, FoundOK, Kept
  <2>2. /\ found \in 1 .. Tip /\ l1[found] = batch
        /\ found <= top - ReorgDepth
    BY <1>2, <2>1 DEF YesInv, FoundOK
  <2> QED
    BY <1>1, <2>2 DEF Kept
<1> QED
  BY <1>1, <1>4, <1>5, <1>7 DEF YesInv, PagesOK

LEMMA AskYes ==
    ASSUME YesInv, Ask
    PROVE  YesInv'
<1>1. Tip' = Tip
  BY DEF Ask, chains, Tip
<1>2. /\ phase' = "l2 block" /\ UNCHANGED <<l1, top, final, l2, l1End, l2End>>
      /\ batch' = 0 /\ latest' = 0 /\ start' = 0 /\ from' = 0 /\ pages' = 0
      /\ found' = 0 /\ seen' = 0
  BY DEF Ask, chains
<1>3. /\ final \in Nat /\ l2 \in Nat
      /\ asked' = [final |-> final, l2 |-> l2]
  BY DEF YesInv, TypeOK, Ask
<1>4. asked' \in [final : Nat, l2 : Nat] /\ asked'.final = final /\ asked'.l2 = l2
  BY <1>3
<1>5. TypeOK'
  <2>1. 0 \in 0 .. MaxIterations
    BY FinalityAssumption
  <2>2. /\ pages' \in 0 .. MaxIterations /\ phase' \in Answers \cup Requests
        /\ batch' \in Nat /\ latest' \in Nat /\ start' \in Nat /\ from' \in Nat
        /\ found' \in Nat /\ seen' \in Nat
    BY <1>2, <2>1 DEF Requests
  <2> QED
    BY <1>2, <1>4, <2>2 DEF YesInv, TypeOK
<1>6. final <= final /\ l2 <= l2
  BY <1>3
<1>7. Settled'
  BY <1>1, <1>2, <1>4, <1>6 DEF YesInv, Settled
<1> QED
  BY <1>2, <1>5, <1>7 DEF YesInv, BatchOK, PagesOK, FoundOK, YesIsFinal

(* A request leaves the chains and the question alone.                     *)
LEMMA RequestFrame ==
    ASSUME YesInv, UNCHANGED <<chains, asked>>
    PROVE  Settled' /\ Tip' = Tip
           /\ Least(l2End, asked.l2)' = Least(l2End, asked.l2)
BY DEF YesInv, Settled, chains, Tip, Least

LEMMA PageType ==
    ASSUME TypeOK, NEW n \in Nat, NEW i \in 0 .. MaxIterations, Page(n, i)
    PROVE  /\ from' \in Nat /\ pages' \in 0 .. MaxIterations
           /\ phase' \in {"logs", "no"}
BY DEF Page, TypeOK

LEMMA LookupYes ==
    ASSUME YesInv, FindL2Block \/ FindBatch \/ ReadLatest
    PROVE  YesInv'
<1>1. UNCHANGED <<chains, asked>>
  BY DEF FindL2Block, FindBatch, ReadLatest, search
<1>2. Tip \in Nat \ {0} /\ l2End \in Nat \ {0} /\ l2 \in Nat \ {0} /\ asked.l2 \in Nat
      /\ asked.l2 <= l2
  BY Lengths DEF YesInv, TypeOK, Settled
<1>3. Least(l2End, l2) \in Nat \ {0} /\ Least(l2End, l2) >= Least(l2End, asked.l2)
  BY <1>2 DEF Least
<1>4. TypeOK'
  BY <1>1, <1>2, <1>3 DEF YesInv, TypeOK, FindL2Block, FindBatch, ReadLatest, chains, search,
     Answers, Requests
<1>5. BatchOK'
  <2>1. CASE FindL2Block
    <3>1. batch' = Least(l2End, l2)
      BY <2>1 DEF FindL2Block
    <3>2. Least(l2End, asked.l2)' = Least(l2End, asked.l2)
      BY <1>1, RequestFrame
    <3>3. batch' >= 1 /\ batch' >= Least(l2End, asked.l2)'
      BY <1>3, <3>1, <3>2
    <3> QED
      BY <3>3 DEF BatchOK
  <2>2. CASE FindBatch \/ ReadLatest
    BY <1>1, <2>2, RequestFrame DEF YesInv, BatchOK, FindBatch, ReadLatest, search
  <2> QED
    BY <2>1, <2>2
<1> QED
  BY <1>1, <1>4, <1>5, RequestFrame
  DEF YesInv, PagesOK, FoundOK, YesIsFinal, FindL2Block, FindBatch, ReadLatest

(* Where the pages begin, and go on.                                       *)
LEMMA PageYes ==
    ASSUME YesInv, NEW n \in Nat \ {0}, NEW i \in 0 .. MaxIterations, Page(n, i),
           UNCHANGED <<chains, asked, batch, latest, found, seen>>, start' \in Nat,
           phase \in {"start", "logs"}
    PROVE  YesInv'
<1>1. TypeOK'
  BY PageType DEF YesInv, TypeOK, chains, Answers, Requests
<1>2. BatchOK'
  BY RequestFrame DEF YesInv, BatchOK
<1>3. PagesOK'
  BY DEF Page, PagesOK
<1> QED
  BY <1>1, <1>2, <1>3, PageType, RequestFrame DEF YesInv, FoundOK, YesIsFinal

LEMMA FindStartYes ==
    ASSUME YesInv, FindStart
    PROVE  YesInv'
<1>1. Least(l1End, Tip) \in Nat \ {0}
  BY Lengths, LeastType DEF YesInv, TypeOK
<1> QED
  BY <1>1, PageYes DEF FindStart

LEMMA PageEndType ==
    ASSUME TypeOK
    PROVE  PageEnd \in Nat /\ PageEnd <= from + SearchRange /\ PageEnd <= latest
<1> from + SearchRange \in Nat /\ latest \in Nat
  BY DEF TypeOK
<1> QED
  BY LeastType DEF PageEnd

LEMMA FoundType ==
    ASSUME YesInv, phase = "logs", Found
    PROVE  /\ found' \in 1 .. Tip /\ l1[found'] = batch
           /\ seen' = top /\ phase' = "finalized" /\ UNCHANGED <<from, pages>>
<1>1. /\ Tip \in Nat /\ from \in Nat \ {0} /\ PageEnd \in Nat
  BY PageEndType, Lengths DEF YesInv, PagesOK, TypeOK
<1>2. Least(PageEnd, Tip) \in Nat /\ Least(PageEnd, Tip) <= Tip
  BY <1>1, LeastType
<1> QED
  BY <1>1, <1>2 DEF Found, InPage

LEMMA GetLogsYes ==
    ASSUME YesInv, GetLogs
    PROVE  YesInv'
<1>1. /\ phase = "logs" /\ UNCHANGED <<chains, asked, batch, latest, start>>
      /\ Tip \in Nat /\ top \in Nat /\ PageEnd \in Nat /\ start \in Nat
      /\ pages \in 0 .. MaxIterations - 1
  BY PageEndType, Lengths DEF GetLogs, YesInv, PagesOK, TypeOK
<1>2. CASE Found
  <2>1. TypeOK'
    BY <1>1, <1>2, FoundType DEF YesInv, TypeOK, chains, Requests
  <2>2. BatchOK' /\ PagesOK'
    BY <1>1, <1>2, FoundType, RequestFrame DEF YesInv, BatchOK, PagesOK
  <2>3. FoundOK'
    <3>1. /\ Tip <= top /\ Slack \in Nat /\ UNCHANGED <<l1, top, batch>> /\ Tip' = Tip
      BY <1>1, RequestFrame DEF YesInv, Settled, chains
    <3>2. /\ found' \in 1 .. Tip /\ l1[found'] = batch /\ seen' = top
      BY <1>1, <1>2, FoundType
    <3>3. found' >= 1 /\ found' <= seen' /\ seen' <= top' /\ top' <= seen' + Slack
      BY <1>1, <3>1, <3>2
    <3>4. found' <= Tip' /\ l1'[found'] = batch'
      BY <1>1, <3>1, <3>2
    <3> QED
      BY <3>3, <3>4 DEF FoundOK
  <2> QED
    BY <1>1, <1>2, <2>1, <2>2, <2>3, FoundType, RequestFrame DEF YesInv, YesIsFinal
<1>3. CASE UNCHANGED <<found, seen>> /\ Page(PageEnd + 1, pages + 1)
  <2>1. PageEnd + 1 \in Nat \ {0} /\ pages + 1 \in 0 .. MaxIterations /\ start' \in Nat
    BY <1>1
  <2> HIDE DEF GetLogs
  <2> QED
    BY <1>1, <1>3, <2>1, PageYes
<1> QED
  BY <1>2, <1>3 DEF GetLogs

LEMMA ReadFinalizedYes ==
    ASSUME YesInv, ReadFinalized
    PROVE  YesInv'
<1>1. /\ phase = "finalized" /\ UNCHANGED <<chains, asked, search>>
      /\ phase' = IF final >= found THEN "yes" ELSE "no"
  BY DEF ReadFinalized
<1>2. TypeOK' /\ BatchOK' /\ PagesOK' /\ FoundOK'
  BY <1>1 DEF YesInv, TypeOK, BatchOK, PagesOK, FoundOK, chains, search, Answers
<1>3. ASSUME final >= found
      PROVE  found \in 1 .. final /\ found <= Tip /\ l1[found] >= Least(l2End, asked.l2)
  <2>1. /\ final \in Nat /\ found \in Nat /\ top \in Nat /\ seen \in Nat
        /\ found >= 1 /\ top <= seen + Slack /\ final <= top - Depth
    BY <1>1, <1>3 DEF YesInv, TypeOK, FoundOK, Settled
  <2>2. found <= seen - ReorgDepth
    BY <1>3, <2>1
  <2> QED
    BY <1>1, <1>3, <2>1, <2>2 DEF YesInv, FoundOK, BatchOK
<1>4. YesIsFinal'
  BY <1>1, <1>3, RequestFrame DEF YesIsFinal, chains
<1> QED
  BY <1>1, <1>2, <1>4, RequestFrame DEF YesInv

LEMMA FailsYes ==
    ASSUME YesInv, RequestFails
    PROVE  YesInv'
<1>1. /\ UNCHANGED <<chains, asked, search>> /\ phase' \in {"panicked", "error"}
  BY DEF RequestFails
<1>2. TypeOK' /\ BatchOK' /\ PagesOK' /\ FoundOK' /\ YesIsFinal'
  BY <1>1 DEF YesInv, TypeOK, BatchOK, PagesOK, FoundOK, YesIsFinal, chains, search, Answers
<1> QED
  BY <1>1, <1>2, RequestFrame DEF YesInv

LEMMA NextYes == YesInv /\ [Next]_vars => YesInv'
<1> SUFFICES ASSUME YesInv, [Next]_vars PROVE YesInv'
  OBVIOUS
<1>1. CASE UNCHANGED vars
  <2>1. UNCHANGED <<chains, asked, search, phase>>
    BY <1>1 DEF vars
  <2>2. TypeOK' /\ BatchOK' /\ PagesOK' /\ FoundOK' /\ YesIsFinal'
    BY <2>1, RequestFrame
    DEF YesInv, TypeOK, BatchOK, PagesOK, FoundOK, YesIsFinal, chains, search
  <2> QED
    BY <2>1, <2>2, RequestFrame DEF YesInv
<1>2. CASE Next
  BY <1>2, ChainYes, AskYes, LookupYes, FindStartYes, GetLogsYes, ReadFinalizedYes, FailsYes
  DEF Next, Request
<1> QED
  BY <1>1, <1>2

(* Every variable of the check keeps its type, for all constants: no page  *)
(* is asked for after the last allowed, and no block number is below zero. *)
THEOREM FinalityTypes == Spec => []TypeOK
<1>1. Init => YesInv
  BY InitInv
<1>2. YesInv => TypeOK
  BY DEF YesInv
<1> QED
  BY <1>1, <1>2, NextYes, PTL DEF Spec

(* Whatever is replaced at the end of L1, and however many blocks come     *)
(* between the answers that are compared: an epoch called final is.        *)
THEOREM EpochIsFinal == Spec => []YesIsFinal
<1>1. Init => YesInv
  BY InitInv
<1>2. YesInv => YesIsFinal
  BY DEF YesInv
<1> QED
  BY <1>1, <1>2, NextYes, PTL DEF Spec

-----------------------------------------------------------------------------
(* A no.                                                                   *)

(* The final blocks, and the blocks the question was asked of, do not      *)
(* change, and a block not yet there delivers what none before it has.     *)
LEMMA ChainOnce ==
    ASSUME YesInv, DeliveredOnce, Chain
    PROVE  /\ DeliveredOnce'
           /\ \A n \in 1 .. asked.final : n <= Tip /\ n <= Tip' /\ l1'[n] = l1[n]
<1>1. /\ TypeOK /\ Settled /\ Kept /\ asked.final \in Nat /\ final \in Nat
      /\ top \in Nat /\ Tip \in Nat
  BY ChainKeeps, Lengths DEF YesInv, TypeOK
<1>2. \A n \in 1 .. asked.final : n <= Tip /\ n <= Tip' /\ l1'[n] = l1[n]
  BY <1>1 DEF Settled, Kept
<1>3. ASSUME Mine PROVE DeliveredOnce'
  <2>1. PICK k \in 0 .. l2 : MayDeliver(k) /\ l1' = Append(l1, k)
    BY <1>3 DEF Mine
  <2>2. /\ Tip' = Tip + 1 /\ l1'[Tip + 1] = k
        /\ \A n \in 1 .. Tip : l1'[n] = l1[n]
    BY <1>1, <2>1, AppendProperties DEF Tip, TypeOK
  <2>3. k # 0 => \A n \in 1 .. Tip : l1[n] # k
    BY <2>1 DEF MayDeliver, Delivered
  <2>4. SUFFICES ASSUME NEW m \in 1 .. Tip + 1, NEW n \in 1 .. Tip + 1,
                        l1'[m] = l1'[n], l1'[m] # 0
                 PROVE  m = n
    BY <2>2 DEF DeliveredOnce
  <2>5. CASE m \in 1 .. Tip /\ n \in 1 .. Tip
    BY <2>2, <2>4, <2>5 DEF DeliveredOnce
  <2>6. CASE m = Tip + 1 \/ n = Tip + 1
    <3>1. m \in 1 .. Tip \/ m = Tip + 1
      BY <1>1
    <3>2. n \in 1 .. Tip \/ n = Tip + 1
      BY <1>1
    <3> QED
      BY <2>2, <2>3, <2>4, <2>6, <3>1, <3>2
  <2> QED
    BY <1>1, <2>5, <2>6
<1>4. ASSUME Reorg PROVE DeliveredOnce'
  <2>1. Tip' < Tip /\ Tip' \in Nat /\ \A n \in 1 .. Tip' : l1'[n] = l1[n]
    BY <1>1, <1>4, ReorgKeeps, Lengths DEF TypeOK, Tip
  <2> QED
    BY <1>1, <2>1 DEF DeliveredOnce
<1>5. ASSUME Finalise \/ Produce PROVE DeliveredOnce'
  BY <1>5 DEF Finalise, Produce, DeliveredOnce, Tip
<1> QED
  BY <1>2, <1>3, <1>4, <1>5 DEF Chain

LEMMA ChainNo ==
    ASSUME NoInv, Chain
    PROVE  NoInv'
<1>1. /\ UNCHANGED <<asked, batch, latest, start, from, pages, found, seen, phase>>
      /\ asked.final \in Nat
  BY ChainKeeps DEF NoInv, YesInv, TypeOK, search
<1>2. /\ DeliveredOnce'
      /\ \A n \in 1 .. asked.final : n <= Tip /\ n <= Tip' /\ l1'[n] = l1[n]
  BY ChainOnce DEF NoInv
<1>3. \A n : Overlooked(n)' <=> Overlooked(n)
  BY <1>1, <1>2 DEF Overlooked
<1>4. SearchOK'
  BY <1>1, <1>3 DEF NoInv, SearchOK, Reached
<1>5. NoIsRight'
  <2>1. SUFFICES ASSUME phase = "no", NEW n \in Reach, n <= asked.final, l1'[n] = batch,
                        start \in Nat
                 PROVE  FALSE
    BY <1>1 DEF NoInv, YesInv, TypeOK, NoIsRight, Reach
  <2>2. n \in Nat /\ n >= 1
    BY <2>1 DEF NoInv, SearchOK, Reach
  <2> QED
    BY <1>1, <1>2, <2>1, <2>2 DEF NoInv, NoIsRight
<1> QED
  BY <1>2, <1>4, <1>5, ChainYes DEF NoInv

(* A request that leaves the chains and the question alone.                *)
LEMMA RequestOnce ==
    ASSUME NoInv, UNCHANGED <<chains, asked, batch>>
    PROVE  DeliveredOnce' /\ \A n : Overlooked(n)' <=> Overlooked(n)
BY DEF NoInv, DeliveredOnce, Overlooked, chains, Tip

LEMMA SetUpNo ==
    ASSUME NoInv, Ask \/ FindL2Block \/ FindBatch \/ RequestFails
    PROVE  NoInv'
<1>1. UNCHANGED chains /\ phase' \in {"l2 block", "batch", "latest", "error", "panicked"}
  BY DEF Ask, FindL2Block, FindBatch, RequestFails
<1>2. DeliveredOnce'
  BY <1>1 DEF NoInv, DeliveredOnce, chains, Tip
<1>3. YesInv'
  BY AskYes, LookupYes, FailsYes DEF NoInv
<1> QED
  BY <1>1, <1>2, <1>3 DEF NoInv, SearchOK, NoIsRight

(* The latest block is younger than any final block.                       *)
LEMMA ReadLatestNo ==
    ASSUME NoInv, ReadLatest
    PROVE  NoInv'
<1>1. /\ UNCHANGED <<chains, asked, batch>> /\ phase' = "start" /\ latest' = Tip
      /\ final \in Nat /\ asked.final \in Nat /\ top \in Nat /\ Tip \in Nat \ {0}
  BY Lengths DEF ReadLatest, NoInv, YesInv, TypeOK
<1>2. Tip > asked.final
  BY <1>1 DEF NoInv, YesInv, Settled
<1> QED
  BY <1>1, <1>2, LookupYes, RequestOnce DEF NoInv, SearchOK, NoIsRight

(* When the pages end, a batch that was final has been seen or is out of   *)
(* reach.                                                                  *)
LEMMA PageNo ==
    ASSUME NoInv, YesInv', NEW n \in Nat, NEW i \in 0 .. MaxIterations, Page(n, i),
           UNCHANGED <<chains, asked, batch, latest>>, phase \in {"start", "logs"},
           start' \in Nat \ {0}, n >= start',
           n = start' + Reached(i) \/ n >= latest,
           \A m \in start' .. n - 1 : ~ Overlooked(m)
    PROVE  NoInv'
<1>1. /\ from' = n /\ pages' = i /\ latest \in Nat /\ asked.final \in Nat
      /\ phase' = IF n < latest /\ i < MaxIterations THEN "logs" ELSE "no"
      /\ latest > asked.final
  BY DEF Page, NoInv, SearchOK, YesInv, TypeOK
<1>2. DeliveredOnce' /\ \A m : Overlooked(m)' <=> Overlooked(m)
  BY RequestOnce
<1>3. SearchOK'
  <2>1. phase' \in {"logs", "no"} /\ start' >= 1 /\ n \in Nat
    BY <1>1
  <2>2. \A m \in start' .. from' - 1 : ~ Overlooked(m)'
    BY <1>1, <1>2
  <2>3. phase' = "logs" => n < latest /\ n = start' + Reached(i)
    BY <1>1
  <2>4. Reached(pages)' = Reached(i)
    BY <1>1 DEF Reached
  <2> QED
    BY <1>1, <2>1, <2>2, <2>3, <2>4 DEF SearchOK
<1>4. NoIsRight'
  <2>1. SUFFICES ASSUME phase' = "no", NEW m \in Reach', m <= asked.final, l1[m] = batch
                 PROVE  FALSE
    BY DEF NoIsRight, chains
  <2>2. m \in Nat /\ m >= start' /\ m < start' + Reached(MaxIterations)
    <3>1. Reached(MaxIterations) \in Nat
      BY FinalityAssumption DEF Reached
    <3>2. m \in start' .. start' + Reached(MaxIterations) - 1
      BY DEF Reach, Reached
    <3> QED
      BY <3>1, <3>2
  <2>3. Overlooked(m)
    BY <1>1, <2>1, <2>2 DEF Overlooked
  <2>4. m >= n
    BY <2>2, <2>3
  <2>5. n < latest
    BY <1>1, <2>1, <2>2, <2>4
  <2>6. i = MaxIterations /\ n = start' + Reached(i)
    BY <1>1, <2>1, <2>5
  <2>7. Reached(MaxIterations) \in Nat /\ Reached(i) = Reached(MaxIterations)
    BY <2>6, FinalityAssumption DEF Reached
  <2> HIDE DEF Reached
  <2> QED
    BY <2>2, <2>4, <2>6, <2>7
<1> QED
  BY <1>2, <1>3, <1>4 DEF NoInv

LEMMA FindStartNo ==
    ASSUME NoInv, FindStart
    PROVE  NoInv'
<1>1. Least(l1End, Tip) \in Nat \ {0}
  BY Lengths, LeastType DEF NoInv, YesInv, TypeOK
<1>2. Least(l1End, Tip) = Least(l1End, Tip) + Reached(0)
  BY <1>1 DEF Reached
<1> QED
  BY <1>1, <1>2, PageNo, FindStartYes DEF FindStart, NoInv

LEMMA FinalBelowTip ==
    ASSUME TypeOK, Settled
    PROVE  asked.final <= Tip
<1>1. /\ asked.final \in Nat /\ final \in Nat /\ top \in Nat /\ Tip \in Nat \ {0}
  BY Lengths DEF TypeOK
<1> QED
  BY <1>1, FinalityAssumption DEF Settled

LEMMA GetLogsNo ==
    ASSUME NoInv, GetLogs
    PROVE  NoInv'
<1>1. /\ phase = "logs" /\ UNCHANGED <<chains, asked, batch, latest, start>>
      /\ Tip \in Nat /\ PageEnd \in Nat /\ PageEnd <= latest /\ start \in Nat \ {0}
      /\ pages \in Nat /\ pages < MaxIterations /\ asked.final \in Nat /\ final \in Nat
      /\ from \in Nat /\ from >= start /\ from < latest /\ latest \in Nat
      /\ from = start + Reached(pages)
  BY PageEndType, Lengths DEF GetLogs, NoInv, YesInv, PagesOK, SearchOK, TypeOK
<1>2. /\ YesInv' /\ DeliveredOnce' /\ \A n : Overlooked(n)' <=> Overlooked(n)
  BY <1>1, GetLogsYes, RequestOnce DEF NoInv
<1>3. /\ asked.final <= Tip /\ batch # 0
      /\ \A n \in start .. from - 1 : ~ Overlooked(n)
      /\ latest > asked.final
  BY <1>1, FinalBelowTip DEF NoInv, YesInv, BatchOK, SearchOK
<1>4. CASE Found
  <2>1. found' \in 1 .. Tip /\ l1[found'] = batch /\ phase' = "finalized"
    BY <1>1, <1>4, FoundType DEF NoInv
  <2>2. \A n \in Nat : Overlooked(n) => n = found'
    BY <1>1, <1>3, <2>1 DEF NoInv, DeliveredOnce, Overlooked
  <2> QED
    BY <1>1, <1>2, <1>3, <2>1, <2>2 DEF NoInv, SearchOK, NoIsRight
<1>5. CASE InPage = {} /\ Page(PageEnd + 1, pages + 1)
  <2>1. \A n \in start .. PageEnd : ~ Overlooked(n)
    <3>1. SUFFICES ASSUME NEW n \in from .. PageEnd, Overlooked(n) PROVE FALSE
      BY <1>1, <1>3
    <3>2. n <= Tip
      BY <1>1, <1>3, <3>1 DEF Overlooked
    <3>3. n <= Least(PageEnd, Tip)
      BY <1>1, <3>1, <3>2 DEF Least
    <3>4. Least(PageEnd, Tip) \in Nat
      BY <1>1, LeastType
    <3>5. n \in from .. Least(PageEnd, Tip)
      BY <1>1, <3>1, <3>3, <3>4
    <3>6. l1[n] = batch
      BY <3>1 DEF Overlooked
    <3> QED
      BY <1>5, <3>5, <3>6 DEF InPage
  <2>2. PageEnd = from + SearchRange \/ PageEnd = latest
    BY <1>1, LeastType DEF PageEnd
  <2>3. Reached(pages + 1) = Reached(pages) + SearchRange + 1
    BY <1>1, FinalityAssumption DEF Reached
  <2>4. PageEnd + 1 = start + Reached(pages + 1) \/ PageEnd + 1 >= latest
    BY <1>1, <2>2, <2>3, FinalityAssumption DEF Reached
  <2>5. PageEnd >= from
    BY <1>1, <2>2, FinalityAssumption
  <2> QED
    BY <1>1, <1>2, <1>5, <2>1, <2>4, <2>5, PageNo
<1> QED
  BY <1>4, <1>5 DEF GetLogs

LEMMA ReadFinalizedNo ==
    ASSUME NoInv, ReadFinalized
    PROVE  NoInv'
<1>1. /\ phase = "finalized" /\ UNCHANGED <<chains, asked, search>>
      /\ phase' = IF final >= found THEN "yes" ELSE "no"
      /\ asked.final \in Nat /\ final \in Nat /\ found \in Nat /\ start \in Nat \ {0}
      /\ asked.final <= final
  BY DEF ReadFinalized, NoInv, YesInv, TypeOK, Settled, SearchOK
<1>2. DeliveredOnce' /\ \A n : Overlooked(n)' <=> Overlooked(n)
  BY <1>1, RequestOnce DEF search
<1>3. phase' = "no" => \A n \in Nat : ~ Overlooked(n)
  BY <1>1 DEF NoInv, SearchOK, Overlooked
<1>4. SearchOK'
  BY <1>1, <1>2, <1>3 DEF SearchOK, search
<1>5. NoIsRight'
  BY <1>1, <1>3 DEF NoIsRight, Reach, Overlooked, chains, search
<1> QED
  BY <1>2, <1>4, <1>5, ReadFinalizedYes DEF NoInv

LEMMA NextNo == NoInv /\ [Next]_vars => NoInv'
<1> SUFFICES ASSUME NoInv, [Next]_vars PROVE NoInv'
  OBVIOUS
<1>1. CASE UNCHANGED vars
  <2>1. UNCHANGED <<chains, asked, search, phase>>
    BY <1>1 DEF vars
  <2>2. DeliveredOnce' /\ \A n : Overlooked(n)' <=> Overlooked(n)
    BY <2>1, RequestOnce DEF search
  <2>3. SearchOK' /\ NoIsRight'
    BY <2>1, <2>2 DEF NoInv, SearchOK, NoIsRight, Reach, Reached, chains, search
  <2> QED
    BY <2>2, <2>3, NextYes DEF NoInv
<1>2. CASE Next
  BY <1>2, ChainNo, SetUpNo, ReadLatestNo, FindStartNo, GetLogsNo, ReadFinalizedNo
  DEF Next, Request
<1> QED
  BY <1>1, <1>2

(* Wherever the pages begin and end, a batch that is final and within      *)
(* reach is found.                                                         *)
THEOREM FinalIsFound == Spec => []NoIsRight
<1>1. Init => NoInv
  BY InitInv
<1>2. NoInv => NoIsRight
  BY DEF NoInv
<1> QED
  BY <1>1, <1>2, NextNo, PTL DEF Spec
=============================================================================
