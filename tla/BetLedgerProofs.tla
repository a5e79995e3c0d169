-------------------------- MODULE BetLedgerProofs --------------------------
(***************************************************************************)
(* Proofs about BetLedger and DailySpend, for any workers, bets, stakes    *)
(* and cap.                                                                *)
(***************************************************************************)
EXTENDS DailySpend, FiniteSetTheorems, TLAPS

ConstantsOK ==
  /\ IsFiniteSet(Workers) /\ Workers # {}
  /\ IsFiniteSet(Bets) /\ NoBet \notin Bets
  /\ MinStake \in Nat \ {0} /\ MaxStake \in Nat
  /\ Stakes \subseteq MinStake..MaxStake /\ Stakes # {}
  /\ Price \in Nat /\ Price > 1
  /\ CapEnabled \in BOOLEAN /\ Cap \in Nat

\* The assumptions on the constants, gathered.
LEMMA Constants == ConstantsOK
BY WorkersAssumption, BetsAssumption, StakesAssumption, PriceAssumption,
   CapAssumption DEF ConstantsOK

----------------------------------------------------------------------------
(* Arithmetic                                                              *)

\* Multiplication is monotone and distributes over one step.
LEMMA TimesMono ==
  ASSUME NEW m \in Nat, NEW n \in Nat, NEW k \in Nat, m <= n
  PROVE  m * k <= n * k
<1>1. PICK d \in Nat : n = m + d
  <2>1. n - m \in Nat /\ n = m + (n - m)
    OBVIOUS
  <2> QED
    BY <2>1
<1>2. n * k = m * k + d * k
  BY <1>1
<1>3. d * k \in Nat /\ m * k \in Nat
  OBVIOUS
<1> QED
  BY <1>2, <1>3

\* One more worker in flight adds at most one more stake: k * m grows by m.
LEMMA TimesStep ==
  ASSUME NEW n \in Nat, NEW k \in Nat
  PROVE  /\ n * k \in Nat
         /\ (n + 1) * k = n * k + k
         /\ n > 0 => (n - 1) * k = n * k - k
OBVIOUS

\* Liabilities are naturals.
LEMMA LiabilityType ==
  ASSUME NEW s \in Nat
  PROVE  Liability(s) \in Nat /\ AdoptedLiability(s) \in Nat
<1>1. Price - 1 \in Nat /\ Price \in Nat
  BY Constants DEF ConstantsOK
<1>2. s * (Price - 1) \in Nat /\ Price * s \in Nat
  BY <1>1
<1>3. Price * s * (Price - 1) \in Nat
  BY <1>1, <1>2
<1> QED
  BY <1>2, <1>3 DEF Liability, AdoptedLiability

\* A floored decrement stays a natural number.
LEMMA MinusType ==
  ASSUME NEW n \in Nat, NEW k \in Nat
  PROVE  Minus(n, k) \in Nat
BY DEF Minus

----------------------------------------------------------------------------
(* Type correctness                                                        *)

\* A worker holds a stake while it places a bet, and a bet id once the exchange
\* has accepted it; the stake passed the cap check, so it fits the cap alone.
WorkersOK ==
  \A w \in Workers :
    /\ pc[w] = "idle" => stakeOf[w] = 0
    /\ pc[w] # "idle" =>
         /\ stakeOf[w] \in Stakes
         /\ CapEnabled /\ Cap > 0 => stakeOf[w] <= Cap
    /\ pc[w] = "accepted" => betOf[w] \in Bets

TypeInv == TypeOK /\ WorkersOK

\* Stakes are positive naturals, none above the largest.
LEMMA StakesAreNat == Stakes \subseteq Nat /\ MaxStake \in Nat /\ \A s \in Stakes : s <= MaxStake
BY Constants DEF ConstantsOK

\* The initial states are well typed.
LEMMA TypeInit == Init => TypeInv
BY Constants DEF Init, NoOrders, TypeInv, TypeOK, WorkersOK, ExchangeStates, ConstantsOK

\* Every step keeps the types.
LEMMA TypeStep == TypeInv /\ [Next]_vars => TypeInv'
<1> SUFFICES ASSUME TypeInv, [Next]_vars PROVE TypeInv'
  OBVIOUS
<1> USE DEF TypeInv
<1>1. ASSUME NEW w \in Workers, CheckCap(w) PROVE TypeInv'
  <2>1. PICK s \in Stakes : WithinCap(s) /\ stakeOf' = [stakeOf EXCEPT ![w] = s]
    BY <1>1 DEF CheckCap
  <2>2. CapEnabled /\ Cap > 0 => s <= Cap
    BY <2>1, StakesAreNat, Constants DEF WithinCap, TypeOK, ConstantsOK
  <2>3. TypeOK'
    BY <1>1, <2>1 DEF CheckCap, TypeOK, exchangeVars, orderVars, statsVars, knownVars,
       pollVars, reportVars
  <2>4. WorkersOK'
    BY <1>1, <2>1, <2>2 DEF CheckCap, TypeOK, WorkersOK
  <2> QED
    BY <2>3, <2>4
<1>2. ASSUME NEW w \in Workers, NEW b \in Bets, Accept(w, b) PROVE TypeInv'
  <2>1. stakeOf[w] \in Stakes
    BY <1>2 DEF Accept, WorkersOK
  <2>2. TypeOK'
    BY <1>2, <2>1 DEF Accept, TypeOK, ExchangeStates, orderVars, statsVars, knownVars,
       pollVars, reportVars
  <2>3. WorkersOK'
    BY <1>2, <2>1 DEF Accept, TypeOK, WorkersOK
  <2> QED
    BY <2>2, <2>3
<1>3. ASSUME NEW w \in Workers, Finish(w),
             UNCHANGED <<exchangeVars, orderVars, statsVars, knownVars, pollVars, sync>>
      PROVE  TypeInv'
  <2>1. TypeOK'
    BY <1>3 DEF Finish, TypeOK, exchangeVars, orderVars, statsVars, knownVars, pollVars,
       reportVars
  <2>2. WorkersOK'
    BY <1>3 DEF Finish, TypeOK, WorkersOK
  <2> QED
    BY <2>1, <2>2
<1>4. ASSUME NEW w \in Workers, RecordPlacement(w) PROVE TypeInv'
  <2>1. betOf[w] \in Bets /\ stakeOf[w] \in Nat
    BY <1>4, StakesAreNat DEF RecordPlacement, WorkersOK
  <2>2. Liability(stakeOf[w]) \in Nat
    BY <2>1, LiabilityType
  <2>3. /\ DOMAIN openOrders' \subseteq Bets
        /\ openOrders' \in [DOMAIN openOrders' -> Nat]
        /\ exposed' \in [DOMAIN exposed' -> Nat]
    BY <1>4, <2>1, <2>2 DEF RecordPlacement, TypeOK
  <2>4. placed' \in Nat /\ pending' \in Nat /\ totalStake' \in Nat /\ settled' \in Nat
    BY <1>4, <2>1 DEF RecordPlacement, TypeOK
  <2>5. TypeOK'
    BY <1>4, <2>3, <2>4 DEF RecordPlacement, Finish, TypeOK, exchangeVars, knownVars,
       pollVars, reportVars
  <2>6. WorkersOK'
    BY <1>4 DEF RecordPlacement, Finish, TypeOK, WorkersOK
  <2> QED
    BY <2>5, <2>6
<1>5. ASSUME NEW b \in Bets, NEW s1, NEW s2 \in ExchangeStates, MoveBet(b, s1, s2)
      PROVE  TypeInv'
  <2>1. TypeOK'
    BY <1>5 DEF MoveBet, TypeOK, workerVars, orderVars, statsVars, knownVars, pollVars,
       reportVars
  <2>2. WorkersOK'
    BY <1>5 DEF MoveBet, WorkersOK, workerVars
  <2> QED
    BY <2>1, <2>2
<1>6. CASE FetchOrders
  BY <1>6 DEF FetchOrders, TypeOK, WorkersOK, workerVars, exchangeVars, orderVars,
     statsVars, knownVars
<1>7. CASE ApplyOrdersReport
  <2> DEFINE executable == InState(ordersReport, "executable")
             complete   == InState(ordersReport, "matched")
  <2>1. \A b \in Bets : AdoptedLiability(exStake[b]) \in Nat
    BY StakesAreNat, LiabilityType DEF TypeOK
  <2>2. executable \subseteq Bets /\ complete \subseteq Bets
    BY DEF InState
  <2>3. /\ DOMAIN openOrders' \subseteq Bets
        /\ openOrders' \in [DOMAIN openOrders' -> Nat]
        /\ exposed' \in [DOMAIN exposed' -> Nat]
    BY <1>7, <2>1, <2>2 DEF ApplyOrdersReport, TypeOK
  <2>4. Cardinality(complete \intersect DOMAIN openOrders) \in Nat
    <3>1. IsFiniteSet(complete \intersect DOMAIN openOrders)
      BY <2>2, Constants, FS_Subset DEF ConstantsOK
    <3> QED
      BY <3>1, FS_CardinalityType
  <2>5. pending' \in Nat
    BY <1>7, <2>4, MinusType DEF ApplyOrdersReport, TypeOK
  <2>6. TypeOK'
    BY <1>7, <2>3, <2>5 DEF ApplyOrdersReport, TypeOK, workerVars, exchangeVars, knownVars
  <2>7. WorkersOK'
    BY <1>7 DEF ApplyOrdersReport, WorkersOK, workerVars
  <2> QED
    BY <2>6, <2>7
<1>8. CASE FetchCleared
  <2>1. InState(exState, "settled") \subseteq Bets
    BY DEF InState
  <2> QED
    BY <1>8, <2>1 DEF FetchCleared, TypeOK, WorkersOK, workerVars, exchangeVars, orderVars,
       statsVars, knownVars
<1>9. CASE RecordSettlements
  <2> DEFINE new == clearedReport \ known
  <2>1. new \subseteq Bets
    BY <1>9 DEF RecordSettlements, TypeOK
  <2>2. Cardinality(new) \in Nat
    BY <2>1, Constants, FS_Subset, FS_CardinalityType DEF ConstantsOK
  <2>3. pending' \in Nat /\ settled' \in Nat
    BY <1>9, <2>2, MinusType DEF RecordSettlements, TypeOK
  <2>4. /\ DOMAIN openOrders' \subseteq Bets
        /\ openOrders' \in [DOMAIN openOrders' -> Nat]
        /\ exposed' \in [DOMAIN exposed' -> Nat]
    BY <1>9 DEF RecordSettlements, TypeOK, Restrict
  <2>5. TypeOK'
    BY <1>9, <2>1, <2>3, <2>4 DEF RecordSettlements, TypeOK, workerVars, exchangeVars
  <2>6. WorkersOK'
    BY <1>9 DEF RecordSettlements, WorkersOK, workerVars
  <2> QED
    BY <2>5, <2>6
<1>10. CASE ResetStats
  BY <1>10 DEF ResetStats, NoOrders, TypeOK, WorkersOK, workerVars, exchangeVars, pollVars,
     reportVars
<1>11. CASE DayEnds
  BY <1>11 DEF DayEnds, TypeOK, WorkersOK, ExchangeStates, workerVars, orderVars,
               statsVars, knownVars, pollVars, reportVars
<1>12. CASE Restart
  BY <1>12 DEF Restart, NoOrders, TypeOK, WorkersOK, exchangeVars
<1>13. ASSUME UNCHANGED <<workerVars, exchangeVars, orderVars, statsVars, knownVars, reportVars,
                           sync>>,
              polling' \subseteq Pollers
       PROVE  TypeInv'
  BY <1>13 DEF TypeOK, WorkersOK, workerVars, exchangeVars, orderVars, statsVars, knownVars,
               reportVars
<1>14. CASE \E p \in Pollers : PollerEnds(p)
  BY <1>13, <1>14 DEF PollerEnds, TypeOK
<1>15. CASE StartPollers
  BY <1>13, <1>15 DEF StartPollers
<1>16. CASE UNCHANGED vars
  BY <1>16 DEF vars, TypeOK, WorkersOK
<1> QED
  BY <1>1, <1>2, <1>3, <1>4, <1>5, <1>6, <1>7, <1>8, <1>9, <1>10, <1>11, <1>12, <1>14, <1>15,
     <1>16
     DEF Next, Place, Exchange, Reject, LoseReply, Match, Lapse, Settle, ExchangeStates

\* Every reachable state is well typed.
THEOREM TypeCorrect == Spec => []TypeInv
BY TypeInit, TypeStep, PTL DEF Spec

\* The type invariant the runs check.
THEOREM TypeOKHolds == Spec => []TypeOK
<1>1. TypeInv => TypeOK
  BY DEF TypeInv
<1> QED
  BY <1>1, TypeCorrect, PTL

----------------------------------------------------------------------------
(* The daily cap                                                           *)

Others(w) == InFlight \ {w}

\* The strengthening of CapOvershootBounded.  Take for w the worker whose cap
\* check came last: its stake fitted the cap on top of total_stake as it was
\* then, and whatever is recorded since was in flight at that moment, at most
\* one stake per other worker.
CapIInv ==
  CapEnabled /\ Cap > 0 =>
    \E w \in Workers :
      totalStake + Cardinality(Others(w)) * MaxStake + stakeOf[w]
        <= Cap + (Cardinality(Workers) - 1) * MaxStake

\* There is at least one worker, and finitely many.
LEMMA WorkersCount == Cardinality(Workers) \in Nat \ {0}
BY Constants, FS_CardinalityType, FS_EmptySet DEF ConstantsOK

\* The workers in flight are finitely many, no more than all of them.
LEMMA InFlightFinite ==
  ASSUME NEW F \in SUBSET Workers
  PROVE  IsFiniteSet(F) /\ Cardinality(F) \in Nat
BY Constants, FS_Subset, FS_CardinalityType DEF ConstantsOK

\* Without w, at most Cardinality(Workers) - 1 workers are in flight.
LEMMA OthersCount ==
  ASSUME NEW w \in Workers, NEW F \in SUBSET (Workers \ {w})
  PROVE  /\ Cardinality(F) <= Cardinality(Workers) - 1
         /\ Cardinality(F) * MaxStake <= (Cardinality(Workers) - 1) * MaxStake
         /\ Cardinality(F) * MaxStake \in Nat
         /\ (Cardinality(Workers) - 1) * MaxStake \in Nat
<1>1. IsFiniteSet(Workers \ {w}) /\ Cardinality(Workers \ {w}) = Cardinality(Workers) - 1
  BY Constants, FS_RemoveElement DEF ConstantsOK
<1>2. Cardinality(F) <= Cardinality(Workers) - 1
  BY <1>1, FS_Subset
<1>3. Cardinality(F) \in Nat /\ Cardinality(Workers) - 1 \in Nat /\ MaxStake \in Nat
  BY InFlightFinite, WorkersCount, StakesAreNat
<1>4. /\ Cardinality(F) * MaxStake <= (Cardinality(Workers) - 1) * MaxStake
      /\ Cardinality(F) * MaxStake \in Nat
      /\ (Cardinality(Workers) - 1) * MaxStake \in Nat
  BY <1>2, <1>3, TimesMono, TimesStep
<1> QED
  BY <1>2, <1>4

\* Nobody is in flight and nothing is spent initially.
LEMMA CapInit == Init => CapIInv
<1> SUFFICES ASSUME Init, CapEnabled, Cap > 0 PROVE CapIInv
  BY DEF CapIInv
<1>1. PICK w \in Workers : TRUE
  BY Constants DEF ConstantsOK
<1>2. Others(w) = {} /\ stakeOf[w] = 0 /\ totalStake = 0
  BY DEF Init, Others, InFlight
<1>3. Cardinality(Others(w)) * MaxStake = 0 /\ (Cardinality(Workers) - 1) * MaxStake \in Nat
  BY <1>2, FS_EmptySet, OthersCount, StakesAreNat
<1>4. totalStake + Cardinality(Others(w)) * MaxStake + stakeOf[w]
        <= Cap + (Cardinality(Workers) - 1) * MaxStake
  BY <1>2, <1>3, Constants DEF ConstantsOK
<1> QED
  BY <1>4 DEF CapIInv

\* When a worker stops being in flight and its stake, or nothing, is added to
\* the total, the bound is kept.
LEMMA CapFinish ==
  ASSUME TypeInv, CapIInv, NEW v \in Workers, pc[v] # "idle", Finish(v),
         totalStake' \in {totalStake, totalStake + stakeOf[v]}
  PROVE  CapIInv'
<1> SUFFICES ASSUME CapEnabled, Cap > 0 PROVE CapIInv'
  BY DEF CapIInv
<1>1. PICK w \in Workers :
        totalStake + Cardinality(Others(w)) * MaxStake + stakeOf[w]
          <= Cap + (Cardinality(Workers) - 1) * MaxStake
  BY DEF CapIInv
<1>2. /\ totalStake \in Nat /\ MaxStake \in Nat /\ Cap \in Nat
      /\ \A u \in Workers : stakeOf[u] \in Nat /\ stakeOf[u] <= MaxStake
  BY StakesAreNat, Constants DEF TypeInv, TypeOK, ConstantsOK
<1>3. Others(w) \subseteq Workers \ {w} /\ v \in InFlight /\ InFlight' = InFlight \ {v}
  BY DEF Others, InFlight, Finish, TypeInv, TypeOK
<1>4. stakeOf'[v] = 0 /\ \A u \in Workers \ {v} : stakeOf'[u] = stakeOf[u]
  BY DEF Finish, TypeInv, TypeOK
<1>5. /\ Cardinality(Others(w)) * MaxStake \in Nat
      /\ (Cardinality(Workers) - 1) * MaxStake \in Nat
      /\ IsFiniteSet(Others(w)) /\ Cardinality(Others(w)) \in Nat
  BY <1>3, OthersCount, InFlightFinite
<1>6. CASE w = v
  <2>1. Others(w)' = Others(w)
    BY <1>3, <1>6 DEF Others
  <2>2. totalStake' + Cardinality(Others(w)') * MaxStake + stakeOf'[w]
          <= Cap + (Cardinality(Workers) - 1) * MaxStake
    BY <1>1, <1>2, <1>4, <1>5, <1>6, <2>1
  <2> QED
    BY <2>2 DEF CapIInv
<1>7. CASE w # v
  <2>1. Others(w)' = Others(w) \ {v} /\ v \in Others(w)
    BY <1>3, <1>7 DEF Others
  <2>2. Cardinality(Others(w)') = Cardinality(Others(w)) - 1 /\ Cardinality(Others(w)) > 0
    BY <1>5, <2>1, FS_RemoveElement, FS_EmptySet
  <2>3. Cardinality(Others(w)') * MaxStake = Cardinality(Others(w)) * MaxStake - MaxStake
    BY <1>2, <1>5, <2>2, TimesStep
  <2>4. totalStake' + Cardinality(Others(w)') * MaxStake + stakeOf'[w]
          <= Cap + (Cardinality(Workers) - 1) * MaxStake
    BY <1>1, <1>2, <1>4, <1>5, <1>7, <2>3
  <2> QED
    BY <2>4 DEF CapIInv
<1> QED
  BY <1>6, <1>7

\* Every step keeps the bound on what is spent and in flight together.
LEMMA CapStep == TypeInv /\ CapIInv /\ [Next]_vars => CapIInv'
<1> SUFFICES ASSUME TypeInv, CapIInv, [Next]_vars PROVE CapIInv'
  OBVIOUS
<1>1. ASSUME NEW v \in Workers, CheckCap(v) PROVE CapIInv'
  <2> SUFFICES ASSUME CapEnabled, Cap > 0 PROVE CapIInv'
    BY DEF CapIInv
  <2>1. PICK s \in Stakes : WithinCap(s) /\ stakeOf' = [stakeOf EXCEPT ![v] = s]
    BY <1>1 DEF CheckCap
  <2>2. totalStake' = totalStake /\ totalStake + s <= Cap /\ stakeOf'[v] = s
        /\ totalStake \in Nat /\ s \in Nat /\ Cap \in Nat
    BY <1>1, <2>1, StakesAreNat, Constants
       DEF CheckCap, WithinCap, statsVars, knownVars, TypeInv, TypeOK, ConstantsOK
  <2>3. Others(v)' \subseteq Workers \ {v}
    BY DEF Others, InFlight
  <2>4. /\ Cardinality(Others(v)') * MaxStake <= (Cardinality(Workers) - 1) * MaxStake
        /\ Cardinality(Others(v)') * MaxStake \in Nat
        /\ (Cardinality(Workers) - 1) * MaxStake \in Nat
    BY <2>3, OthersCount
  <2>5. totalStake' + Cardinality(Others(v)') * MaxStake + stakeOf'[v]
          <= Cap + (Cardinality(Workers) - 1) * MaxStake
    BY <2>2, <2>4
  <2> QED
    BY <2>5 DEF CapIInv
<1>2. ASSUME NEW v \in Workers, NEW b \in Bets, Accept(v, b) PROVE CapIInv'
  <2>1. InFlight' = InFlight
    BY <1>2 DEF Accept, InFlight, TypeInv, TypeOK
  <2> QED
    BY <1>2, <2>1 DEF Accept, CapIInv, Others, statsVars, knownVars
<1>3. ASSUME NEW v \in Workers, Reject(v) \/ LoseReply(v) PROVE CapIInv'
  BY <1>3, CapFinish DEF Reject, LoseReply, statsVars, knownVars
<1>4. ASSUME NEW v \in Workers, RecordPlacement(v) PROVE CapIInv'
  BY <1>4, CapFinish DEF RecordPlacement
<1>5. CASE ResetStats
  <2> SUFFICES ASSUME CapEnabled, Cap > 0 PROVE CapIInv'
    BY DEF CapIInv
  <2>1. PICK w \in Workers : InFlight # {} => w \in InFlight
    BY Constants DEF InFlight, ConstantsOK
  <2>2. stakeOf[w] \in Nat /\ stakeOf[w] <= Cap /\ Cap \in Nat
    BY Constants, StakesAreNat DEF TypeInv, TypeOK, WorkersOK, ConstantsOK
  <2>3. totalStake' = 0 /\ stakeOf' = stakeOf /\ Others(w)' = Others(w)
    BY <1>5 DEF ResetStats, workerVars, Others, InFlight
  <2>4. /\ Cardinality(Others(w)) * MaxStake <= (Cardinality(Workers) - 1) * MaxStake
        /\ Cardinality(Others(w)) * MaxStake \in Nat
        /\ (Cardinality(Workers) - 1) * MaxStake \in Nat
    <3>1. Others(w) \subseteq Workers \ {w}
      BY DEF Others, InFlight
    <3> QED
      BY <3>1, OthersCount
  <2>5. totalStake' + Cardinality(Others(w)') * MaxStake + stakeOf'[w]
          <= Cap + (Cardinality(Workers) - 1) * MaxStake
    BY <2>2, <2>3, <2>4
  <2> QED
    BY <2>5 DEF CapIInv
<1>6. CASE Restart
  <2> SUFFICES ASSUME CapEnabled, Cap > 0 PROVE CapIInv'
    BY DEF CapIInv
  <2>1. PICK w \in Workers : TRUE
    BY Constants DEF ConstantsOK
  <2>2. Others(w)' = {} /\ stakeOf'[w] = 0 /\ totalStake' = 0
    BY <1>6 DEF Restart, Others, InFlight
  <2>3. Cardinality(Others(w)') * MaxStake = 0
    BY <2>2, FS_EmptySet, StakesAreNat
  <2>4. (Cardinality(Workers) - 1) * MaxStake \in Nat
    <3>1. {} \in SUBSET (Workers \ {w})
      OBVIOUS
    <3> QED
      BY <3>1, OthersCount
  <2>5. totalStake' + Cardinality(Others(w)') * MaxStake + stakeOf'[w]
          <= Cap + (Cardinality(Workers) - 1) * MaxStake
    BY <2>2, <2>3, <2>4, Constants DEF ConstantsOK
  <2> QED
    BY <2>5 DEF CapIInv
<1>7. ASSUME UNCHANGED <<pc, stakeOf, totalStake>> PROVE CapIInv'
  BY <1>7 DEF CapIInv, Others, InFlight
<1> QED
  BY <1>1, <1>2, <1>3, <1>4, <1>5, <1>6, <1>7
     DEF Next, Place, Exchange, Match, Lapse, Settle, MoveBet, DayEnds,
         FetchOrders, ApplyOrdersReport, FetchCleared, RecordSettlements, PollerEnds,
         StartPollers, workerVars, statsVars, vars

\* The daily cap can be overshot by the workers that raced past the check, and
\* by no more than one largest stake for each worker but one.
THEOREM CapOvershootHolds == Spec => []CapOvershootBounded
<1>1. TypeInv /\ CapIInv => CapOvershootBounded
  <2> SUFFICES ASSUME TypeInv, CapIInv, CapEnabled, Cap > 0
               PROVE  totalStake <= Cap + (Cardinality(Workers) - 1) * MaxStake
    BY DEF CapOvershootBounded
  <2>1. PICK w \in Workers :
          totalStake + Cardinality(Others(w)) * MaxStake + stakeOf[w]
            <= Cap + (Cardinality(Workers) - 1) * MaxStake
    BY DEF CapIInv
  <2>2. /\ totalStake \in Nat /\ stakeOf[w] \in Nat /\ Cap \in Nat
        /\ Cardinality(Others(w)) * MaxStake \in Nat
        /\ (Cardinality(Workers) - 1) * MaxStake \in Nat
    <3>1. Others(w) \subseteq Workers \ {w}
      BY DEF Others, InFlight
    <3> QED
      BY <3>1, OthersCount, StakesAreNat, Constants DEF TypeInv, TypeOK, ConstantsOK
  <2> QED
    BY <2>1, <2>2
<1> QED
  BY <1>1, CapInit, CapStep, TypeCorrect, PTL DEF Spec

\* With a single placing thread the cap is never exceeded: it takes two workers
\* between check and record to break it.
THEOREM OneWorkerNeverExceedsCap ==
  ASSUME Cardinality(Workers) = 1
  PROVE  Spec => []CapIsHardCeiling
<1>1. CapOvershootBounded => CapIsHardCeiling
  BY StakesAreNat, Constants DEF CapOvershootBounded, CapIsHardCeiling, ConstantsOK
<1> QED
  BY <1>1, CapOvershootHolds, PTL

----------------------------------------------------------------------------
(* Settlements                                                             *)

\* The outcome counters agree with the set of known settlements, less those an
\* earlier process counted.
KnownCounted == settled = Cardinality(known \ hydrated)

\* Sets of bets are finite, so their cardinalities can be added.
LEMMA SubsetOfBetsFinite ==
  ASSUME NEW S \in SUBSET Bets
  PROVE  IsFiniteSet(S) /\ Cardinality(S) \in Nat
BY Constants, FS_Subset, FS_CardinalityType DEF ConstantsOK

\* A new process has counted nothing of what it hydrated.
LEMMA KnownInit == Init => KnownCounted
<1> SUFFICES ASSUME Init PROVE KnownCounted
  OBVIOUS
<1>1. known \ hydrated = {} /\ settled = 0
  BY DEF Init
<1> QED
  BY <1>1, FS_EmptySet DEF KnownCounted

\* Every step counts as many settlements as it adds to the known ones.
LEMMA KnownStep == TypeInv /\ KnownCounted /\ [Next]_vars => KnownCounted'
<1> SUFFICES ASSUME TypeInv, KnownCounted, [Next]_vars PROVE KnownCounted'
  OBVIOUS
<1>1. CASE RecordSettlements
  <2> DEFINE new == clearedReport \ known
             old == known \ hydrated
  <2>1. new \in SUBSET Bets /\ old \in SUBSET Bets /\ new \intersect old = {}
    BY <1>1 DEF RecordSettlements, TypeInv, TypeOK
  <2>2. known' \ hydrated' = old \union new
    BY <1>1 DEF RecordSettlements, TypeInv, TypeOK
  <2>3. Cardinality(old \union new) = Cardinality(old) + Cardinality(new)
    <3>1. /\ IsFiniteSet(old) /\ Cardinality(old) \in Nat
          /\ IsFiniteSet(new) /\ Cardinality(new) \in Nat
      BY <2>1, SubsetOfBetsFinite
    <3>2. Cardinality(old \union new)
            = Cardinality(old) + Cardinality(new) - Cardinality(old \intersect new)
      BY <3>1, FS_Union
    <3>3. old \intersect new = {}
      BY <2>1
    <3>4. Cardinality(old \intersect new) = 0
      BY <3>3, FS_EmptySet
    <3> QED
      BY <3>1, <3>2, <3>4
  <2>4. settled' = settled + Cardinality(new) /\ settled = Cardinality(old)
    BY <1>1 DEF RecordSettlements, KnownCounted
  <2> QED
    BY <2>2, <2>3, <2>4 DEF KnownCounted
<1>2. CASE ResetStats
  <2>1. known' \ hydrated' = {} /\ settled' = 0
    BY <1>2 DEF ResetStats
  <2> QED
    BY <2>1, FS_EmptySet DEF KnownCounted
<1>3. CASE Restart
  <2>1. known' \ hydrated' = {} /\ settled' = 0
    BY <1>3 DEF Restart
  <2> QED
    BY <2>1, FS_EmptySet DEF KnownCounted
<1>4. CASE UNCHANGED <<settled, known, hydrated>>
  BY <1>4 DEF KnownCounted
<1> QED
  BY <1>1, <1>2, <1>3, <1>4
     DEF Next, Place, CheckCap, Accept, Reject, LoseReply, RecordPlacement,
         Exchange, Match, Lapse, Settle, MoveBet, DayEnds, FetchOrders,
         ApplyOrdersReport, FetchCleared, PollerEnds, StartPollers, statsVars, knownVars, vars

\* The settled counters and the known settlements never drift apart: no
\* settlement is counted twice between two resets, and none is forgotten.  The
\* settlements an earlier process counted stay out of this one's counters.
THEOREM KnownCountedHolds == Spec => []KnownCounted
BY KnownInit, KnownStep, TypeCorrect, PTL DEF Spec

----------------------------------------------------------------------------
(* Order tracking                                                          *)

\* A report in a poller's hands shows the exchange at an earlier moment: no bet
\* has moved backwards since.
ReportsOK ==
  /\ ordersReport # NoReport =>
       \A b \in Bets :
         /\ exState[b] = "none" => ordersReport[b] = "none"
         /\ exState[b] = "executable" => ordersReport[b] \in {"none", "executable"}
  /\ clearedReport # NoReport =>
       \A b \in clearedReport : exState[b] \in {"settled", "gone"}

\* Initially no poller holds a report.
LEMMA ReportsInit == Init => ReportsOK
BY DEF Init, ReportsOK

\* Every step leaves a report no later than the exchange it was taken from.
LEMMA ReportsStep == TypeInv /\ ReportsOK /\ [Next]_vars => ReportsOK'
<1> SUFFICES ASSUME TypeInv, ReportsOK, [Next]_vars PROVE ReportsOK'
  OBVIOUS
<1>1. ASSUME NEW w \in Workers, NEW b \in Bets, Accept(w, b) PROVE ReportsOK'
  BY <1>1 DEF Accept, ReportsOK, pollVars, reportVars, TypeInv, TypeOK
<1>2. ASSUME NEW b \in Bets, Exchange(b) PROVE ReportsOK'
  BY <1>2 DEF Exchange, Match, Lapse, Settle, MoveBet, ReportsOK, pollVars, reportVars,
              TypeInv, TypeOK
<1>3. CASE FetchOrders
  BY <1>3 DEF FetchOrders, ReportsOK, exchangeVars, TypeInv, TypeOK
<1>4. CASE FetchCleared
  BY <1>4 DEF FetchCleared, ReportsOK, exchangeVars, InState
<1>5. CASE ApplyOrdersReport
  BY <1>5 DEF ApplyOrdersReport, ReportsOK, exchangeVars
<1>6. CASE RecordSettlements
  BY <1>6 DEF RecordSettlements, ReportsOK, exchangeVars
<1>7. CASE DayEnds
  BY <1>7 DEF DayEnds, ReportsOK, pollVars, reportVars, TypeInv, TypeOK
<1>8. CASE Restart
  BY <1>8 DEF Restart, ReportsOK
<1>9. CASE UNCHANGED <<exState, ordersReport, clearedReport>>
  BY <1>9 DEF ReportsOK
<1> QED
  BY <1>1, <1>2, <1>3, <1>4, <1>5, <1>6, <1>7, <1>8, <1>9
     DEF Next, Place, CheckCap, Reject, LoseReply, RecordPlacement, ResetStats, PollerEnds,
         StartPollers, exchangeVars, pollVars, reportVars, vars

\* The step inside NoWrongfulRemoval.
LEMMA RemovalStep ==
  ASSUME TypeInv, ReportsOK, [Next]_vars, ~Restart,
         NEW b \in DOMAIN openOrders \ DOMAIN openOrders',
         exState[b] = "executable"
  PROVE  ordersReport[b] = "none"
<1>1. b \in Bets
  BY DEF TypeInv, TypeOK
<1>2. CASE ApplyOrdersReport
  <2>1. DOMAIN openOrders' = InState(ordersReport, "executable")
    BY <1>2 DEF ApplyOrdersReport
  <2>2. ordersReport[b] # "executable" /\ ordersReport[b] \in {"none", "executable"}
    BY <1>1, <1>2, <2>1 DEF ApplyOrdersReport, InState, ReportsOK
  <2> QED
    BY <2>2
<1>3. CASE RecordSettlements
  <2>1. DOMAIN openOrders' = DOMAIN openOrders \ (clearedReport \ known)
    BY <1>3 DEF RecordSettlements, Restrict
  <2>2. exState[b] # "executable"
    BY <1>3, <2>1 DEF RecordSettlements, ReportsOK
  <2> QED
    BY <2>2
<1>4. ASSUME NEW w \in Workers, RecordPlacement(w) PROVE FALSE
  BY <1>4 DEF RecordPlacement
<1>5. CASE UNCHANGED openOrders
  BY <1>5
<1> QED
  BY <1>2, <1>3, <1>4, <1>5
     DEF Next, Place, CheckCap, Accept, Reject, LoseReply, Exchange, Match,
         Lapse, Settle, MoveBet, DayEnds, FetchOrders, FetchCleared, PollerEnds,
         StartPollers, ResetStats, orderVars, vars

\* While the process lives, an order still executable on the exchange leaves the open
\* orders only through a report older than its placement.
THEOREM NoWrongfulRemovalHolds == Spec => NoWrongfulRemoval
<1>1. TypeInv /\ ReportsOK /\ [Next]_vars =>
        [~Restart =>
           \A b \in DOMAIN openOrders \ DOMAIN openOrders' :
             exState[b] = "executable" => ordersReport[b] = "none"]_vars
  BY RemovalStep
<1> QED
  BY <1>1, ReportsInit, ReportsStep, TypeCorrect, PTL DEF Spec, NoWrongfulRemoval

\* The strengthening of OnePollRepairs: a report that no executable order has overtaken
\* lists the orders that are executable, in whatever order the pollers come.
PollInv ==
  /\ sync = "fetched" => InState(ordersReport, "executable") = InState(exState, "executable")
  /\ sync = "applied" =>
       /\ DOMAIN openOrders = InState(exState, "executable")
       /\ ordersReport # NoReport =>
            InState(ordersReport, "executable") = InState(exState, "executable")

\* A new process has polled nothing.
LEMMA PollInit == Init => PollInv
BY DEF Init, PollInv

\* Every step keeps what a report, and the orders once it is applied, say of the exchange.
LEMMA PollStep == TypeInv /\ ReportsOK /\ PollInv /\ [Next]_vars => PollInv'
<1> SUFFICES ASSUME TypeInv, ReportsOK, PollInv, [Next]_vars PROVE PollInv'
  OBVIOUS
<1>1. CASE sync' = "moved"
  BY <1>1 DEF PollInv
<1>2. ASSUME NEW b \in Bets, NEW s1, NEW s2 \in {"matched", "settled", "gone"},
             MoveBet(b, s1, s2)
      PROVE  PollInv'
  <2>1. CASE s1 = "executable"
    BY <1>1, <1>2, <2>1 DEF MoveBet
  <2>2. CASE s1 # "executable"
    <3>1. InState(exState', "executable") = InState(exState, "executable")
      BY <1>2, <2>2 DEF MoveBet, InState, TypeInv, TypeOK
    <3> QED
      BY <1>2, <2>2, <3>1 DEF MoveBet, PollInv, InState, orderVars, pollVars, reportVars
  <2> QED
    BY <2>1, <2>2
<1>3. CASE DayEnds
  <2>1. InState(exState', "executable") = InState(exState, "executable")
    BY <1>3 DEF DayEnds, InState, TypeInv, TypeOK
  <2> QED
    BY <1>3, <2>1 DEF DayEnds, PollInv, InState, orderVars, pollVars, reportVars
<1>4. CASE FetchOrders
  BY <1>4 DEF FetchOrders, PollInv, InState, exchangeVars, orderVars
<1>5. CASE ApplyOrdersReport
  <2>1. DOMAIN openOrders' = InState(ordersReport, "executable")
    BY <1>5 DEF ApplyOrdersReport
  <2>2. exState' = exState /\ ordersReport # NoReport /\ ordersReport' = NoReport
    BY <1>5 DEF ApplyOrdersReport, exchangeVars
  <2>3. sync' = IF sync = "fetched" THEN "applied" ELSE sync
    BY <1>5 DEF ApplyOrdersReport
  <2> QED
    BY <2>1, <2>2, <2>3 DEF PollInv, InState
<1>6. CASE RecordSettlements
  <2>1. DOMAIN openOrders' = DOMAIN openOrders \ (clearedReport \ known)
    BY <1>6 DEF RecordSettlements, Restrict
  <2>2. \A b \in clearedReport : exState[b] # "executable"
    BY <1>6 DEF RecordSettlements, ReportsOK
  <2>3. UNCHANGED <<exState, ordersReport, sync>>
    BY <1>6 DEF RecordSettlements, exchangeVars
  <2> QED
    BY <2>1, <2>2, <2>3 DEF PollInv, InState
<1>7. CASE UNCHANGED <<exState, openOrders, ordersReport, sync>>
  BY <1>7 DEF PollInv, InState
<1>8. ASSUME NEW b \in Bets, Exchange(b) PROVE PollInv'
  BY <1>2, <1>8 DEF Exchange, Match, Lapse, Settle
<1>9. ASSUME NEW w \in Workers, Place(w) PROVE PollInv'
  BY <1>1, <1>7, <1>9
     DEF Place, CheckCap, Accept, Reject, LoseReply, RecordPlacement, exchangeVars, orderVars,
         pollVars, reportVars
<1> QED
  BY <1>1, <1>3, <1>4, <1>5, <1>6, <1>7, <1>8, <1>9
     DEF Next, FetchCleared, PollerEnds, StartPollers, ResetStats, Restart, exchangeVars,
         orderVars, pollVars, reportVars, vars

\* One applied report puts the open orders right and they stay right until an order is
\* placed, matched or lapses, whatever was lost, stale or restarted before, and for any
\* interleaving of the two pollers, the workers and the resets.
THEOREM OnePollRepairsHolds == Spec => []OnePollRepairs
<1>1. PollInv => OnePollRepairs
  BY DEF PollInv, OnePollRepairs
<1> QED
  BY <1>1, PollInit, PollStep, ReportsInit, ReportsStep, TypeCorrect, PTL DEF Spec

----------------------------------------------------------------------------
(* Exposure                                                                *)

\* A process starts with no orders.
LEMMA ExposureInit == Init => ExposureOfPositions
BY DEF Init, ExposureOfPositions

\* Every step that changes the open orders sums them again.
LEMMA ExposureStep == ExposureOfPositions /\ [Next]_vars => ExposureOfPositions'
<1> SUFFICES ASSUME ExposureOfPositions, [Next]_vars PROVE ExposureOfPositions'
  OBVIOUS
<1>1. CASE exposed' = openOrders'
  BY <1>1 DEF ExposureOfPositions
<1>2. CASE ResetStats
  BY <1>2 DEF ResetStats, ExposureOfPositions
<1>3. CASE UNCHANGED orderVars
  BY <1>3 DEF orderVars, ExposureOfPositions
<1> QED
  BY <1>1, <1>2, <1>3
     DEF Next, Place, CheckCap, Accept, Reject, LoseReply, RecordPlacement, Exchange,
         Match, Lapse, Settle, MoveBet, DayEnds, FetchOrders, ApplyOrdersReport,
         FetchCleared, RecordSettlements, PollerEnds, StartPollers, Restart, orderVars, vars

\* The exposure the portal shows is that of the positions it shows, or zero after a
\* reset, whatever reports, settlements and resets come in whatever order.
THEOREM ExposureHolds == Spec => []ExposureOfPositions
BY ExposureInit, ExposureStep, PTL DEF Spec

----------------------------------------------------------------------------
(* The abstract budget                                                     *)

\* Bets hold nothing and nothing is spent when a process starts.
LEMMA BudgetInit == Init => Budget!Init
BY DEF Init, Budget!Init

\* A step of a placing worker is a step of its holder, or none.
LEMMA BudgetWorker ==
  ASSUME TypeInv, NEW w \in Workers, Place(w)
  PROVE  Budget!Grant(w) \/ Budget!Spend(w) \/ Budget!GiveBack(w)
         \/ UNCHANGED <<totalStake, stakeOf>>
<1>1. pc[w] = "idle" => stakeOf[w] = 0
  BY DEF TypeInv, WorkersOK
<1>2. pc[w] # "idle" => stakeOf[w] # 0
  BY Constants DEF TypeInv, WorkersOK, ConstantsOK
<1>3. CASE CheckCap(w)
  <2>1. PICK s \in Stakes : WithinCap(s) /\ stakeOf' = [stakeOf EXCEPT ![w] = s]
    BY <1>3 DEF CheckCap
  <2>2. Budget!Fits(s)
    BY <2>1, Constants DEF WithinCap, Budget!Fits, ConstantsOK
  <2>3. stakeOf[w] = 0 /\ totalStake' = totalStake
    BY <1>1, <1>3 DEF CheckCap, statsVars
  <2> QED
    BY <2>1, <2>2, <2>3 DEF Budget!Grant
<1>4. ASSUME NEW b \in Bets, Accept(w, b) PROVE UNCHANGED <<totalStake, stakeOf>>
  BY <1>4 DEF Accept, statsVars
<1>5. CASE Reject(w) \/ LoseReply(w)
  BY <1>2, <1>5 DEF Reject, LoseReply, Finish, Budget!GiveBack, statsVars
<1>6. CASE RecordPlacement(w)
  BY <1>2, <1>6 DEF RecordPlacement, Finish, Budget!Spend
<1> QED
  BY <1>3, <1>4, <1>5, <1>6 DEF Place

\* Every step of the ledger is a step of the budget, or none.
LEMMA BudgetStep == TypeInv /\ [Next]_vars => [Budget!Next]_<<totalStake, stakeOf>>
<1> SUFFICES ASSUME TypeInv, [Next]_vars
             PROVE  Budget!Next \/ UNCHANGED <<totalStake, stakeOf>>
  OBVIOUS
<1>1. ASSUME NEW w \in Workers, Place(w)
      PROVE  Budget!Next \/ UNCHANGED <<totalStake, stakeOf>>
  BY <1>1, BudgetWorker DEF Budget!Next
<1>2. CASE ResetStats
  BY <1>2 DEF ResetStats, workerVars, Budget!Renew, Budget!Next
<1>3. CASE Restart
  BY <1>3 DEF Restart, Budget!StartOver, Budget!Next
<1>4. CASE UNCHANGED <<totalStake, stakeOf>>
  BY <1>4
<1> QED
  BY <1>1, <1>2, <1>3, <1>4
     DEF Next, Exchange, Match, Lapse, Settle, MoveBet, DayEnds, FetchOrders,
         ApplyOrdersReport, FetchCleared, RecordSettlements, PollerEnds, StartPollers,
         workerVars, statsVars, vars

\* The placement of bets implements the abstract budget, for any workers, stakes
\* and cap: no stake is counted that did not pass the check, and none is counted
\* twice or in part.
THEOREM BudgetKeptHolds == Spec => BudgetKept
BY BudgetInit, BudgetStep, TypeCorrect, PTL DEF Spec, BudgetKept, Budget!Spec

----------------------------------------------------------------------------
(* What the exchange takes (DailySpend).  A stake is a set of units of     *)
(* money, so that a sum of stakes is the size of a set.                    *)

UnitsOf(A, f) == {unit \in A \X (1..MaxStake) : unit[2] <= f[unit[1]]}

Units == UnitsOf(Accepted, stakeOf)

\* A set of workers has finitely many units, those of none are none, and there are
\* at most as many as its largest stakes have.
LEMMA UnitsFinite ==
  ASSUME NEW A \in SUBSET Workers, NEW f
  PROVE  /\ IsFiniteSet(UnitsOf(A, f)) /\ Cardinality(UnitsOf(A, f)) \in Nat
         /\ Cardinality(UnitsOf(A, f)) <= Cardinality(A) * MaxStake
         /\ A = {} => Cardinality(UnitsOf(A, f)) = 0
<1>1. IsFiniteSet(A)
  BY InFlightFinite
<1>2. IsFiniteSet(1..MaxStake) /\ Cardinality(1..MaxStake) = MaxStake
  BY FS_Interval, StakesAreNat
<1>3. /\ IsFiniteSet(A \X (1..MaxStake))
      /\ Cardinality(A \X (1..MaxStake)) = Cardinality(A) * MaxStake
  BY <1>1, <1>2, FS_Product
<1>4. UnitsOf(A, f) \in SUBSET (A \X (1..MaxStake))
  BY DEF UnitsOf
<1>5. /\ IsFiniteSet(UnitsOf(A, f))
      /\ Cardinality(UnitsOf(A, f)) <= Cardinality(A) * MaxStake
  BY <1>3, <1>4, FS_Subset
<1>6. A = {} => UnitsOf(A, f) = {}
  BY DEF UnitsOf
<1> QED
  BY <1>5, <1>6, FS_CardinalityType, FS_EmptySet

\* One more worker adds its stake.
LEMMA UnitsAdd ==
  ASSUME NEW A \in SUBSET Workers, NEW w \in Workers, w \notin A,
         NEW f \in [Workers -> 0..MaxStake]
  PROVE  Cardinality(UnitsOf(A \union {w}, f)) = Cardinality(UnitsOf(A, f)) + f[w]
<1> DEFINE own == {w} \X (1..f[w])
<1>1. f[w] \in Nat /\ f[w] <= MaxStake /\ MaxStake \in Nat
  BY StakesAreNat
<1>2. IsFiniteSet(1..f[w]) /\ Cardinality(1..f[w]) = f[w]
  BY <1>1, FS_Interval
<1>3. IsFiniteSet({w}) /\ Cardinality({w}) = 1
  BY FS_Singleton
<1>4. IsFiniteSet(own) /\ Cardinality(own) = 1 * f[w]
  BY <1>2, <1>3, FS_Product
<1>5. UnitsOf(A \union {w}, f) = UnitsOf(A, f) \union own
  BY <1>1 DEF UnitsOf
<1>6. UnitsOf(A, f) \intersect own = {}
  BY DEF UnitsOf
<1>7. IsFiniteSet(UnitsOf(A, f)) /\ Cardinality(UnitsOf(A, f)) \in Nat
  BY UnitsFinite
<1> HIDE DEF own
<1>8. Cardinality(UnitsOf(A, f) \union own)
        = Cardinality(UnitsOf(A, f)) + Cardinality(own) - Cardinality(UnitsOf(A, f) \intersect own)
  BY <1>4, <1>7, FS_Union
<1>9. Cardinality(UnitsOf(A, f) \intersect own) = 0
  BY <1>6, FS_EmptySet
<1>10. Cardinality(own) = f[w]
  BY <1>1, <1>4
<1>11. Cardinality(UnitsOf(A, f) \union own) = Cardinality(UnitsOf(A, f)) + f[w]
  BY <1>1, <1>7, <1>8, <1>9, <1>10
<1> QED
  BY <1>5, <1>11

\* The units of a worker depend on its stake alone.
LEMMA UnitsSame ==
  ASSUME NEW A, NEW f, NEW g, \A w \in A : f[w] = g[w]
  PROVE  UnitsOf(A, f) = UnitsOf(A, g)
BY DEF UnitsOf

\* Stakes are at most the largest one.
LEMMA StakeRange == TypeInv => stakeOf \in [Workers -> 0..MaxStake]
BY StakesAreNat DEF TypeInv, TypeOK

\* What is counted and what is accepted but not yet recorded fit one ceiling.
LEMMA CountedFits ==
  ASSUME TypeInv, CapIInv, CapEnabled, Cap > 0
  PROVE  totalStake + Cardinality(Units) <= Ceiling
<1>1. PICK w \in Workers :
        totalStake + Cardinality(Others(w)) * MaxStake + stakeOf[w]
          <= Cap + (Cardinality(Workers) - 1) * MaxStake
  BY DEF CapIInv
<1> DEFINE rest == Accepted \ {w}
<1>2. rest \in SUBSET Others(w) /\ Others(w) \in SUBSET (Workers \ {w}) /\ w \notin rest
  BY DEF Accepted, Others, InFlight
<1>3. Cardinality(rest) <= Cardinality(Others(w))
  BY <1>2, InFlightFinite, FS_Subset
<1>4. Cardinality(rest) * MaxStake <= Cardinality(Others(w)) * MaxStake
  BY <1>2, <1>3, InFlightFinite, StakesAreNat, TimesMono
<1>5. /\ Cardinality(UnitsOf(rest, stakeOf)) \in Nat
      /\ Cardinality(UnitsOf(rest, stakeOf)) <= Cardinality(rest) * MaxStake
  BY <1>2, UnitsFinite
<1>6. Cardinality(Units) <= Cardinality(UnitsOf(rest, stakeOf)) + stakeOf[w]
  <2>1. CASE w \in Accepted
    <3>1. Accepted = rest \union {w}
      BY <2>1
    <3> HIDE DEF rest
    <3>2. Cardinality(UnitsOf(rest \union {w}, stakeOf))
            = Cardinality(UnitsOf(rest, stakeOf)) + stakeOf[w]
      BY <1>2, StakeRange, UnitsAdd
    <3>3. stakeOf[w] \in Nat
      BY StakeRange
    <3> QED
      BY <1>5, <3>1, <3>2, <3>3 DEF Units
  <2>2. CASE w \notin Accepted
    <3>1. Accepted = rest
      BY <2>2
    <3>2. stakeOf[w] \in Nat
      BY StakeRange
    <3>3. Units = UnitsOf(rest, stakeOf)
      BY <3>1 DEF Units
    <3> HIDE DEF rest
    <3> QED
      BY <1>5, <3>2, <3>3
  <2> QED
    BY <2>1, <2>2
<1>7. /\ totalStake \in Nat /\ stakeOf[w] \in Nat /\ Cardinality(Units) \in Nat
      /\ Cardinality(rest) * MaxStake \in Nat /\ Cardinality(Others(w)) * MaxStake \in Nat
  <2>1. Accepted \in SUBSET Workers
    BY DEF Accepted
  <2>2. Cardinality(rest) \in Nat /\ Cardinality(Others(w)) \in Nat
    BY <1>2, InFlightFinite
  <2> QED
    BY <2>1, <2>2, UnitsFinite, StakeRange, StakesAreNat, TimesStep DEF Units, TypeInv, TypeOK
<1>8. Ceiling = Cap + (Cardinality(Workers) - 1) * MaxStake /\ Ceiling \in Nat
  <2>1. (Cardinality(Workers) - 1) * MaxStake \in Nat
    BY <1>2, OthersCount
  <2> QED
    BY <2>1, Constants DEF Ceiling, ConstantsOK
<1> QED
  BY <1>1, <1>4, <1>5, <1>6, <1>7, <1>8

\* Every step of the ledger with its history is a step of the ledger.
LEMMA DailyNextIsNext == [DailyNext]_dailyVars => [Next]_vars
<1>1. DailyNext => Next
  BY DEF DailyNext, Take, Miss, Reset, Crash, Elsewhere, Next, Place
<1>2. UNCHANGED dailyVars => UNCHANGED vars
  BY DEF dailyVars
<1> QED
  BY <1>1, <1>2

\* The history only watches: what is proved of every behaviour of the ledger holds
\* of every behaviour of the ledger with its history, the ones the run explores.
THEOREM DailyIsLedger == DailySpec => Spec
<1>1. DailyInit => Init
  BY DEF DailyInit
<1> QED
  BY <1>1, DailyNextIsNext, PTL DEF DailySpec, Spec

SpendTypeOK == taken \in Nat /\ lost \in Nat /\ renewals \in Nat

\* The strengthening of TakenWithinCeilings: what was taken and is neither counted
\* nor on its way belongs to an earlier life of the total, or its reply was lost.
SpendInv ==
  /\ SpendTypeOK
  /\ CapEnabled /\ Cap > 0 =>
       taken <= renewals * Ceiling + totalStake + Cardinality(Units) + lost * MaxStake

DailyInv == TypeInv /\ CapIInv /\ SpendInv

\* The numbers the argument adds up.
LEMMA SpendNumbers ==
  ASSUME TypeInv, NEW n \in Nat
  PROVE  /\ Ceiling \in Nat /\ n * Ceiling \in Nat /\ (n + 1) * Ceiling = n * Ceiling + Ceiling
         /\ n * MaxStake \in Nat /\ (n + 1) * MaxStake = n * MaxStake + MaxStake
         /\ totalStake \in Nat /\ Cardinality(Units) \in Nat /\ MaxStake \in Nat
         /\ \A w \in Workers : stakeOf[w] \in 0..MaxStake
<1>1. PICK w \in Workers : TRUE
  BY Constants DEF ConstantsOK
<1>2. {} \in SUBSET (Workers \ {w})
  OBVIOUS
<1>3. (Cardinality(Workers) - 1) * MaxStake \in Nat
  BY <1>2, OthersCount
<1>4. Ceiling \in Nat
  BY <1>3, Constants DEF Ceiling, ConstantsOK
<1>5. Accepted \in SUBSET Workers
  BY DEF Accepted
<1>6. totalStake \in Nat /\ Cardinality(Units) \in Nat /\ MaxStake \in Nat
  BY <1>5, UnitsFinite, StakesAreNat DEF Units, TypeInv, TypeOK
<1>7. n * Ceiling \in Nat /\ (n + 1) * Ceiling = n * Ceiling + Ceiling
  BY <1>4, TimesStep
<1>8. n * MaxStake \in Nat /\ (n + 1) * MaxStake = n * MaxStake + MaxStake
  BY <1>6, TimesStep
<1> QED
  BY <1>4, <1>6, <1>7, <1>8, StakeRange

\* The bound holds initially.
LEMMA DailyInvInit == DailyInit => DailyInv
<1> SUFFICES ASSUME DailyInit PROVE DailyInv
  OBVIOUS
<1>1. TypeInv /\ CapIInv
  BY TypeInit, CapInit DEF DailyInit
<1>2. SpendTypeOK /\ taken = 0
  BY DEF DailyInit, SpendTypeOK
<1>3. /\ renewals * Ceiling \in Nat /\ totalStake \in Nat /\ Cardinality(Units) \in Nat
      /\ lost * MaxStake \in Nat
  BY <1>1, <1>2, SpendNumbers DEF SpendTypeOK
<1> QED
  BY <1>1, <1>2, <1>3 DEF DailyInv, SpendInv

\* A bet the exchange takes is on its way.
LEMMA SpendTake ==
  ASSUME DailyInv, NEW w \in Workers, NEW b \in Bets, Take(w, b)
  PROVE  SpendInv'
<1> USE DEF DailyInv
<1>1. w \notin Accepted /\ Accepted' = Accepted \union {w} /\ stakeOf' = stakeOf
  BY DEF Take, Accept, Accepted, TypeInv, TypeOK
<1>2. Cardinality(Units') = Cardinality(Units) + stakeOf[w]
  <2>1. Accepted \in SUBSET Workers
    BY DEF Accepted
  <2>2. Cardinality(UnitsOf(Accepted \union {w}, stakeOf)) = Cardinality(Units) + stakeOf[w]
    BY <1>1, <2>1, StakeRange, UnitsAdd DEF Units
  <2>3. Units' = UnitsOf(Accepted \union {w}, stakeOf)
    BY <1>1 DEF Units, UnitsOf
  <2> QED
    BY <2>2, <2>3
<1>3. /\ taken' = taken + stakeOf[w] /\ lost' = lost /\ renewals' = renewals
      /\ totalStake' = totalStake
  BY DEF Take, Accept, statsVars
<1>4. SpendTypeOK' /\ stakeOf[w] \in Nat
  BY <1>3, StakeRange DEF SpendInv, SpendTypeOK
<1> SUFFICES ASSUME CapEnabled, Cap > 0
             PROVE  taken' <= renewals' * Ceiling + totalStake' + Cardinality(Units')
                                + lost' * MaxStake
  BY <1>4 DEF SpendInv, Ceiling
<1>5. /\ renewals * Ceiling \in Nat /\ totalStake \in Nat /\ Cardinality(Units) \in Nat
      /\ lost * MaxStake \in Nat
  BY SpendNumbers DEF SpendInv, SpendTypeOK
<1> QED
  BY <1>2, <1>3, <1>4, <1>5 DEF SpendInv, SpendTypeOK

\* A worker that is done takes its stake with it.
LEMMA UnitsFinish ==
  ASSUME TypeInv, NEW w \in Workers, Finish(w)
  PROVE  /\ pc[w] = "accepted" => Cardinality(Units) = Cardinality(Units') + stakeOf[w]
         /\ pc[w] # "accepted" => Cardinality(Units) = Cardinality(Units')
<1>1. Accepted' = Accepted \ {w} /\ Accepted \in SUBSET Workers
  BY DEF Finish, Accepted, TypeInv, TypeOK
<1>2. Units' = UnitsOf(Accepted \ {w}, stakeOf)
  <2>1. \A v \in Accepted \ {w} : stakeOf'[v] = stakeOf[v]
    BY <1>1 DEF Finish, TypeInv, TypeOK
  <2>2. UnitsOf(Accepted \ {w}, stakeOf') = UnitsOf(Accepted \ {w}, stakeOf)
    BY <2>1, UnitsSame
  <2>3. Units' = UnitsOf(Accepted \ {w}, stakeOf')
    BY <1>1 DEF Units, UnitsOf
  <2> QED
    BY <2>2, <2>3
<1>3. CASE pc[w] = "accepted"
  <2>1. Accepted = (Accepted \ {w}) \union {w} /\ Accepted \ {w} \in SUBSET Workers
    BY <1>1, <1>3 DEF Accepted
  <2>2. Cardinality(UnitsOf((Accepted \ {w}) \union {w}, stakeOf))
          = Cardinality(UnitsOf(Accepted \ {w}, stakeOf)) + stakeOf[w]
    BY <2>1, StakeRange, UnitsAdd
  <2>3. Cardinality(Units) = Cardinality(UnitsOf(Accepted \ {w}, stakeOf)) + stakeOf[w]
    BY <2>1, <2>2 DEF Units
  <2> QED
    BY <1>2, <1>3, <2>3
<1>4. CASE pc[w] # "accepted"
  <2>1. Accepted \ {w} = Accepted
    BY <1>4 DEF Accepted
  <2> QED
    BY <1>2, <1>4, <2>1 DEF Units
<1> QED
  BY <1>3, <1>4

\* A bet that is counted, given up or lost leaves the bound as it is.
LEMMA SpendFinish ==
  ASSUME DailyInv, NEW w \in Workers, Finish(w), UNCHANGED <<taken, renewals>>,
         \/ pc[w] = "checked" /\ totalStake' = totalStake /\ lost' = lost
         \/ pc[w] = "accepted" /\ totalStake' = totalStake /\ lost' = lost + 1
         \/ pc[w] = "accepted" /\ totalStake' = totalStake + stakeOf[w] /\ lost' = lost
  PROVE  SpendInv'
<1> USE DEF DailyInv
<1>1. SpendTypeOK /\ SpendTypeOK'
  BY DEF SpendInv, SpendTypeOK
<1>2. /\ renewals * Ceiling \in Nat /\ totalStake \in Nat /\ Cardinality(Units) \in Nat
      /\ stakeOf[w] \in 0..MaxStake /\ MaxStake \in Nat
      /\ lost * MaxStake \in Nat /\ (lost + 1) * MaxStake = lost * MaxStake + MaxStake
  <2>1. renewals * Ceiling \in Nat
    BY <1>1, SpendNumbers DEF SpendTypeOK
  <2> QED
    BY <1>1, <2>1, SpendNumbers DEF SpendTypeOK
<1>3. Cardinality(Units') \in Nat
  <2>1. Accepted' \in SUBSET Workers
    BY DEF Accepted
  <2>2. Cardinality(UnitsOf(Accepted', stakeOf')) \in Nat
    BY <2>1, UnitsFinite
  <2> QED
    BY <2>2 DEF Units, UnitsOf
<1> SUFFICES ASSUME CapEnabled, Cap > 0
             PROVE  taken' <= renewals' * Ceiling + totalStake' + Cardinality(Units')
                                + lost' * MaxStake
  BY <1>1 DEF SpendInv, Ceiling
<1>4. taken <= renewals * Ceiling + totalStake + Cardinality(Units) + lost * MaxStake
  BY DEF SpendInv
<1>5. taken' = taken /\ renewals' = renewals /\ taken \in Nat
  BY <1>1 DEF SpendTypeOK
<1>6. CASE pc[w] = "checked" /\ totalStake' = totalStake /\ lost' = lost
  BY <1>2, <1>4, <1>5, <1>6, UnitsFinish
<1>7. CASE pc[w] = "accepted" /\ totalStake' = totalStake /\ lost' = lost + 1
  <2>1. Cardinality(Units) = Cardinality(Units') + stakeOf[w]
    BY <1>7, UnitsFinish
  <2>2. lost' * MaxStake = lost * MaxStake + MaxStake
    BY <1>2, <1>7
  <2> QED
    BY <1>2, <1>3, <1>4, <1>5, <1>7, <2>1, <2>2
<1>8. CASE pc[w] = "accepted" /\ totalStake' = totalStake + stakeOf[w] /\ lost' = lost
  <2>1. Cardinality(Units) = Cardinality(Units') + stakeOf[w]
    BY <1>8, UnitsFinish
  <2> QED
    BY <1>2, <1>3, <1>4, <1>5, <1>8, <2>1
<1> QED
  BY <1>6, <1>7, <1>8

\* Where neither the figures nor the units on their way change, the bound stays.
LEMMA SpendSame ==
  ASSUME SpendInv, UNCHANGED <<taken, lost, renewals, totalStake>>, Units' = Units
  PROVE  SpendInv'
BY DEF SpendInv, SpendTypeOK, Ceiling

\* A check puts no stake on its way.
LEMMA SpendCheck ==
  ASSUME DailyInv, NEW w \in Workers, CheckCap(w), UNCHANGED spendVars
  PROVE  SpendInv'
<1>1. Accepted' = Accepted /\ w \notin Accepted
  BY DEF CheckCap, Accepted, DailyInv, TypeInv, TypeOK
<1>2. \A v \in Accepted : stakeOf'[v] = stakeOf[v]
  BY <1>1 DEF CheckCap, Accepted, DailyInv, TypeInv, TypeOK
<1>3. UnitsOf(Accepted, stakeOf') = UnitsOf(Accepted, stakeOf)
  BY <1>2, UnitsSame
<1>4. Units' = Units
  BY <1>1, <1>3 DEF Units, UnitsOf
<1> QED
  BY <1>4, SpendSame DEF CheckCap, statsVars, spendVars, DailyInv

\* A renewal of the total opens another ceiling; a restart gives the replies on their
\* way up for lost.
LEMMA SpendRenew ==
  ASSUME DailyInv, Renew, totalStake' = 0,
         \/ UNCHANGED <<pc, stakeOf, lost>>
         \/ pc' = [w \in Workers |-> "idle"] /\ lost' = lost + Cardinality(Accepted)
  PROVE  SpendInv'
<1> USE DEF DailyInv
<1>1. SpendTypeOK /\ taken' = taken /\ renewals' = renewals + 1
  BY DEF SpendInv, Renew
<1>2. Accepted \in SUBSET Workers
  BY DEF Accepted
<1>3. Cardinality(Accepted) \in Nat
  BY <1>2, InFlightFinite
<1>4. SpendTypeOK'
  BY <1>1, <1>3 DEF SpendTypeOK
<1> SUFFICES ASSUME CapEnabled, Cap > 0
             PROVE  taken' <= renewals' * Ceiling + totalStake' + Cardinality(Units')
                                + lost' * MaxStake
  BY <1>4 DEF SpendInv, Ceiling
<1>5. taken <= renewals * Ceiling + totalStake + Cardinality(Units) + lost * MaxStake
  BY DEF SpendInv
<1>6. /\ Ceiling \in Nat /\ renewals * Ceiling \in Nat /\ totalStake \in Nat
      /\ Cardinality(Units) \in Nat /\ MaxStake \in Nat
      /\ renewals' * Ceiling = renewals * Ceiling + Ceiling
  BY <1>1, SpendNumbers DEF SpendTypeOK
<1>7. lost * MaxStake \in Nat
  BY <1>1, SpendNumbers DEF SpendTypeOK
<1>8. totalStake + Cardinality(Units) <= Ceiling
  BY CountedFits
<1>9. lost * MaxStake <= lost' * MaxStake /\ lost' * MaxStake \in Nat
  <2>1. lost \in Nat /\ lost' \in Nat /\ lost <= lost'
    BY <1>1, <1>3, <1>4 DEF SpendTypeOK
  <2> QED
    BY <1>6, <2>1, TimesMono, TimesStep
<1>10. Cardinality(Units') \in Nat
  <2>1. Accepted' \in SUBSET Workers
    BY DEF Accepted
  <2>2. Cardinality(UnitsOf(Accepted', stakeOf')) \in Nat
    BY <2>1, UnitsFinite
  <2> QED
    BY <2>2 DEF Units, UnitsOf
<1> QED
  BY <1>1, <1>5, <1>6, <1>7, <1>8, <1>9, <1>10 DEF SpendTypeOK

\* Every step keeps the bound.
LEMMA DailyInvStep == DailyInv /\ [DailyNext]_dailyVars => DailyInv'
<1> SUFFICES ASSUME DailyInv, [DailyNext]_dailyVars PROVE DailyInv'
  OBVIOUS
<1>1. TypeInv' /\ CapIInv'
  BY DailyNextIsNext, TypeStep, CapStep DEF DailyInv
<1> SUFFICES SpendInv'
  BY <1>1 DEF DailyInv
<1>2. ASSUME NEW w \in Workers, NEW b \in Bets, Take(w, b) PROVE SpendInv'
  BY <1>2, SpendTake
<1>3. ASSUME NEW w \in Workers, Miss(w) PROVE SpendInv'
  BY <1>3, SpendFinish DEF Miss, LoseReply, statsVars
<1>4. CASE Reset
  BY <1>4, SpendRenew DEF Reset, ResetStats, workerVars
<1>5. CASE Crash
  BY <1>5, SpendRenew DEF Crash, Restart
<1>6. CASE Elsewhere
  <2>1. UNCHANGED <<taken, lost, renewals>>
    BY <1>6 DEF Elsewhere, spendVars
  <2>2. ASSUME NEW w \in Workers, CheckCap(w) PROVE SpendInv'
    BY <1>6, <2>2, SpendCheck DEF Elsewhere
  <2>3. ASSUME NEW w \in Workers, Reject(w) \/ RecordPlacement(w) PROVE SpendInv'
    BY <2>1, <2>3, SpendFinish DEF Reject, RecordPlacement, statsVars
  <2>4. ASSUME UNCHANGED <<pc, stakeOf, totalStake>> PROVE SpendInv'
    <3>1. Units' = Units
      BY <2>4 DEF Units, UnitsOf, Accepted
    <3> QED
      BY <2>1, <2>4, <3>1, SpendSame DEF DailyInv
  <2> QED
    BY <1>6, <2>2, <2>3, <2>4
       DEF Elsewhere, Exchange, Match, Lapse, Settle, MoveBet, DayEnds, FetchOrders,
           ApplyOrdersReport, FetchCleared, RecordSettlements, PollerEnds, StartPollers,
           workerVars, statsVars
<1>7. CASE UNCHANGED dailyVars
  <2>1. UNCHANGED <<pc, stakeOf, totalStake, taken, lost, renewals>>
    BY <1>7 DEF dailyVars, vars, spendVars
  <2>2. Units' = Units
    BY <2>1 DEF Units, UnitsOf, Accepted
  <2> QED
    BY <2>1, <2>2, SpendSame DEF DailyInv
<1> QED
  BY <1>2, <1>3, <1>4, <1>5, <1>6, <1>7 DEF DailyNext

\* With the cap enforced the exchange never takes more than one ceiling for each life
\* of total_stake and one largest stake for each lost reply, for any number of
\* threads, bets, stakes, resets and restarts.
THEOREM TakenWithinCeilingsHolds == DailySpec => []TakenWithinCeilings
<1>1. DailyInv => TakenWithinCeilings
  <2> SUFFICES ASSUME DailyInv, CapEnabled, Cap > 0
               PROVE  taken <= (renewals + 1) * Ceiling + lost * MaxStake
    BY DEF TakenWithinCeilings
  <2> USE DEF DailyInv
  <2>1. taken <= renewals * Ceiling + totalStake + Cardinality(Units) + lost * MaxStake
    BY DEF SpendInv
  <2>2. taken \in Nat /\ lost \in Nat /\ renewals \in Nat
    BY DEF SpendInv, SpendTypeOK
  <2>3. /\ Ceiling \in Nat /\ renewals * Ceiling \in Nat /\ totalStake \in Nat
        /\ Cardinality(Units) \in Nat
        /\ (renewals + 1) * Ceiling = renewals * Ceiling + Ceiling
    BY <2>2, SpendNumbers
  <2>4. lost * MaxStake \in Nat
    BY <2>2, SpendNumbers
  <2>5. totalStake + Cardinality(Units) <= Ceiling
    BY CountedFits
  <2> QED
    BY <2>1, <2>2, <2>3, <2>4, <2>5
<1> QED
  BY <1>1, DailyInvInit, DailyInvStep, PTL DEF DailySpec

\* On a day without reset, restart and lost reply, a single placing thread keeps the
\* exchange within the cap.
THEOREM CapHoldsAlone ==
  ASSUME Cardinality(Workers) = 1
  PROVE  DailySpec =>
           [](CapEnabled /\ Cap > 0 /\ renewals = 0 /\ lost = 0 => taken <= Cap)
<1>1. Ceiling = Cap
  BY StakesAreNat, Constants DEF Ceiling, ConstantsOK
<1>2. 0 * MaxStake = 0 /\ (0 + 1) * Ceiling = Cap
  BY <1>1, StakesAreNat, Constants DEF ConstantsOK
<1>3. TakenWithinCeilings =>
        (CapEnabled /\ Cap > 0 /\ renewals = 0 /\ lost = 0 => taken <= Cap)
  BY <1>2, Constants DEF TakenWithinCeilings, ConstantsOK
<1> QED
  BY <1>3, TakenWithinCeilingsHolds, PTL
=============================================================================
