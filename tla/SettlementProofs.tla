-------------------------- MODULE SettlementProofs --------------------------
(***************************************************************************)
(* The invariants of Settlement, proved for any set of bets and any bounds *)
(* on the days, the restarts and the times a bet is forgotten.             *)
(***************************************************************************)
EXTENDS Settlement, FiniteSetTheorems, TLAPS

\* How many rows a bet has, or is about to get.
Held(b) == rows[b] + (IF b \in queue THEN 1 ELSE 0)

\* A bet the exchange has not settled has left no trace.
SettledFirst ==
  \A b \in Bets :
    /\ settledOn[b] <= day
    /\ settledOn[b] = 0 => rows[b] = 0 /\ b \notin queue \union report \union known

\* What makes RowsJustified inductive: a bet that is not known, while a poll can
\* still bring it, has a row less to its account.
UnknownOwed ==
  \A b \in Bets : b \in Fetchable /\ b \notin known => Held(b) <= forgotten[b]

RowsInv ==
  /\ TypeOK
  /\ SettledFirst
  /\ UnknownOwed
  /\ \A b \in Bets : Held(b) <= 1 + forgotten[b]

KnownInv == TypeOK /\ KnownHasRow

\* The outcomes the engine counts are those of bets it knows.
CountedOnce == counted <= Cardinality(known)

CountInv == TypeOK /\ CountedOnce

\* The figures on their way to the bucket count no more than had settled by then.
SnapshotCountsOnce ==
  \A d \in Days : pc = "publishing" /\ snapshot.day = d =>
    snapshot.settled <= Cardinality(SettledBy(d))

SummaryInv ==
  /\ TypeOK /\ SettledFirst /\ CountedOnce
  /\ SnapshotCountsOnce
  /\ SummaryCountsOnce

\* What makes SummaryKeepsCount inductive: while the counters were not lost, they
\* have not fallen below today's summary nor below the snapshot, and no later day
\* has a summary.
KeepInv ==
  /\ TypeOK
  /\ \A d \in Days : d > day => summary[d] = 0
  /\ pc # "publishing" /\ ~lost => summary[day] <= counted
  /\ pc = "publishing" =>
       /\ snapshot.day <= day
       /\ \A d \in Days : d > snapshot.day => summary[d] = 0
       /\ ~lost => snapshot.settled <= counted
       /\ ~snapshot.lost => summary[snapshot.day] <= snapshot.settled

----------------------------------------------------------------------------
(* Pages                                                                   *)

\* A page holds none but the bets asked for.
LEMMA PageOfBets == ASSUME NEW S, NEW page \in FirstPage(S) PROVE page \subseteq S
BY DEF FirstPage

\* The rows a restart keeps are some of those it read, and all unless it had to cut.
LEMMA NewestOfBets ==
  ASSUME NEW S, NEW kept \in NewestOf(S)
  PROVE  kept \subseteq S /\ (~Truncated(S) => kept = S)
BY DEF NewestOf

----------------------------------------------------------------------------
(* Types                                                                   *)

\* The initial states are well typed.
LEMMA TypeInit == Init => TypeOK
<1> SUFFICES ASSUME Init PROVE TypeOK
  OBVIOUS
<1>1. 1 \in Days /\ 0 \in 0..MaxDays /\ 0 \in 0..MaxRestarts /\ 0 \in 0..MaxForgets
  BY BoundsAssumption DEF Days
<1>2. /\ settledOn \in [Bets -> 0..MaxDays]
      /\ rows \in [Bets -> Nat]
      /\ summary \in [Days -> Nat]
      /\ snapshot \in [day : Days, settled : Nat, lost : BOOLEAN]
      /\ forgotten \in [Bets -> 0..MaxForgets]
  BY <1>1 DEF Init, NoSnapshot
<1> QED
  BY <1>1, <1>2 DEF Init, TypeOK

\* Forgetting a set of bets that may each be forgotten again keeps the type.
LEMMA ForgottenType ==
  ASSUME TypeOK, NEW gone, NoteForgotten(gone)
  PROVE  forgotten' \in [Bets -> 0..MaxForgets]
<1>1. \A b \in Bets : b \in gone => forgotten[b] + 1 \in 0..MaxForgets
  BY BoundsAssumption DEF TypeOK, NoteForgotten
<1> QED
  BY <1>1 DEF TypeOK, NoteForgotten

\* The number of bets in a subset of Bets is a natural number.
LEMMA CardOfBets ==
  ASSUME NEW S \in SUBSET Bets
  PROVE  IsFiniteSet(S) /\ Cardinality(S) \in Nat
BY BetsAssumption, FS_Subset, FS_CardinalityType

\* Every step keeps the types.
LEMMA TypeStep == TypeOK /\ [Next]_vars => TypeOK'
<1> SUFFICES ASSUME TypeOK, [Next]_vars PROVE TypeOK'
  OBVIOUS
<1> USE DEF pollerVars, engineVars, bucketVars, worldVars, historyVars
<1>0. /\ MaxDays \in Nat \ {0} /\ MaxRestarts \in Nat /\ MaxForgets \in Nat
      /\ day \in Nat /\ day > 0 /\ day <= MaxDays
  BY BoundsAssumption DEF TypeOK, Days
<1>1. ASSUME NEW b \in Bets, Settle(b) PROVE TypeOK'
  <2>1. day \in 0..MaxDays
    BY <1>0
  <2> QED
    BY <1>1, <2>1 DEF TypeOK, Settle
<1>2. CASE DayEnds
  <2>1. day' \in Days
    BY <1>0, <1>2 DEF DayEnds, Days
  <2> QED
    BY <1>2, <2>1 DEF TypeOK, DayEnds, Days
<1>3. CASE Poll \/ PollerReturns \/ StartPoller
  BY <1>3 DEF TypeOK, Poll, PollerReturns, StartPoller, Days
<1>4. CASE FetchReturns
  <2>1. report' \subseteq Bets
    BY <1>4, PageOfBets DEF FetchReturns, SettledOn
  <2> QED
    BY <1>4, <2>1 DEF TypeOK, FetchReturns, Days
<1>5. CASE FetchFails
  BY <1>5 DEF TypeOK, FetchFails, Days
<1>6. CASE Record
  <2>1. report \ known \in SUBSET Bets
    BY DEF TypeOK
  <2>2. Cardinality(report \ known) \in Nat
    BY <2>1, CardOfBets
  <2>3. counted' \in Nat
    BY <1>6, <2>2 DEF TypeOK, Record
  <2> QED
    BY <1>6, <2>1, <2>3 DEF TypeOK, Record, Days
<1>7. ASSUME NEW b \in Bets, Append(b) \/ AppendRefused(b) \/ AppendRaises(b)
      PROVE  TypeOK'
  <2>1. rows' \in [Bets -> Nat]
    BY <1>7 DEF TypeOK, Append, AppendRefused, AppendRaises
  <2> QED
    BY <1>7, <2>1 DEF TypeOK, Append, AppendRefused, AppendRaises, Days
<1>8. CASE TakeSnapshot \/ Publish \/ PublishFails
  <2>1. NoSnapshot \in [day : Days, settled : Nat, lost : BOOLEAN]
    BY <1>0 DEF NoSnapshot, Days
  <2>2. snapshot' \in [day : Days, settled : Nat, lost : BOOLEAN]
    BY <1>8, <2>1 DEF TypeOK, TakeSnapshot, Publish, PublishFails
  <2>3. summary' \in [Days -> Nat]
    BY <1>8 DEF TypeOK, TakeSnapshot, Publish, PublishFails
  <2>4. lost' \in BOOLEAN
    BY <1>8 DEF TypeOK, TakeSnapshot, Publish, PublishFails
  <2> QED
    BY <1>8, <2>2, <2>3, <2>4 DEF TypeOK, TakeSnapshot, Publish, PublishFails
<1>9. CASE MidnightReset \/ OperatorReset
  <2>1. forgotten' \in [Bets -> 0..MaxForgets]
    BY <1>9, ForgottenType DEF MidnightReset, OperatorReset, ForgetSettlements
  <2>2. /\ known' = {} /\ counted' = 0 /\ lost' = TRUE
        /\ UNCHANGED <<day, settledOn, pc, fetchDay, report, queue, snapshot, rows, summary,
                       failed, restarts>>
    BY <1>9 DEF MidnightReset, OperatorReset, ForgetSettlements
  <2>3. resetDue' \in BOOLEAN
    BY <1>9 DEF TypeOK, MidnightReset, OperatorReset
  <2> QED
    BY <2>1, <2>2, <2>3 DEF TypeOK, Days
<1>10. CASE ResetLoopEnds
  BY <1>10 DEF TypeOK, ResetLoopEnds, Days
<1>11. CASE Restart
  <2>1. forgotten' \in [Bets -> 0..MaxForgets]
    BY <1>11, ForgottenType DEF Restart
  <2>2. restarts' \in 0..MaxRestarts
    BY <1>0, <1>11 DEF TypeOK, Restart
  <2>3. known' \subseteq Bets
    BY <1>11, NewestOfBets DEF Restart, Reread
  <2>4. snapshot' \in [day : Days, settled : Nat, lost : BOOLEAN]
    BY <1>0, <1>11 DEF Restart, NoSnapshot, Days
  <2> QED
    BY <1>11, <2>1, <2>2, <2>3, <2>4 DEF TypeOK, Restart, Days
<1>12. CASE UNCHANGED vars
  BY <1>12 DEF TypeOK, vars, Days
<1> QED
  BY <1>1, <1>2, <1>3, <1>4, <1>5, <1>6, <1>7, <1>8, <1>9, <1>10, <1>11, <1>12
     DEF Next, Poller

\* Every reachable state is well typed.
THEOREM TypeOKHolds == Spec => []TypeOK
<1>1. Init => TypeOK
  BY TypeInit
<1>2. TypeOK /\ [Next]_vars => TypeOK'
  BY TypeStep
<1> QED
  BY <1>1, <1>2, PTL DEF Spec

----------------------------------------------------------------------------
(* Rows                                                                    *)

\* What is held of a bet is a number.
LEMMA HeldType == TypeOK => \A b \in Bets : Held(b) \in Nat /\ forgotten[b] \in Nat
<1> SUFFICES ASSUME TypeOK, NEW b \in Bets
             PROVE  Held(b) \in Nat /\ forgotten[b] \in Nat
  OBVIOUS
<1>1. rows[b] \in Nat /\ forgotten[b] \in 0..MaxForgets
  BY DEF TypeOK
<1> QED
  BY <1>1, BoundsAssumption DEF Held

\* A step after which every bet is held no more than before, no bet is forgotten or
\* becomes fetchable or unknown, and no bet settles, keeps the invariant.
LEMMA RowsQuiet ==
  ASSUME RowsInv, TypeOK', SettledFirst', UNCHANGED forgotten,
         known \subseteq known', Fetchable' \subseteq Fetchable,
         \A b \in Bets : Held(b)' <= Held(b)
  PROVE  RowsInv'
<1>1. \A b \in Bets : Held(b) \in Nat /\ forgotten[b] \in Nat /\ Held(b)' \in Nat
  <2>1. \A b \in Bets : Held(b) \in Nat /\ forgotten[b] \in Nat
    BY HeldType DEF RowsInv
  <2>2. \A b \in Bets : Held(b)' \in Nat
    BY HeldType, BoundsAssumption DEF TypeOK, Held
  <2> QED
    BY <2>1, <2>2
<1>2. UnknownOwed'
  BY <1>1 DEF RowsInv, UnknownOwed
<1>3. (\A b \in Bets : Held(b) <= 1 + forgotten[b])'
  BY <1>1 DEF RowsInv
<1> QED
  BY <1>2, <1>3 DEF RowsInv

\* No step lets a bet leave a trace before it settles, or settle in the future.
LEMMA SettledStep == TypeOK /\ SettledFirst /\ [Next]_vars => SettledFirst'
<1> SUFFICES ASSUME TypeOK, SettledFirst, [Next]_vars, NEW b \in Bets
             PROVE  /\ settledOn'[b] <= day'
                    /\ settledOn'[b] = 0 =>
                         rows'[b] = 0 /\ b \notin queue' \union report' \union known'
  BY DEF SettledFirst
<1> USE DEF SettledFirst, pollerVars, engineVars, bucketVars, worldVars, historyVars
<1>0. day \in Nat /\ day > 0 /\ settledOn[b] \in Nat /\ fetchDay \in Nat /\ fetchDay > 0
  BY BoundsAssumption DEF TypeOK, Days
<1>1. ASSUME NEW c \in Bets, Settle(c) PROVE settledOn'[b] = settledOn[b] \/ settledOn'[b] = day
  BY <1>1 DEF TypeOK, Settle
<1>2. CASE \E c \in Bets : Settle(c)
  BY <1>0, <1>1, <1>2 DEF Settle
<1>3. CASE DayEnds
  BY <1>0, <1>3 DEF DayEnds
<1>4. CASE Poll \/ PollerReturns \/ StartPoller \/ FetchFails \/ ResetLoopEnds
           \/ TakeSnapshot \/ Publish \/ PublishFails
  BY <1>4 DEF Poll, PollerReturns, StartPoller, FetchFails, ResetLoopEnds, TakeSnapshot,
     Publish, PublishFails
<1>5. CASE FetchReturns
  <2>1. b \in report' => settledOn[b] > 0
    BY <1>0, <1>5, PageOfBets DEF FetchReturns, SettledOn
  <2> QED
    BY <1>5, <2>1 DEF FetchReturns
<1>6. CASE Record
  BY <1>6 DEF Record
<1>7. ASSUME NEW c \in Bets, Append(c) \/ AppendRefused(c) \/ AppendRaises(c)
      PROVE  /\ c \in queue /\ queue' \subseteq queue
             /\ b # c => rows'[b] = rows[b]
             /\ UNCHANGED <<settledOn, day, report, known>>
  BY <1>7 DEF TypeOK, Append, AppendRefused, AppendRaises
<1>8. CASE \E c \in Bets : Append(c) \/ AppendRefused(c) \/ AppendRaises(c)
  BY <1>7, <1>8
<1>9. CASE MidnightReset \/ OperatorReset
  BY <1>9 DEF MidnightReset, OperatorReset, ForgetSettlements
<1>10. CASE Restart
  BY <1>10, NewestOfBets DEF Restart, Reread
<1>11. CASE UNCHANGED vars
  BY <1>11 DEF vars
<1> QED
  BY <1>2, <1>3, <1>4, <1>5, <1>6, <1>8, <1>9, <1>10, <1>11 DEF Next, Poller

\* Every step keeps the invariant of the rows.
LEMMA RowsStep == RowsInv /\ [Next]_vars => RowsInv'
<1> SUFFICES ASSUME RowsInv, [Next]_vars PROVE RowsInv'
  OBVIOUS
<1> USE DEF pollerVars, engineVars, bucketVars, worldVars, historyVars
<1>0. /\ TypeOK /\ TypeOK' /\ SettledFirst /\ SettledFirst' /\ UnknownOwed
      /\ \A b \in Bets : Held(b) <= 1 + forgotten[b]
  BY TypeStep, SettledStep DEF RowsInv
<1>n. \A b \in Bets : Held(b) \in Nat /\ forgotten[b] \in Nat
  BY <1>0, HeldType
<1>1. ASSUME NEW c \in Bets, Settle(c) PROVE RowsInv'
  <2>1. \A b \in Bets : Held(b)' = Held(b)
    BY <1>1 DEF Settle, Held
  <2>2. \A b \in Bets : b \in Fetchable' => b \in Fetchable \/ b = c
    BY <1>0, <1>1 DEF TypeOK, Settle, Fetchable, SettledOn
  <2>3. Held(c) = 0
    BY <1>0, <1>1 DEF Settle, SettledFirst, Held
  <2>4. UnknownOwed'
    BY <1>0, <1>1, <1>n, <2>1, <2>2, <2>3 DEF UnknownOwed, Settle
  <2> QED
    BY <1>0, <1>1, <2>1, <2>4 DEF RowsInv, Settle
<1>2. CASE DayEnds
  <2>1. Fetchable' \subseteq Fetchable
    <3>1. SettledOn(day)' = {}
      BY <1>0, <1>2, BoundsAssumption DEF DayEnds, SettledFirst, SettledOn, TypeOK, Days
    <3> QED
      BY <1>2, <3>1 DEF DayEnds, Fetchable, SettledOn
  <2>2. \A b \in Bets : Held(b)' <= Held(b)
    BY <1>2, <1>n DEF DayEnds, Held
  <2> QED
    BY <1>0, <1>2, <2>1, <2>2, RowsQuiet DEF DayEnds
<1>3. CASE Poll \/ PollerReturns \/ StartPoller \/ FetchReturns \/ FetchFails
           \/ TakeSnapshot \/ Publish \/ PublishFails \/ ResetLoopEnds
  <2> USE DEF Poll, PollerReturns, StartPoller, FetchReturns, FetchFails, TakeSnapshot,
        Publish, PublishFails, ResetLoopEnds
  <2>1. Fetchable' \subseteq Fetchable
    BY <1>3, PageOfBets DEF Fetchable, SettledOn
  <2>2. \A b \in Bets : Held(b)' <= Held(b)
    BY <1>3, <1>n DEF Held
  <2> QED
    BY <1>0, <1>3, <2>1, <2>2, RowsQuiet
<1>4. CASE Record
  <2>1. /\ known' = known \union report /\ queue' = report \ known /\ queue = {}
        /\ report' = {} /\ UNCHANGED <<day, settledOn, rows, forgotten>> /\ pc' # "fetching"
        /\ pc = "fetched"
    BY <1>0, <1>4 DEF Record, TypeOK
  <2>2. Fetchable' \subseteq Fetchable /\ report \subseteq Fetchable
    BY <2>1 DEF Fetchable, SettledOn
  <2>3. \A b \in Bets : Held(b)' = IF b \in report \ known THEN Held(b) + 1 ELSE Held(b)
    <3> SUFFICES ASSUME NEW b \in Bets
                 PROVE  Held(b)' = IF b \in report \ known THEN Held(b) + 1 ELSE Held(b)
      OBVIOUS
    <3>1. rows[b] \in Nat
      BY <1>0 DEF TypeOK
    <3> QED
      BY <2>1, <3>1 DEF Held
  <2>4. UnknownOwed'
    BY <1>0, <2>1, <2>2, <2>3 DEF UnknownOwed
  <2>5. (\A b \in Bets : Held(b) <= 1 + forgotten[b])'
    <3>1. \A b \in Bets : b \in report \ known => Held(b) <= forgotten[b]
      BY <1>0, <2>2 DEF UnknownOwed
    <3> QED
      BY <1>0, <1>n, <2>1, <2>3, <3>1
  <2> QED
    BY <1>0, <2>4, <2>5 DEF RowsInv
<1>5. ASSUME NEW c \in Bets, Append(c) \/ AppendRefused(c) \/ AppendRaises(c)
      PROVE  RowsInv'
  <2>1. /\ c \in queue /\ c \notin queue' /\ queue' \subseteq queue
        /\ rows' = rows \/ rows' = [rows EXCEPT ![c] = @ + 1]
        /\ UNCHANGED <<settledOn, day, report, known, forgotten, fetchDay>>
        /\ pc' # "fetching"
    BY <1>5 DEF Append, AppendRefused, AppendRaises
  <2>2. \A b \in Bets : Held(b)' <= Held(b)
    <3> SUFFICES ASSUME NEW b \in Bets PROVE Held(b)' <= Held(b)
      OBVIOUS
    <3>1. rows[b] \in Nat /\ rows'[b] \in Nat
      BY <1>0 DEF TypeOK
    <3>2. b # c => rows'[b] = rows[b]
      BY <1>0, <2>1 DEF TypeOK
    <3>3. rows'[c] <= rows[c] + 1
      BY <1>0, <2>1 DEF TypeOK
    <3> QED
      BY <2>1, <3>1, <3>2, <3>3 DEF Held
  <2>3. Fetchable' \subseteq Fetchable
    BY <2>1 DEF Fetchable, SettledOn
  <2> QED
    BY <1>0, <2>1, <2>2, <2>3, RowsQuiet
<1>6. CASE MidnightReset \/ OperatorReset
  <2>1. /\ known' = {} /\ NoteForgotten(known \intersect Fetchable)
        /\ UNCHANGED <<day, settledOn, pc, fetchDay, report, queue, rows>>
    BY <1>6 DEF MidnightReset, OperatorReset, ForgetSettlements
  <2>2. \A b \in Bets : Held(b)' = Held(b)
    BY <2>1 DEF Held
  <2>3. \A b \in Bets : forgotten'[b] = IF b \in known \intersect Fetchable
                                        THEN forgotten[b] + 1 ELSE forgotten[b]
    BY <2>1 DEF NoteForgotten
  <2>4. Fetchable' = Fetchable
    BY <2>1 DEF Fetchable, SettledOn
  <2>5. UnknownOwed'
    BY <1>0, <1>n, <2>1, <2>2, <2>3, <2>4 DEF UnknownOwed
  <2>6. (\A b \in Bets : Held(b) <= 1 + forgotten[b])'
    BY <1>0, <1>n, <2>2, <2>3
  <2> QED
    BY <1>0, <2>5, <2>6 DEF RowsInv
<1>7. CASE Restart
  <2>1. PICK readable \in SUBSET {day - 1, day} :
          /\ known' \in NewestOf(Reread(readable))
          /\ NoteForgotten({b \in SettledOn(day) \ known' :
                              /\ rows[b] > 0
                              /\ day \notin readable \/ Truncated(Reread(readable))})
    BY <1>7 DEF Restart
  <2>2. /\ pc' # "fetching" /\ report' = {} /\ queue' = {}
        /\ UNCHANGED <<day, settledOn, rows>>
    BY <1>7 DEF Restart
  <2>3. \A b \in Bets : Held(b)' = rows[b] /\ rows[b] \in Nat /\ Held(b)' <= Held(b)
    <3> SUFFICES ASSUME NEW b \in Bets
                 PROVE  Held(b)' = rows[b] /\ rows[b] \in Nat /\ Held(b)' <= Held(b)
      OBVIOUS
    <3>1. rows[b] \in Nat
      BY <1>0 DEF TypeOK
    <3>2. Held(b)' = rows[b]
      BY <2>2, <3>1 DEF Held
    <3> QED
      BY <3>1, <3>2 DEF Held
  <2>4. \A b \in Bets :
          forgotten'[b] = IF /\ b \in SettledOn(day) \ known' /\ rows[b] > 0
                             /\ day \notin readable \/ Truncated(Reread(readable))
                          THEN forgotten[b] + 1 ELSE forgotten[b]
    BY <2>1 DEF NoteForgotten
  <2>5. Fetchable' = SettledOn(day)
    BY <2>2 DEF Fetchable, SettledOn
  <2>6. UnknownOwed'
    <3> SUFFICES ASSUME NEW b \in Bets, b \in SettledOn(day), b \notin known'
                 PROVE  Held(b)' <= forgotten'[b]
      BY <2>5 DEF UnknownOwed
    <3>1. rows[b] = 0 \/ day \notin readable \/ Truncated(Reread(readable))
      BY <2>1, <2>3, NewestOfBets DEF Reread, SettledOn
    <3> QED
      BY <1>0, <1>n, <2>3, <2>4, <3>1
  <2>7. (\A b \in Bets : Held(b) <= 1 + forgotten[b])'
    BY <1>0, <1>n, <2>3, <2>4
  <2> QED
    BY <1>0, <2>6, <2>7 DEF RowsInv
<1>8. CASE UNCHANGED vars
  <2>1. Fetchable' \subseteq Fetchable
    BY <1>8 DEF vars, Fetchable, SettledOn
  <2>2. \A b \in Bets : Held(b)' <= Held(b)
    BY <1>8, <1>n DEF vars, Held
  <2> QED
    BY <1>0, <1>8, <2>1, <2>2, RowsQuiet DEF vars
<1> QED
  BY <1>1, <1>2, <1>3, <1>4, <1>5, <1>6, <1>7, <1>8 DEF Next, Poller

\* A bet's rows exceed one only by the times the engine forgot it while a poll could
\* still bring it.
THEOREM RowsJustifiedHolds == Spec => []RowsJustified
<1>1. Init => RowsInv
  <2> SUFFICES ASSUME Init PROVE RowsInv
    OBVIOUS
  <2>1. \A b \in Bets : Held(b) = 0 /\ forgotten[b] = 0
    BY DEF Init, Held
  <2>2. SettledFirst
    BY DEF Init, SettledFirst
  <2> QED
    BY <2>1, <2>2, TypeInit DEF RowsInv, UnknownOwed
<1>2. RowsInv /\ [Next]_vars => RowsInv'
  BY RowsStep
<1>3. RowsInv => RowsJustified
  <2> SUFFICES ASSUME RowsInv, NEW b \in Bets PROVE rows[b] <= 1 + forgotten[b]
    BY DEF RowsJustified
  <2>1. rows[b] \in Nat /\ forgotten[b] \in Nat /\ Held(b) <= 1 + forgotten[b]
    BY HeldType DEF RowsInv, TypeOK
  <2> QED
    BY <2>1 DEF Held
<1> QED
  BY <1>1, <1>2, <1>3, PTL DEF Spec

----------------------------------------------------------------------------
(* Known settlements                                                       *)

\* Every step keeps KnownHasRow.
LEMMA KnownStep == KnownInv /\ [Next]_vars => KnownInv'
<1> SUFFICES ASSUME KnownInv, [Next]_vars, NEW b \in known'
             PROVE  rows'[b] > 0 \/ b \in queue' \union failed'
  BY TypeStep DEF KnownInv, KnownHasRow
<1> USE DEF pollerVars, engineVars, bucketVars, worldVars, historyVars
<1>0. TypeOK /\ TypeOK' /\ KnownHasRow /\ b \in Bets
  BY TypeStep DEF KnownInv, TypeOK
<1>1. CASE UNCHANGED <<rows, queue, failed, known>>
  BY <1>0, <1>1 DEF KnownHasRow
<1>2. CASE Record
  <2>1. b \in known \/ b \in queue'
    BY <1>2 DEF Record
  <2>2. queue = {} /\ UNCHANGED <<rows, failed>>
    BY <1>0, <1>2 DEF Record, TypeOK
  <2> QED
    BY <1>0, <2>1, <2>2 DEF KnownHasRow
<1>3. ASSUME NEW c \in Bets, Append(c) \/ AppendRefused(c) \/ AppendRaises(c)
      PROVE  rows'[b] > 0 \/ b \in queue' \union failed'
  <2>1. b \in known /\ rows[b] \in Nat /\ rows'[b] \in Nat
    BY <1>0, <1>3 DEF TypeOK, Append, AppendRefused, AppendRaises
  <2>2. CASE rows[b] > 0
    <3>1. rows'[b] >= rows[b]
      BY <1>0, <1>3, <2>1 DEF TypeOK, Append, AppendRefused, AppendRaises
    <3> QED
      BY <2>1, <2>2, <3>1
  <2>3. CASE b \in failed
    BY <1>3, <2>3 DEF Append, AppendRefused, AppendRaises
  <2>4. CASE b \in queue
    <3>1. CASE Append(c)
      <4>1. b = c => rows'[b] = rows[b] + 1
        BY <1>0, <3>1 DEF TypeOK, Append
      <4> QED
        BY <2>1, <2>4, <3>1, <4>1 DEF Append
    <3>2. CASE AppendRefused(c) \/ AppendRaises(c)
      BY <2>4, <3>2 DEF AppendRefused, AppendRaises
    <3> QED
      BY <1>3, <3>1, <3>2
  <2> QED
    BY <1>0, <2>1, <2>2, <2>3, <2>4 DEF KnownHasRow
<1>4. CASE MidnightReset \/ OperatorReset
  BY <1>4 DEF MidnightReset, OperatorReset, ForgetSettlements
<1>5. CASE Restart
  BY <1>5, NewestOfBets DEF Restart, Reread
<1>6. CASE \/ \E c \in Bets : Settle(c)
           \/ DayEnds \/ Poll \/ PollerReturns \/ StartPoller \/ FetchReturns
           \/ FetchFails \/ TakeSnapshot \/ Publish \/ PublishFails
           \/ ResetLoopEnds \/ UNCHANGED vars
  <2>1. UNCHANGED <<rows, queue, failed, known>>
    BY <1>6 DEF Settle, DayEnds, Poll, PollerReturns, StartPoller, FetchReturns,
          FetchFails, TakeSnapshot, Publish, PublishFails, ResetLoopEnds, vars
  <2> QED
    BY <1>1, <2>1
<1> QED
  BY <1>2, <1>3, <1>4, <1>5, <1>6 DEF Next, Poller

\* A known bet, which is never recorded again, has its row, or is about to, or its
\* append failed.
THEOREM KnownHasRowHolds == Spec => []KnownHasRow
<1>1. Init => KnownInv
  BY TypeInit DEF Init, KnownInv, KnownHasRow
<1>2. KnownInv /\ [Next]_vars => KnownInv'
  BY KnownStep
<1>3. KnownInv => KnownHasRow
  BY DEF KnownInv
<1> QED
  BY <1>1, <1>2, <1>3, PTL DEF Spec

ExactlyOnce ==
  \A b \in known : forgotten[b] = 0 /\ b \notin queue \union failed => rows[b] = 1

\* What the journal is for: a settlement the engine knows, has appended and never forgot
\* is in the history of its day once.
THEOREM ExactlyOnceHolds == Spec => []ExactlyOnce
<1>1. TypeOK /\ RowsJustified /\ KnownHasRow => ExactlyOnce
  <2> SUFFICES ASSUME TypeOK, RowsJustified, KnownHasRow,
                      NEW b \in known, forgotten[b] = 0, b \notin queue \union failed
               PROVE  rows[b] = 1
    BY DEF ExactlyOnce
  <2>1. b \in Bets /\ rows[b] \in Nat
    BY DEF TypeOK
  <2>2. rows[b] > 0
    BY DEF KnownHasRow
  <2>3. rows[b] <= 1 + forgotten[b]
    BY <2>1 DEF RowsJustified
  <2> QED
    BY <2>1, <2>2, <2>3
<1> QED
  BY <1>1, TypeOKHolds, RowsJustifiedHolds, KnownHasRowHolds, PTL

\* Every step keeps CountedOnce.
LEMMA CountStep == CountInv /\ [Next]_vars => CountInv'
<1> SUFFICES ASSUME CountInv, [Next]_vars PROVE counted' <= Cardinality(known')
  BY TypeStep DEF CountInv, CountedOnce
<1> USE DEF pollerVars, engineVars, bucketVars, worldVars, historyVars
<1>0. TypeOK /\ TypeOK' /\ counted <= Cardinality(known) /\ Cardinality(known') \in Nat
  BY TypeStep, CardOfBets DEF CountInv, CountedOnce, TypeOK
<1>1. CASE UNCHANGED <<known, counted>>
  BY <1>0, <1>1
<1>2. CASE Record
  <2> DEFINE new == report \ known
  <2>1. known' = known \union new /\ counted' = counted + Cardinality(new)
    BY <1>2 DEF Record
  <2>2. known \in SUBSET Bets /\ new \in SUBSET Bets /\ known \intersect new = {}
    BY <1>0 DEF TypeOK
  <2> HIDE DEF new
  <2>3. /\ IsFiniteSet(known) /\ IsFiniteSet(new)
        /\ Cardinality(known) \in Nat /\ Cardinality(new) \in Nat
    BY <2>2, CardOfBets
  <2>4. Cardinality(known \union new) = Cardinality(known) + Cardinality(new)
    <3>1. Cardinality(known \union new)
            = Cardinality(known) + Cardinality(new) - Cardinality(known \intersect new)
      BY <2>3, FS_Union
    <3>2. Cardinality(known \intersect new) = 0
      BY <2>2, FS_EmptySet
    <3> QED
      BY <2>3, <3>1, <3>2
  <2>5. counted \in Nat
    BY <1>0 DEF TypeOK
  <2> QED
    BY <1>0, <2>1, <2>3, <2>4, <2>5
<1>3. CASE MidnightReset \/ OperatorReset \/ Restart
  <2>1. counted' = 0
    BY <1>3 DEF MidnightReset, OperatorReset, ForgetSettlements, Restart
  <2> QED
    BY <1>0, <2>1
<1>4. CASE \/ \E c \in Bets : Settle(c) \/ Append(c) \/ AppendRefused(c) \/ AppendRaises(c)
           \/ DayEnds \/ Poll \/ PollerReturns \/ StartPoller \/ FetchReturns
           \/ FetchFails \/ TakeSnapshot \/ Publish \/ PublishFails
           \/ ResetLoopEnds \/ UNCHANGED vars
  <2>1. UNCHANGED <<known, counted>>
    BY <1>4 DEF Settle, Append, AppendRefused, AppendRaises, DayEnds, Poll,
          PollerReturns, StartPoller, FetchReturns, FetchFails, TakeSnapshot, Publish,
          PublishFails, ResetLoopEnds, vars
  <2> QED
    BY <1>1, <2>1
<1> QED
  BY <1>2, <1>3, <1>4 DEF Next, Poller

----------------------------------------------------------------------------
(* The daily summary                                                       *)

\* The bets settled by a day never become fewer.
LEMMA SettledByGrows ==
  ASSUME TypeOK, TypeOK', [Next]_vars, NEW d \in Days
  PROVE  /\ Cardinality(SettledBy(d)) \in Nat
         /\ Cardinality(SettledBy(d)') \in Nat
         /\ Cardinality(SettledBy(d)) <= Cardinality(SettledBy(d)')
<1>1. \A b \in Bets : settledOn[b] # 0 => settledOn'[b] = settledOn[b]
  <2> USE DEF pollerVars, engineVars, bucketVars, worldVars, historyVars
  <2>1. ASSUME NEW c \in Bets, Settle(c)
        PROVE  \A b \in Bets : settledOn[b] # 0 => settledOn'[b] = settledOn[b]
    BY <2>1 DEF Settle, TypeOK
  <2>2. CASE UNCHANGED settledOn
    BY <2>2
  <2>3. (\E c \in Bets : Settle(c)) \/ UNCHANGED settledOn
    BY DEF Next, Poller, DayEnds, Poll, PollerReturns, StartPoller, FetchReturns,
       FetchFails, Record, Append, AppendRefused, AppendRaises, TakeSnapshot, Publish,
       PublishFails, MidnightReset, OperatorReset, ForgetSettlements, ResetLoopEnds,
       Restart, vars
  <2> QED
    BY <2>1, <2>2, <2>3
<1>2. \A b \in Bets : settledOn[b] \in 1..d => settledOn[b] # 0
  BY DEF Days
<1>3. SettledBy(d) \subseteq SettledBy(d)'
  BY <1>1, <1>2 DEF SettledBy
<1>4. SettledBy(d) \in SUBSET Bets /\ SettledBy(d)' \in SUBSET Bets
  BY DEF SettledBy
<1> QED
  BY <1>3, <1>4, CardOfBets, FS_Subset

\* The counted bets have settled by today.
LEMMA CountedSettled ==
  ASSUME TypeOK, SettledFirst, CountedOnce
  PROVE  counted <= Cardinality(SettledBy(day))
<1>1. known \subseteq SettledBy(day)
  <2> SUFFICES ASSUME NEW b \in known PROVE b \in SettledBy(day)
    OBVIOUS
  <2>1. b \in Bets /\ settledOn[b] \in Nat /\ day \in Nat
    BY BoundsAssumption DEF TypeOK, Days
  <2>2. settledOn[b] # 0 /\ settledOn[b] <= day
    BY <2>1 DEF SettledFirst
  <2> QED
    BY <2>1, <2>2 DEF SettledBy
<1>2. SettledBy(day) \in SUBSET Bets /\ known \in SUBSET Bets
  BY DEF SettledBy, TypeOK
<1>3. /\ Cardinality(known) <= Cardinality(SettledBy(day))
      /\ Cardinality(known) \in Nat /\ Cardinality(SettledBy(day)) \in Nat
  BY <1>1, <1>2, CardOfBets, FS_Subset
<1> QED
  BY <1>3 DEF CountedOnce, TypeOK

\* Every step keeps the invariant of the summaries.
LEMMA SummaryStep == SummaryInv /\ [Next]_vars => SummaryInv'
<1> SUFFICES ASSUME SummaryInv, [Next]_vars PROVE SummaryInv'
  OBVIOUS
<1> USE DEF pollerVars, engineVars, bucketVars, worldVars, historyVars
<1>0. /\ TypeOK /\ TypeOK' /\ SettledFirst /\ SettledFirst' /\ CountedOnce /\ CountedOnce'
      /\ SnapshotCountsOnce /\ SummaryCountsOnce
  BY TypeStep, SettledStep, CountStep DEF SummaryInv, CountInv
<1> SUFFICES SnapshotCountsOnce' /\ SummaryCountsOnce'
  BY <1>0 DEF SummaryInv
<1>1. /\ snapshot.day \in Days /\ snapshot.settled \in Nat
      /\ \A d \in Days : summary[d] \in Nat
  BY <1>0 DEF TypeOK
<1>2. \A d \in Days : summary[d] <= Cardinality(SettledBy(d)')
  BY <1>0, <1>1, SettledByGrows DEF SummaryCountsOnce
<1>3. \A d \in Days : pc = "publishing" /\ snapshot.day = d =>
        snapshot.settled <= Cardinality(SettledBy(d)')
  BY <1>0, <1>1, SettledByGrows DEF SnapshotCountsOnce
<1>4. CASE TakeSnapshot
  <2>1. /\ snapshot'.day = day /\ snapshot'.settled = counted
        /\ UNCHANGED <<settledOn, day, summary>>
    BY <1>4 DEF TakeSnapshot
  <2>2. \A d \in Days : SettledBy(d)' = SettledBy(d)
    BY <2>1 DEF SettledBy
  <2>3. SnapshotCountsOnce'
    BY <1>0, <2>1, <2>2, CountedSettled DEF SnapshotCountsOnce
  <2> QED
    BY <1>2, <2>1, <2>3 DEF SummaryCountsOnce
<1>5. CASE Publish
  <2>1. /\ pc = "publishing" /\ pc' = "sleeping"
        /\ \A d \in Days : summary'[d] = IF d = snapshot.day THEN snapshot.settled ELSE summary[d]
    BY <1>0, <1>5 DEF Publish, TypeOK
  <2> QED
    BY <1>2, <1>3, <2>1 DEF SnapshotCountsOnce, SummaryCountsOnce
<1>6. CASE UNCHANGED summary /\ (pc' # "publishing" \/ UNCHANGED <<pc, snapshot>>)
  BY <1>2, <1>3, <1>6 DEF SnapshotCountsOnce, SummaryCountsOnce
<1>7. TakeSnapshot \/ Publish
      \/ (UNCHANGED summary /\ (pc' # "publishing" \/ UNCHANGED <<pc, snapshot>>))
  BY DEF Next, Poller, Settle, DayEnds, Poll, PollerReturns, StartPoller, FetchReturns,
     FetchFails, Record, Append, AppendRefused, AppendRaises, PublishFails,
     MidnightReset, OperatorReset, ForgetSettlements, ResetLoopEnds, Restart, vars
<1> QED
  BY <1>4, <1>5, <1>6, <1>7

\* A day's summary counts no more bets than the exchange had settled by that day.
THEOREM SummaryCountsOnceHolds == Spec => []SummaryCountsOnce
<1>1. Init => SummaryInv
  <2> SUFFICES ASSUME Init PROVE SummaryInv
    OBVIOUS
  <2>1. TypeOK
    BY TypeInit
  <2>2. SettledFirst /\ CountedOnce /\ SnapshotCountsOnce
    BY FS_EmptySet DEF Init, SettledFirst, CountedOnce, SnapshotCountsOnce
  <2>3. \A d \in Days : summary[d] = 0 /\ Cardinality(SettledBy(d)) \in Nat
    BY CardOfBets DEF Init, SettledBy
  <2> QED
    BY <2>1, <2>2, <2>3 DEF SummaryInv, SummaryCountsOnce
<1>2. SummaryInv /\ [Next]_vars => SummaryInv'
  BY SummaryStep
<1>3. SummaryInv => SummaryCountsOnce
  BY DEF SummaryInv
<1> QED
  BY <1>1, <1>2, <1>3, PTL DEF Spec

\* Every step keeps today's summary below the counters, unless they were lost.
LEMMA KeepStep == KeepInv /\ [Next]_vars => KeepInv'
<1> SUFFICES ASSUME KeepInv, [Next]_vars PROVE KeepInv'
  OBVIOUS
<1> USE DEF pollerVars, engineVars, bucketVars, worldVars, historyVars
<1>0. /\ TypeOK /\ TypeOK' /\ day \in Nat /\ counted \in Nat /\ counted' \in Nat
      /\ day \in Days /\ day' \in Days
      /\ snapshot.day \in Days /\ snapshot.settled \in Nat /\ snapshot.lost \in BOOLEAN
      /\ lost \in BOOLEAN
      /\ snapshot.day \in Nat /\ day' \in Nat
      /\ \A d \in Days : d \in Nat /\ summary[d] \in Nat
  <2>1. TypeOK /\ TypeOK' /\ Days \subseteq Nat
    BY TypeStep, BoundsAssumption DEF KeepInv, Days
  <2> QED
    BY <2>1 DEF TypeOK
<1>k. /\ \A d \in Days : d > day => summary[d] = 0
      /\ pc # "publishing" /\ ~lost => summary[day] <= counted
      /\ pc = "publishing" =>
           /\ snapshot.day <= day
           /\ \A d \in Days : d > snapshot.day => summary[d] = 0
           /\ ~lost => snapshot.settled <= counted
           /\ ~snapshot.lost => summary[snapshot.day] <= snapshot.settled
  BY DEF KeepInv
<1> SUFFICES
      /\ \A d \in Days : d > day' => summary'[d] = 0
      /\ pc' # "publishing" /\ ~lost' => summary'[day'] <= counted'
      /\ pc' = "publishing" =>
           /\ snapshot'.day <= day'
           /\ \A d \in Days : d > snapshot'.day => summary'[d] = 0
           /\ ~lost' => snapshot'.settled <= counted'
           /\ ~snapshot'.lost => summary'[snapshot'.day] <= snapshot'.settled
  BY <1>0 DEF KeepInv
<1>1. CASE DayEnds
  <2>1. day' = day + 1 /\ UNCHANGED <<pc, lost, counted, snapshot, summary>>
    BY <1>1 DEF DayEnds
  <2>2. summary[day'] = 0
    BY <1>0, <1>k, <2>1
  <2> QED
    BY <1>0, <1>k, <2>1, <2>2
<1>2. CASE Record
  <2>1. /\ UNCHANGED <<day, summary, lost, snapshot>>
        /\ counted' = counted + Cardinality(report \ known)
        /\ pc = "fetched" /\ pc' # "publishing"
    BY <1>2 DEF Record
  <2>2. Cardinality(report \ known) \in Nat
    BY <1>0, CardOfBets DEF TypeOK
  <2> QED
    BY <1>0, <1>k, <2>1, <2>2
<1>3. CASE TakeSnapshot
  <2>1. /\ UNCHANGED <<day, summary, counted>> /\ ~lost' /\ pc = "persisting"
        /\ snapshot'.day = day /\ snapshot'.settled = counted
        /\ ~snapshot'.lost => ~lost
    BY <1>3 DEF TakeSnapshot
  <2>2. ~snapshot'.lost => summary[day] <= counted
    BY <1>k, <2>1
  <2>3. ~snapshot'.lost => summary'[snapshot'.day] <= snapshot'.settled
    BY <2>1, <2>2
  <2>4. \A d \in Days : d > day' => summary'[d] = 0
    BY <1>k, <2>1
  <2>5. /\ snapshot'.day <= day'
        /\ \A d \in Days : d > snapshot'.day => summary'[d] = 0
        /\ ~lost' => snapshot'.settled <= counted'
    BY <1>0, <2>1, <2>4
  <2>6. pc' = "publishing"
    BY <1>3 DEF TakeSnapshot
  <2> QED
    BY <2>3, <2>4, <2>5, <2>6
<1>4. CASE Publish
  <2>1. /\ UNCHANGED <<day, counted, lost>> /\ pc = "publishing" /\ pc' = "sleeping"
        /\ \A d \in Days : summary'[d] = IF d = snapshot.day THEN snapshot.settled ELSE summary[d]
    BY <1>0, <1>4 DEF Publish, TypeOK
  <2> QED
    BY <1>0, <1>k, <2>1
<1>5. CASE PublishFails
  <2>1. /\ UNCHANGED <<day, counted, summary>> /\ pc = "publishing" /\ pc' # "publishing"
        /\ ~lost' => ~lost /\ ~snapshot.lost
    BY <1>5 DEF PublishFails
  <2> QED
    BY <1>0, <1>k, <2>1
<1>6. CASE lost' /\ UNCHANGED <<day, summary>> /\ (pc' # "publishing" \/ UNCHANGED <<pc, snapshot>>)
  BY <1>0, <1>k, <1>6
<1>7. CASE /\ UNCHANGED <<day, summary, lost, snapshot, counted>>
           /\ pc' = "publishing" <=> pc = "publishing"
  BY <1>0, <1>k, <1>7
<1>8. CASE \/ \E c \in Bets : Settle(c) \/ Append(c) \/ AppendRefused(c) \/ AppendRaises(c)
           \/ Poll \/ PollerReturns \/ StartPoller \/ FetchReturns \/ FetchFails
           \/ ResetLoopEnds \/ UNCHANGED vars
  <2>1. /\ UNCHANGED <<day, summary, lost, snapshot, counted>>
        /\ pc' = "publishing" <=> pc = "publishing"
    BY <1>8 DEF Settle, Append, AppendRefused, AppendRaises, Poll, PollerReturns,
          StartPoller, FetchReturns, FetchFails, ResetLoopEnds, vars
  <2> QED
    BY <1>7, <2>1
<1>9. CASE MidnightReset \/ OperatorReset \/ Restart
  <2>1. lost' /\ UNCHANGED <<day, summary>> /\ (pc' # "publishing" \/ UNCHANGED <<pc, snapshot>>)
    BY <1>9 DEF MidnightReset, OperatorReset, ForgetSettlements, Restart
  <2> QED
    BY <1>6, <2>1
<1> QED
  BY <1>1, <1>2, <1>3, <1>4, <1>5, <1>8, <1>9 DEF Next, Poller

\* A day's summary loses no bet unless the counters were reset, or lost with the
\* process, since the figures it held were taken.
THEOREM SummaryKeepsCountHolds == Spec => SummaryKeepsCount
<1>1. Init => KeepInv
  <2> SUFFICES ASSUME Init PROVE KeepInv
    OBVIOUS
  <2>1. TypeOK /\ \A d \in Days : summary[d] = 0
    BY TypeInit DEF Init
  <2>2. day \in Days /\ pc # "publishing" /\ counted = 0
    BY <2>1 DEF Init, TypeOK
  <2> QED
    BY <2>1, <2>2 DEF KeepInv
<1>2. KeepInv /\ [Next]_vars => KeepInv'
  BY KeepStep
<1>3. KeepInv /\ [Next]_vars
        => [\A d \in Days : summary'[d] < summary[d] => snapshot.lost]_vars
  <2> SUFFICES ASSUME KeepInv, [Next]_vars, NEW d \in Days, summary'[d] < summary[d]
               PROVE  snapshot.lost
    OBVIOUS
  <2> USE DEF pollerVars, engineVars, bucketVars, worldVars, historyVars
  <2>1. Publish \/ UNCHANGED summary
    BY DEF Next, Poller, Settle, DayEnds, Poll, PollerReturns, StartPoller,
       FetchReturns, FetchFails, Record, Append, AppendRefused, AppendRaises,
       TakeSnapshot, PublishFails, MidnightReset, OperatorReset, ForgetSettlements,
       ResetLoopEnds, Restart, vars
  <2>2. summary[d] \in Nat
    BY DEF KeepInv, TypeOK
  <2>3. Publish
    BY <2>1, <2>2
  <2>4. pc = "publishing" /\ summary'[d] = IF d = snapshot.day THEN snapshot.settled ELSE summary[d]
    BY <2>3 DEF Publish, KeepInv, TypeOK
  <2>5. snapshot.settled \in Nat
    BY DEF KeepInv, TypeOK
  <2> QED
    BY <2>2, <2>4, <2>5 DEF KeepInv
<1> QED
  BY <1>1, <1>2, <1>3, PTL DEF Spec, SummaryKeepsCount
=============================================================================
