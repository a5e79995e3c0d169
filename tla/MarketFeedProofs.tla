-------------------------- MODULE MarketFeedProofs --------------------------
(***************************************************************************)
(* The invariants of MarketFeed, proved for any threads, markets, plugins  *)
(* and windows.                                                            *)
(***************************************************************************)
EXTENDS MarketFeed, TLAPS

\* A thread drops its book, whatever the reason, without disturbing a type.
LEMMA DropBookType ==
  ASSUME TypeOK, NEW t \in Threads, DropBook(t)
  PROVE  TypeOK'
BY DEF TypeOK, DropBook, BettingModes, engineVars, operatorVars, historyVars

\* Evaluating a plugin disturbs no type.
LEMMA EvaluatePluginType ==
  ASSUME TypeOK, NEW t \in Threads, NEW p \in Plugins, EvaluatePlugin(t, p)
  PROVE  TypeOK'
<1>1. book[t].market \in Markets
  BY DEF TypeOK, Books
<1>2. skipped' \subseteq Markets \X Plugins
  BY <1>1 DEF TypeOK, EvaluatePlugin
<1>3. bets' \in [Threads -> [Markets -> [Plugins -> Nat]]]
  <2>1. CASE UNCHANGED bets
    BY <2>1 DEF TypeOK
  <2>2. CASE bets' = [bets EXCEPT ![t][book[t].market][p] = @ + 1]
    <3>1. bets[t][book[t].market][p] + 1 \in Nat
      BY <1>1 DEF TypeOK
    <3> QED
      BY <1>1, <2>2, <3>1 DEF TypeOK
  <2> QED
    BY <2>1, <2>2 DEF EvaluatePlugin
<1> QED
  BY <1>2, <1>3 DEF TypeOK, EvaluatePlugin, engineVars, operatorVars

\* The initial states are well typed.
LEMMA TypeInit == Init => TypeOK
<1> SUFFICES ASSUME Init PROVE TypeOK
  OBVIOUS
<1>1. book \in [Threads -> Books]
  BY WindowAssumption DEF Init, Books
<1>2. active \subseteq Plugins
  BY DEF Init
<1> QED
  BY <1>1, <1>2 DEF Init, TypeOK, BettingModes

\* Every step keeps the types.
LEMMA TypeStep == TypeOK /\ [Next]_vars => TypeOK'
<1> SUFFICES ASSUME TypeOK, [Next]_vars PROVE TypeOK'
  OBVIOUS
<1> USE DEF engineVars, operatorVars, historyVars, BettingModes
<1>1. ASSUME NEW t \in Threads, TakeBook(t) PROVE TypeOK'
  <2>1. PICK b \in Books :
          /\ book' = [book EXCEPT ![t] = b]
          /\ cache' = [cache EXCEPT ![b.market] = IF @ = "evaluated" THEN @ ELSE "seen"]
          /\ pc' = [pc EXCEPT ![t] = IF cache[b.market] = "evaluated" \/ ~b.usable
                                     THEN "idle" ELSE "plugins"]
    BY <1>1 DEF TakeBook
  <2>2. cache' \in [Markets -> {"absent", "seen", "evaluated"}]
    BY <2>1 DEF TypeOK
  <2>3. \A m \in Markets : cache[m] = "evaluated" => cache'[m] = "evaluated"
    BY <2>1 DEF TypeOK
  <2>4. \A s \in Threads : pc'[s] = "evaluating" =>
          pc[s] = "evaluating" /\ book'[s] = book[s] /\ book[s].market \in Markets
    BY <1>1, <2>1 DEF TypeOK, Books, TakeBook
  <2> QED
    BY <1>1, <2>1, <2>2, <2>3, <2>4 DEF TypeOK, TakeBook
<1>2. ASSUME NEW t \in Threads, ReadPlugins(t) PROVE TypeOK'
  BY <1>2 DEF TypeOK, ReadPlugins
<1>3. ASSUME NEW t \in Threads, Expire(t) PROVE TypeOK'
  <2>1. \A s \in Threads : book[s].market \in Markets
    BY DEF TypeOK, Books
  <2> QED
    BY <1>3, <2>1 DEF TypeOK, Expire
<1>4. ASSUME NEW t \in Threads, ReadFlags(t) PROVE TypeOK'
  BY <1>4 DEF TypeOK, ReadFlags
<1>5. ASSUME NEW t \in Threads, Mark(t) PROVE TypeOK'
  <2>1. \A s \in Threads : book[s].market \in Markets
    BY DEF TypeOK, Books
  <2> QED
    BY <1>5, <2>1 DEF TypeOK, Mark
<1>6. ASSUME NEW t \in Threads, NEW p \in Plugins, EvaluatePlugin(t, p) PROVE TypeOK'
  BY <1>6, EvaluatePluginType
<1>7. ASSUME NEW t \in Threads, FinishBook(t) \/ EvaluationRaises(t) PROVE TypeOK'
  BY <1>7, DropBookType DEF FinishBook, EvaluationRaises
<1>8. CASE SetActive \/ SetFlags
  BY <1>8 DEF TypeOK, SetActive, SetFlags
<1>9. CASE Restart
  BY <1>9 DEF TypeOK, Restart
<1>10. CASE UNCHANGED vars
  BY <1>10 DEF TypeOK, vars
<1> QED
  BY <1>1, <1>2, <1>3, <1>4, <1>5, <1>6, <1>7, <1>8, <1>9, <1>10 DEF Next, HandleBook

\* The variables keep their types, and a market is marked before it is evaluated.
THEOREM TypeOKHolds == Spec => []TypeOK
BY TypeInit, TypeStep, PTL DEF Spec

----------------------------------------------------------------------------

\* Threads that replace each other's cache entries never lose an evaluated mark.
MarksStay ==
  [][\A m \in Markets :
       cache[m] = "evaluated" => cache'[m] = "evaluated" \/ restarts' > restarts]_vars

\* A mark is taken back by nothing but a restart.
THEOREM MarksStayHolds == Spec => MarksStay
<1>1. TypeOK /\ [Next]_vars =>
        [\A m \in Markets :
           cache[m] = "evaluated" => cache'[m] = "evaluated" \/ restarts' > restarts]_vars
  <2> SUFFICES ASSUME TypeOK, [Next]_vars, NEW m \in Markets, cache[m] = "evaluated"
               PROVE  cache'[m] = "evaluated" \/ restarts' > restarts
    OBVIOUS
  <2> USE DEF engineVars, operatorVars, historyVars
  <2>1. CASE \E t \in Threads : TakeBook(t)
    BY <2>1 DEF TypeOK, TakeBook
  <2>2. CASE \E t \in Threads : Expire(t) \/ Mark(t)
    BY <2>2 DEF TypeOK, Expire, Mark
  <2>3. CASE \E t \in Threads : ReadPlugins(t) \/ ReadFlags(t) \/ FinishBook(t)
                                  \/ EvaluationRaises(t)
    BY <2>3 DEF ReadPlugins, ReadFlags, FinishBook, EvaluationRaises, DropBook
  <2>4. CASE \E t \in Threads, p \in Plugins : EvaluatePlugin(t, p)
    BY <2>4 DEF EvaluatePlugin
  <2>5. CASE SetActive \/ SetFlags
    BY <2>5 DEF SetActive, SetFlags
  <2>6. CASE Restart
    BY <2>6 DEF TypeOK, Restart
  <2>7. CASE UNCHANGED vars
    BY <2>7 DEF vars
  <2> QED
    BY <2>1, <2>2, <2>3, <2>4, <2>5, <2>6, <2>7 DEF Next, HandleBook
<1> QED
  BY <1>1, TypeOKHolds, PTL DEF Spec, MarksStay

----------------------------------------------------------------------------

\* Thread t may still bet on market m for plugin p with the book in its hands.
MayBet(t, m, p) ==
  /\ book[t].market = m
  /\ \/ pc[t] \in {"plugins", "flags", "marking"}
     \/ pc[t] = "evaluating" /\ p \in todo[t]

\* The strengthening of BetOncePerProcess: in this process a thread has not bet on
\* a market that is not marked yet, nor where it may still bet with its book.
BetIInv ==
  \A t \in Threads, m \in Markets, p \in Plugins :
    /\ bets[t][m][p] <= restarts + 1
    /\ cache[m] # "evaluated" \/ MayBet(t, m, p) => bets[t][m][p] <= restarts

\* Steps that bet nothing keep BetIInv if they neither unmark a market nor let a
\* thread bet anew.
LEMMA BetKept ==
  ASSUME TypeOK, BetIInv, UNCHANGED <<bets, restarts>>,
         \A m \in Markets : cache[m] = "evaluated" => cache'[m] = "evaluated",
         \A t \in Threads, m \in Markets, p \in Plugins :
           MayBet(t, m, p)' => MayBet(t, m, p) \/ cache[m] # "evaluated"
  PROVE  BetIInv'
BY DEF TypeOK, BetIInv

\* Every step keeps BetIInv.
LEMMA BetStep == TypeOK /\ BetIInv /\ [Next]_vars => BetIInv'
<1> SUFFICES ASSUME TypeOK, BetIInv, [Next]_vars PROVE BetIInv'
  OBVIOUS
<1> USE DEF engineVars, operatorVars, historyVars
<1>1. ASSUME NEW t \in Threads, TakeBook(t) PROVE BetIInv'
  <2>1. PICK b \in Books :
          /\ book' = [book EXCEPT ![t] = b]
          /\ cache' = [cache EXCEPT ![b.market] = IF @ = "evaluated" THEN @ ELSE "seen"]
          /\ pc' = [pc EXCEPT ![t] = IF cache[b.market] = "evaluated" \/ ~b.usable
                                     THEN "idle" ELSE "plugins"]
    BY <1>1 DEF TakeBook
  <2>2. \A m \in Markets : cache[m] = "evaluated" => cache'[m] = "evaluated"
    BY <2>1 DEF TypeOK
  <2>3. \A m \in Markets, p \in Plugins : MayBet(t, m, p)' => cache[m] # "evaluated"
    BY <2>1 DEF TypeOK, MayBet
  <2>4. \A s \in Threads \ {t}, m \in Markets, p \in Plugins :
          MayBet(s, m, p)' => MayBet(s, m, p)
    BY <1>1, <2>1 DEF TypeOK, MayBet, TakeBook
  <2>5. UNCHANGED <<bets, restarts>>
    BY <1>1 DEF TakeBook
  <2> QED
    BY <2>2, <2>3, <2>4, <2>5, BetKept
<1>2. ASSUME NEW t \in Threads,
             ReadPlugins(t) \/ Expire(t) \/ ReadFlags(t) \/ Mark(t) \/ FinishBook(t)
               \/ EvaluationRaises(t)
      PROVE  BetIInv'
  <2>1. UNCHANGED <<bets, restarts, book>>
    BY <1>2 DEF ReadPlugins, Expire, ReadFlags, Mark, FinishBook, EvaluationRaises, DropBook
  <2>2. \A m \in Markets : cache[m] = "evaluated" => cache'[m] = "evaluated"
    BY <1>2 DEF TypeOK, ReadPlugins, Expire, ReadFlags, Mark, FinishBook,
                EvaluationRaises, DropBook
  <2>3. \A s \in Threads, m \in Markets, p \in Plugins :
          MayBet(s, m, p)' => MayBet(s, m, p)
    <3>1. \A s \in Threads \ {t} : pc'[s] = pc[s] /\ todo'[s] = todo[s]
      BY <1>2 DEF TypeOK, ReadPlugins, Expire, ReadFlags, Mark, FinishBook,
                  EvaluationRaises, DropBook
    <3>2. \/ pc'[t] \in {"idle", "expired"}
          \/ pc[t] \in {"plugins", "flags", "marking"}
      BY <1>2 DEF TypeOK, ReadPlugins, Expire, ReadFlags, Mark, FinishBook,
                  EvaluationRaises, DropBook
    <3> QED
      BY <2>1, <3>1, <3>2 DEF TypeOK, MayBet
  <2> QED
    BY <2>1, <2>2, <2>3, BetKept
<1>3. ASSUME NEW t \in Threads, NEW q \in Plugins, EvaluatePlugin(t, q) PROVE BetIInv'
  <2> DEFINE m0 == book[t].market
  <2>1. m0 \in Markets /\ cache[m0] = "evaluated" /\ MayBet(t, m0, q)
    BY <1>3 DEF TypeOK, Books, EvaluatePlugin, MayBet
  <2>2. UNCHANGED <<cache, restarts, book, pc>> /\ todo' = [todo EXCEPT ![t] = @ \ {q}]
    BY <1>3 DEF EvaluatePlugin
  <2>3. \A s \in Threads, m \in Markets, p \in Plugins :
          MayBet(s, m, p)' => MayBet(s, m, p)
    BY <2>2 DEF TypeOK, MayBet
  <2>4. CASE UNCHANGED bets
    BY <2>2, <2>3, <2>4, BetKept
  <2>5. CASE bets' = [bets EXCEPT ![t][m0][q] = @ + 1]
    <3>1. bets[t][m0][q] <= restarts /\ bets[t][m0][q] \in Nat /\ restarts \in Nat
      BY <2>1 DEF TypeOK, BetIInv
    <3>2. bets'[t][m0][q] <= restarts + 1
      BY <2>1, <2>5, <3>1 DEF TypeOK
    <3>3. ~MayBet(t, m0, q)'
      BY <1>3, <2>2 DEF TypeOK, MayBet, EvaluatePlugin
    <3>4. \A s \in Threads, m \in Markets, p \in Plugins :
            <<s, m, p>> # <<t, m0, q>> => bets'[s][m][p] = bets[s][m][p]
      BY <2>1, <2>5 DEF TypeOK
    <3>5. SUFFICES ASSUME NEW s \in Threads, NEW m \in Markets, NEW p \in Plugins
                   PROVE  /\ bets'[s][m][p] <= restarts' + 1
                          /\ cache'[m] # "evaluated" \/ MayBet(s, m, p)'
                               => bets'[s][m][p] <= restarts'
      BY DEF BetIInv
    <3>6. CASE s = t /\ m = m0 /\ p = q
      BY <2>1, <2>2, <3>2, <3>3, <3>6
    <3>7. CASE ~(s = t /\ m = m0 /\ p = q)
      BY <2>2, <2>3, <3>4, <3>7 DEF BetIInv
    <3> QED
      BY <3>6, <3>7
  <2> QED
    BY <1>3, <2>4, <2>5 DEF EvaluatePlugin
<1>4. CASE SetActive \/ SetFlags
  BY <1>4, BetKept DEF SetActive, SetFlags, MayBet
<1>5. CASE Restart
  BY <1>5 DEF TypeOK, BetIInv, MayBet, Restart
<1>6. CASE UNCHANGED vars
  BY <1>6, BetKept DEF vars, MayBet
<1> QED
  BY <1>1, <1>2, <1>3, <1>4, <1>5, <1>6 DEF Next, HandleBook

\* Whatever books the threads take, a thread bets once per plugin, market and process.
THEOREM BetOncePerProcessHolds == Spec => []BetOncePerProcess
<1>1. Init => BetIInv
  BY DEF Init, BetIInv
<1>2. BetIInv => BetOncePerProcess
  BY DEF BetIInv, BetOncePerProcess
<1> QED
  BY <1>1, <1>2, BetStep, TypeOKHolds, PTL DEF Spec
=============================================================================
