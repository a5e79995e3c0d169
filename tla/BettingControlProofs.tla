------------------------ MODULE BettingControlProofs ------------------------
(***************************************************************************)
(* Proofs about BettingControl, for any requests, scripts and placers.     *)
(***************************************************************************)
EXTENDS BettingControl, TLAPS

\* A batch is at least one bet.
LEMMA BatchType == \A p \in Placers : Batch(p) \in Nat /\ Batch(p) >= 1
BY BatchAssumption DEF Batch

\* The initial states are well typed.
LEMMA TypeInit == Init => TypeOK
<1> SUFFICES ASSUME Init PROVE TypeOK
  OBVIOUS
<1>1. <<>> \in Seq(Settings)
  OBVIOUS
<1>2. /\ pc \in [Requests -> RequestPCs]
      /\ script \in [Requests -> Seq(Settings)] /\ goal \in [Requests -> Seq(Settings)]
  BY <1>1 DEF Init, RequestPCs
<1>3. /\ flags \in [Flags -> BOOLEAN] /\ left \in [Placers -> Nat]
      /\ leak \in [Placers -> Nat] /\ alone \in [Requests -> BOOLEAN]
  BY DEF Init
<1>4. /\ streamUp \in BOOLEAN /\ authenticated \in BOOLEAN /\ processing \in BOOLEAN
      /\ SessionOK /\ bootUp \in BOOLEAN
      /\ clean \in BOOLEAN /\ killLast \in BOOLEAN /\ open \in Nat
  BY DEF Init, SessionOK
<1> QED
  BY <1>2, <1>3, <1>4 DEF TypeOK

\* Taking the head setting of a script leaves a script and yields a flag and a
\* value for it.
LEMMA ScriptHead ==
  ASSUME NEW s \in Seq(Settings), s # <<>>
  PROVE  /\ Head(s)[1] \in Flags
         /\ Head(s)[2] \in BOOLEAN
         /\ Tail(s) \in Seq(Settings)
<1>1. Head(s) \in Settings /\ Tail(s) \in Seq(Settings)
  OBVIOUS
<1> QED
  BY <1>1 DEF Settings

\* The script of the kill switch is a script.
LEMMA AllOffType == AllOff \in Seq(Settings)
<1>1. \A f \in Flags : <<f, FALSE>> \in Settings
  BY DEF Settings
<1>2. /\ <<"auto_betting", FALSE>> \in Settings /\ <<"manual_betting", FALSE>> \in Settings
      /\ <<"dry_run", FALSE>> \in Settings /\ <<"recording", FALSE>> \in Settings
  BY <1>1 DEF Flags
<1> QED
  BY <1>2 DEF AllOff

\* No step makes the status CONNECTED without a session and a processing thread.
LEMMA SessionStep == SessionOK /\ [Next]_vars => SessionOK'
<1> SUFFICES ASSUME SessionOK, [Next]_vars PROVE SessionOK'
  OBVIOUS
<1>1. ASSUME NEW r \in Requests, SpinUpStarts(r) PROVE SessionOK'
  BY <1>1 DEF SpinUpStarts, SessionOK
<1>2. ASSUME NEW r \in Requests, SpinUpSucceeds(r) PROVE SessionOK'
  BY <1>2 DEF SpinUpSucceeds, SessionOK
<1>3. ASSUME NEW r \in Requests, SpinUpFails(r) PROVE SessionOK'
  <2>1. UNCHANGED <<streamUp, processing>> /\ authenticated' \in {authenticated, TRUE}
    BY <1>3 DEF SpinUpFails
  <2>2. authenticated' = authenticated \/ authenticated' = TRUE
    BY <2>1
  <2> QED
    BY <2>1, <2>2 DEF SessionOK
<1>4. ASSUME NEW r \in Requests, Resume(r) PROVE SessionOK'
  <2>1. UNCHANGED <<authenticated, processing>> /\ (streamUp' = FALSE \/ streamUp' = streamUp)
    BY <1>4 DEF Resume
  <2> QED
    BY <2>1 DEF SessionOK
<1>5. CASE UNCHANGED streamVars
  BY <1>5 DEF streamVars, SessionOK
<1> QED
  BY <1>1, <1>2, <1>3, <1>4, <1>5
     DEF Next, Request, Begin, SetNextFlag, SpinUp, Finish, BeginEmergencyStop,
         CancelAllOrders, Placer, Snapshot, Transmit, Refuse, OrderCloses, streamVars, vars

\* Every step keeps the types.
LEMMA TypeStep == TypeOK /\ [Next]_vars => TypeOK'
<1> SUFFICES ASSUME TypeOK, [Next]_vars PROVE TypeOK'
  OBVIOUS
<1> USE DEF TypeOK, streamVars, historyVars, requestVars, RequestPCs
<1>0. SessionOK'
  BY SessionStep
<1>1. ASSUME NEW r \in Requests, Begin(r) PROVE TypeOK'
  <2>1. PICK s \in Scripts : script' = [script EXCEPT ![r] = s]
                          /\ goal' = [goal EXCEPT ![r] = s]
    BY <1>1 DEF Begin
  <2>2. s \in Seq(Settings)
    BY ScriptsAssumption
  <2> QED
    BY <1>0, <1>1, <2>1, <2>2 DEF Begin, NoteBegin
<1>2. ASSUME NEW r \in Requests, SetNextFlag(r) PROVE TypeOK'
  <2>1. /\ Head(script[r])[1] \in Flags
        /\ Head(script[r])[2] \in BOOLEAN
        /\ Tail(script[r]) \in Seq(Settings)
    BY <1>2, ScriptHead DEF SetNextFlag
  <2>2. leak' \in [Placers -> Nat] /\ clean' \in BOOLEAN
    BY <1>2 DEF SetNextFlag, NoteFlags
  <2> QED
    BY <1>0, <1>2, <2>1, <2>2 DEF SetNextFlag
<1>3. ASSUME NEW r \in Requests, SpinUp(r) PROVE TypeOK'
  BY <1>0, <1>3 DEF SpinUp, SpinUpStarts, SpinUpSucceeds, SpinUpFails
<1>4. ASSUME NEW r \in Requests, Resume(r) PROVE TypeOK'
  BY <1>0, <1>4 DEF Resume
<1>5. ASSUME NEW r \in Requests, Finish(r) PROVE TypeOK'
  BY <1>0, <1>5 DEF Finish
<1>6. ASSUME NEW r \in Requests, BeginEmergencyStop(r) PROVE TypeOK'
  BY <1>0, <1>6, AllOffType DEF BeginEmergencyStop, NoteBegin, NoteFlags
<1>7. ASSUME NEW r \in Requests, CancelAllOrders(r) PROVE TypeOK'
  <2>1. pc' \in [Requests -> RequestPCs]
    BY <1>7 DEF CancelAllOrders
  <2>2. open' \in Nat
    BY <1>7 DEF CancelAllOrders
  <2>3. clean' \in BOOLEAN
    <3>1. CASE UNCHANGED <<open, clean>>
      BY <3>1
    <3>2. CASE clean' = (~BettingOn(flags) /\ \A p \in Placers : left[p] = 0)
      BY <3>2
    <3> QED
      BY <1>7, <3>1, <3>2 DEF CancelAllOrders
  <2>4. UNCHANGED <<script, goal, flags, streamVars, left, bootUp, leak, killLast, alone>>
    BY <1>7 DEF CancelAllOrders
  <2> QED
    BY <1>0, <2>1, <2>2, <2>3, <2>4
<1>8. ASSUME NEW p \in Placers, Placer(p) PROVE TypeOK'
  <2>1. UNCHANGED <<flags, streamVars, requestVars, bootUp, killLast, clean, alone>>
    BY <1>8 DEF Placer, Snapshot, Transmit, Refuse
  <2>2. left' \in [Placers -> Nat] /\ leak' \in [Placers -> Nat] /\ open' \in Nat
    BY <1>8, BatchType DEF Placer, Snapshot, Transmit, Refuse
  <2> QED
    BY <1>0, <2>1, <2>2
<1>9. CASE OrderCloses
  BY <1>0, <1>9 DEF OrderCloses
<1>10. CASE UNCHANGED vars
  BY <1>0, <1>10 DEF vars
<1> QED
  BY <1>1, <1>2, <1>3, <1>4, <1>5, <1>6, <1>7, <1>8, <1>9, <1>10 DEF Next, Request

\* Every reachable state is well typed.
THEOREM TypeCorrect == Spec => []TypeOK
BY TypeInit, TypeStep, PTL DEF Spec

----------------------------------------------------------------------------
(* Placers on an old snapshot                                              *)

\* The strengthening of LeakBounded: what a placer has sent against the flags
\* and what it may still send come out of one batch, and a placer the flags
\* permit has sent nothing against them.
LeakIInv ==
  \A p \in Placers :
    /\ leak[p] + left[p] <= Batch(p)
    /\ Permits(flags, p) => leak[p] = 0

\* Nothing has been sent initially.
LEMMA LeakInit == Init => LeakIInv
BY BatchType DEF Init, LeakIInv, Permits, Flags

\* Recomputing leak after a change of the flags keeps the bound.
LEMMA LeakNoteFlags ==
  ASSUME TypeOK, LeakIInv, NoteFlags, left' = left
  PROVE  LeakIInv'
BY BatchType DEF TypeOK, LeakIInv, NoteFlags, Batch, Permits

\* Every step keeps a placer's leak and what is left of its batch within one batch.
LEMMA LeakStep == TypeOK /\ LeakIInv /\ [Next]_vars => LeakIInv'
<1> SUFFICES ASSUME TypeOK, LeakIInv, [Next]_vars PROVE LeakIInv'
  OBVIOUS
<1>1. ASSUME NEW r \in Requests, SetNextFlag(r) \/ BeginEmergencyStop(r)
      PROVE  LeakIInv'
  BY <1>1, LeakNoteFlags DEF SetNextFlag, BeginEmergencyStop
<1>2. ASSUME NEW p \in Placers, Snapshot(p) PROVE LeakIInv'
  <2>1. PICK n \in 1..Batch(p) : left' = [left EXCEPT ![p] = n]
    BY <1>2 DEF Snapshot
  <2>2. leak[p] = 0 /\ leak' = leak /\ flags' = flags
    BY <1>2 DEF Snapshot, LeakIInv, historyVars
  <2> QED
    BY <2>1, <2>2, BatchType DEF LeakIInv, TypeOK, Permits, Batch
<1>3. ASSUME NEW p \in Placers, Transmit(p) PROVE LeakIInv'
  BY <1>3, BatchType DEF Transmit, LeakIInv, TypeOK, Permits, Batch
<1>4. ASSUME NEW p \in Placers, Refuse(p) PROVE LeakIInv'
  BY <1>4, BatchType DEF Refuse, LeakIInv, TypeOK, Permits, Batch, historyVars
<1>5. CASE UNCHANGED <<flags, left, leak>>
  BY <1>5 DEF LeakIInv, Permits, Batch
<1> QED
  BY <1>1, <1>2, <1>3, <1>4, <1>5
     DEF Next, Request, Begin, SpinUp, SpinUpStarts, SpinUpSucceeds,
         SpinUpFails, Resume, Finish, CancelAllOrders, Placer, OrderCloses, historyVars, vars

\* Whatever turns live betting off, a placer overshoots by one batch at most.
THEOREM LeakBoundedHolds == Spec => []LeakBounded
<1>1. TypeOK /\ LeakIInv => LeakBounded
  BY BatchType DEF TypeOK, LeakIInv, LeakBounded
<1> QED
  BY <1>1, LeakInit, LeakStep, TypeCorrect, PTL DEF Spec

----------------------------------------------------------------------------
(* The kill switch                                                         *)

\* The strengthening of KillLeavesNothing: while the exchange is clean no placer
\* has anything to send, and no flag lets one start.
CleanIInv ==
  clean => /\ open = 0
           /\ ~BettingOn(flags)
           /\ \A p \in Placers : left[p] = 0

\* Every step keeps a clean exchange clean until betting is turned on.
LEMMA CleanStep == TypeOK /\ CleanIInv /\ [Next]_vars => CleanIInv'
<1> SUFFICES ASSUME TypeOK, CleanIInv, [Next]_vars PROVE CleanIInv'
  OBVIOUS
<1>1. ASSUME NEW r \in Requests, SetNextFlag(r) \/ BeginEmergencyStop(r)
      PROVE  CleanIInv'
  BY <1>1 DEF SetNextFlag, BeginEmergencyStop, NoteFlags, CleanIInv
<1>2. ASSUME NEW r \in Requests, CancelAllOrders(r) PROVE CleanIInv'
  BY <1>2 DEF CancelAllOrders, CleanIInv, BettingOn
<1>3. ASSUME NEW p \in Placers, Snapshot(p) PROVE CleanIInv'
  BY <1>3 DEF Snapshot, CleanIInv, BettingOn, Permits, historyVars
<1>4. ASSUME NEW p \in Placers, Transmit(p) \/ Refuse(p) PROVE CleanIInv'
  <2>1. left[p] > 0 /\ clean' = clean
    BY <1>4 DEF Transmit, Refuse, historyVars
  <2>2. ~clean
    BY <2>1 DEF CleanIInv
  <2> QED
    BY <2>1, <2>2 DEF CleanIInv
<1>5. CASE OrderCloses
  BY <1>5 DEF OrderCloses, CleanIInv, historyVars
<1>6. CASE UNCHANGED <<flags, left, open, clean>>
  BY <1>6 DEF CleanIInv, BettingOn
<1> QED
  BY <1>1, <1>2, <1>3, <1>4, <1>5, <1>6
     DEF Next, Request, Begin, SpinUp, SpinUpStarts, SpinUpSucceeds,
         SpinUpFails, Resume, Finish, Placer, historyVars, vars

\* The kill switch leaves no order open, provided no placer was at work when the
\* exchange cancelled.
THEOREM KillLeavesNothingHolds == Spec => []KillLeavesNothing
<1>1. Init => CleanIInv
  BY DEF Init, CleanIInv
<1>2. CleanIInv => KillLeavesNothing
  BY DEF CleanIInv, KillLeavesNothing
<1> QED
  BY <1>1, <1>2, CleanStep, TypeCorrect, PTL DEF Spec

\* The strengthening of KillSwitchFinal: with the stream up set_flag never
\* suspends, so a request that is not running has no flag left to set; the kill
\* switch starts only when none is running.
FinalIInv ==
  /\ bootUp =>
       /\ streamUp
       /\ \A r \in Requests :
            /\ pc[r] \in {"idle", "running", "cancelling", "cancelled"}
            /\ pc[r] # "running" => script[r] = <<>>
  /\ bootUp /\ killLast =>
       /\ ~BettingOn(flags)
       /\ \A r \in Requests : script[r] = <<>>

\* Every step keeps requests that a kill switch interrupted from turning a flag on.
LEMMA FinalStep == TypeOK /\ FinalIInv /\ [Next]_vars => FinalIInv'
<1> SUFFICES ASSUME TypeOK, FinalIInv, [Next]_vars PROVE FinalIInv'
  OBVIOUS
<1> USE DEF TypeOK, streamVars, historyVars, requestVars
<1>1. ASSUME NEW r \in Requests, Begin(r) PROVE FinalIInv'
  BY <1>1 DEF Begin, FinalIInv, BettingOn
<1>2. ASSUME NEW r \in Requests, SetNextFlag(r) PROVE FinalIInv'
  BY <1>2 DEF SetNextFlag, FinalIInv, BettingOn
<1>3. ASSUME NEW r \in Requests, SpinUp(r) PROVE FinalIInv'
  <2>1. pc[r] \in {"spinning", "connecting"} /\ bootUp' = bootUp
    BY <1>3 DEF SpinUp, SpinUpStarts, SpinUpSucceeds, SpinUpFails
  <2>2. ~bootUp
    BY <2>1 DEF FinalIInv
  <2> QED
    BY <2>1, <2>2 DEF FinalIInv
<1>4. ASSUME NEW r \in Requests, Resume(r) PROVE FinalIInv'
  BY <1>4 DEF Resume, FinalIInv, BettingOn
<1>5. ASSUME NEW r \in Requests, Finish(r) PROVE FinalIInv'
  BY <1>5 DEF Finish, FinalIInv, BettingOn
<1>6. ASSUME NEW r \in Requests, BeginEmergencyStop(r) PROVE FinalIInv'
  BY <1>6 DEF BeginEmergencyStop, LoopFree, FinalIInv, BettingOn, Flags
<1>7. ASSUME NEW r \in Requests, CancelAllOrders(r) PROVE FinalIInv'
  BY <1>7 DEF CancelAllOrders, FinalIInv, BettingOn
<1>8. ASSUME NEW p \in Placers, Placer(p) PROVE FinalIInv'
  BY <1>8 DEF Placer, Snapshot, Transmit, Refuse, FinalIInv, BettingOn
<1>9. CASE OrderCloses
  BY <1>9 DEF OrderCloses, FinalIInv, BettingOn
<1>10. CASE UNCHANGED vars
  BY <1>10 DEF vars, FinalIInv, BettingOn
<1> QED
  BY <1>1, <1>2, <1>3, <1>4, <1>5, <1>6, <1>7, <1>8, <1>9, <1>10 DEF Next, Request

\* After the kill switch, with the stream up since boot, betting stays off until
\* an operator asks for it anew.
THEOREM KillSwitchFinalHolds == Spec => []KillSwitchFinal
<1>1. Init => FinalIInv
  BY DEF Init, FinalIInv
<1>2. FinalIInv => KillSwitchFinal
  BY DEF FinalIInv, KillSwitchFinal
<1> QED
  BY <1>1, <1>2, FinalStep, TypeCorrect, PTL DEF Spec

----------------------------------------------------------------------------
(* A request on its own                                                    *)

Distinct(g) == \A i, j \in 1..Len(g) : g[i][1] = g[j][1] => i = j

\* What is left of a request's settings, s, is the end of what it was sent with, g,
Suffix(s, g) ==
  /\ Len(s) <= Len(g)
  /\ \A i \in 1..Len(s) : s[i] = g[Len(g) - Len(s) + i]
  /\ Distinct(g)

\* and the flags are as the settings before that end name them.
Effective(fl, s, g) ==
  \A i \in 1..(Len(g) - Len(s)) : fl[g[i][1]] = g[i][2]

\* The strengthening of SolitaryRequestTakesEffect: a request no other overlaps
\* has brought into effect the settings it has already made.
SolitaryIInv ==
  \A r \in Requests :
    pc[r] # "idle" =>
      /\ Suffix(script[r], goal[r])
      /\ alone[r] =>
           /\ \A q \in Requests \ {r} : pc[q] = "idle"
           /\ Effective(flags, script[r], goal[r])

\* A request as it is sent: everything is left to do.
LEMMA SuffixWhole ==
  ASSUME NEW s \in Seq(Settings), Distinct(s), NEW fl
  PROVE  Suffix(s, s) /\ Effective(fl, s, s)
<1>1. Len(s) \in Nat /\ Len(s) - Len(s) = 0
  OBVIOUS
<1> QED
  BY <1>1 DEF Suffix, Effective

\* The kill switch names every flag once and for FALSE; nothing is left to do.
LEMMA SuffixAllOff ==
  /\ Suffix(<<>>, AllOff)
  /\ Effective([f \in Flags |-> FALSE], <<>>, AllOff)
<1>1. /\ Len(AllOff) = 4
      /\ \A i \in 1..4 : AllOff[i][1] \in Flags /\ AllOff[i][2] = FALSE
      /\ \A i, j \in 1..4 : AllOff[i][1] = AllOff[j][1] => i = j
  BY DEF AllOff, Flags
<1>2. Len(<<>>) = 0
  OBVIOUS
<1>3. Suffix(<<>>, AllOff)
  <2>1. Len(<<>>) <= Len(AllOff) /\ 1..Len(<<>>) = {}
    BY <1>1, <1>2
  <2>2. Distinct(AllOff)
    BY <1>1 DEF Distinct
  <2> QED
    BY <2>1, <2>2 DEF Suffix
<1>4. 1..(Len(AllOff) - Len(<<>>)) = 1..4
  BY <1>1, <1>2
<1>5. Effective([f \in Flags |-> FALSE], <<>>, AllOff)
  BY <1>1, <1>4 DEF Effective
<1> QED
  BY <1>3, <1>5

\* Making the next setting leaves the end shorter by one, and what was in effect
\* stays so because no flag is named twice.
LEMMA SuffixTail ==
  ASSUME NEW s \in Seq(Settings), s # <<>>, NEW g \in Seq(Settings), Suffix(s, g),
         NEW fl \in [Flags -> BOOLEAN]
  PROVE  /\ Suffix(Tail(s), g)
         /\ Effective(fl, s, g) =>
              Effective([fl EXCEPT ![Head(s)[1]] = Head(s)[2]], Tail(s), g)
<1> DEFINE d == Len(g) - Len(s)
           new == [fl EXCEPT ![Head(s)[1]] = Head(s)[2]]
<1>1. /\ Len(s) \in Nat /\ Len(s) > 0 /\ Len(g) \in Nat /\ Len(s) <= Len(g)
      /\ Len(Tail(s)) = Len(s) - 1
  BY DEF Suffix
<1>2. \A i \in 1..Len(Tail(s)) : Tail(s)[i] = s[i + 1]
  OBVIOUS
<1>3. Head(s) = s[1] /\ s[1] = g[d + 1]
  BY <1>1 DEF Suffix
<1>4. d \in Nat /\ d + 1 \in 1..Len(g) /\ Len(g) - Len(Tail(s)) = d + 1
  BY <1>1
<1>5. Suffix(Tail(s), g)
  <2>1. ASSUME NEW i \in 1..Len(Tail(s)) PROVE Tail(s)[i] = g[d + 1 + i]
    <3>1. i + 1 \in 1..Len(s) /\ d + 1 + i = d + (i + 1)
      BY <1>1, <1>4
    <3>2. s[i + 1] = g[d + (i + 1)]
      BY <3>1 DEF Suffix
    <3> QED
      BY <1>2, <3>1, <3>2
  <2> QED
    BY <1>1, <1>4, <2>1 DEF Suffix
<1>6. ASSUME Effective(fl, s, g) PROVE Effective(new, Tail(s), g)
  <2>1. \A i \in 1..Len(g) : g[i][1] \in Flags
    <3>1. \A i \in 1..Len(g) : g[i] \in Settings
      OBVIOUS
    <3> QED
      BY <3>1 DEF Settings
  <2>2. new[g[d + 1][1]] = g[d + 1][2]
    BY <1>3, <1>4, <2>1
  <2>3. ASSUME NEW i \in 1..d PROVE new[g[i][1]] = g[i][2]
    <3>1. i \in 1..Len(g) /\ i # d + 1
      BY <1>1, <1>4
    <3>2. g[i][1] # g[d + 1][1] /\ g[i][1] \in Flags
      BY <1>4, <2>1, <3>1 DEF Suffix, Distinct
    <3>3. fl[g[i][1]] = g[i][2]
      BY <1>6 DEF Effective
    <3> QED
      BY <1>3, <3>2, <3>3
  <2>4. \A i \in 1..(d + 1) : i \in 1..d \/ i = d + 1
    BY <1>4
  <2> QED
    BY <1>4, <2>2, <2>3, <2>4 DEF Effective
<1> QED
  BY <1>5, <1>6

\* A request not under way has nothing left to set.
IdleOK == \A r \in Requests : pc[r] = "idle" => script[r] = <<>>

\* Every step leaves a request that is idle without settings to make.
LEMMA IdleStep == TypeOK /\ IdleOK /\ [Next]_vars => IdleOK'
<1> SUFFICES ASSUME TypeOK, IdleOK, [Next]_vars PROVE IdleOK'
  OBVIOUS
<1> USE DEF TypeOK, IdleOK
<1>1. ASSUME NEW r \in Requests, Begin(r) PROVE IdleOK'
  BY <1>1 DEF Begin
<1>2. ASSUME NEW r \in Requests, SetNextFlag(r) PROVE IdleOK'
  BY <1>2 DEF SetNextFlag
<1>3. ASSUME NEW r \in Requests, SpinUp(r) \/ Resume(r) \/ CancelAllOrders(r)
      PROVE  IdleOK'
  BY <1>3 DEF SpinUp, SpinUpStarts, SpinUpSucceeds, SpinUpFails, Resume, CancelAllOrders
<1>4. ASSUME NEW r \in Requests, Finish(r) \/ BeginEmergencyStop(r) PROVE IdleOK'
  BY <1>4 DEF Finish, BeginEmergencyStop
<1>5. CASE UNCHANGED <<pc, script>>
  BY <1>5
<1> QED
  BY <1>1, <1>2, <1>3, <1>4, <1>5
     DEF Next, Request, Placer, Snapshot, Transmit, Refuse, OrderCloses,
         requestVars, vars

\* Steps that neither begin nor end a request nor set a flag.
LEMMA SolitaryFrame ==
  ASSUME SolitaryIInv, UNCHANGED <<flags, script, goal, alone>>,
         \A q \in Requests : pc'[q] # "idle" <=> pc[q] # "idle"
  PROVE  SolitaryIInv'
BY DEF SolitaryIInv

\* Every step of a solitary request keeps the flags it has set as it set them.
LEMMA SolitaryStep == TypeOK /\ IdleOK /\ SolitaryIInv /\ [Next]_vars => SolitaryIInv'
<1> SUFFICES ASSUME TypeOK, IdleOK, SolitaryIInv, [Next]_vars PROVE SolitaryIInv'
  OBVIOUS
<1>1. ASSUME NEW r \in Requests, Begin(r) PROVE SolitaryIInv'
  <2>1. PICK s \in Scripts : script' = [script EXCEPT ![r] = s]
                          /\ goal' = [goal EXCEPT ![r] = s]
    BY <1>1 DEF Begin
  <2>2. s \in Seq(Settings) /\ Distinct(s)
    BY ScriptsAssumption DEF Distinct
  <2>3. /\ script'[r] = s /\ goal'[r] = s
        /\ alone'[r] => \A q \in Requests : pc[q] = "idle"
    BY <1>1, <2>1 DEF TypeOK, Begin, NoteBegin, Active
  <2>4. ASSUME NEW q \in Requests \ {r}
        PROVE  /\ script'[q] = script[q] /\ goal'[q] = goal[q] /\ pc'[q] = pc[q]
               /\ pc[q] # "idle" => ~alone'[q]
    BY <1>1, <2>1 DEF TypeOK, Begin, NoteBegin, Active
  <2>5. Suffix(script'[r], goal'[r]) /\ Effective(flags', script'[r], goal'[r])
    BY <2>2, <2>3, SuffixWhole
  <2> QED
    BY <2>3, <2>4, <2>5 DEF SolitaryIInv
<1>2. ASSUME NEW r \in Requests, SetNextFlag(r) PROVE SolitaryIInv'
  <2>1. /\ script[r] \in Seq(Settings) /\ script[r] # <<>> /\ goal[r] \in Seq(Settings)
        /\ pc[r] = "running" /\ flags \in [Flags -> BOOLEAN]
        /\ script'[r] = Tail(script[r]) /\ goal' = goal /\ alone' = alone
        /\ flags' = [flags EXCEPT ![Head(script[r])[1]] = Head(script[r])[2]]
        /\ \A q \in Requests \ {r} : script'[q] = script[q] /\ pc'[q] = pc[q]
    BY <1>2 DEF TypeOK, SetNextFlag
  <2>2. Suffix(script[r], goal[r])
    BY <2>1 DEF SolitaryIInv
  <2>3. /\ Suffix(script'[r], goal'[r])
        /\ alone[r] => Effective(flags', script'[r], goal'[r])
    BY <2>1, <2>2, SuffixTail DEF SolitaryIInv
  <2>4. ASSUME NEW q \in Requests \ {r}, pc[q] # "idle" PROVE ~alone[q]
    BY <2>1, <2>4 DEF SolitaryIInv
  <2> QED
    BY <2>1, <2>3, <2>4 DEF SolitaryIInv
<1>3. ASSUME NEW r \in Requests, Finish(r) PROVE SolitaryIInv'
  <2>1. /\ pc'[r] = "idle" /\ flags' = flags /\ alone' = alone /\ script' = script
        /\ \A q \in Requests \ {r} : pc'[q] = pc[q] /\ goal'[q] = goal[q]
    BY <1>3 DEF TypeOK, Finish, historyVars
  <2> QED
    BY <2>1 DEF SolitaryIInv
<1>4. ASSUME NEW r \in Requests, BeginEmergencyStop(r) PROVE SolitaryIInv'
  <2>1. /\ flags' = [f \in Flags |-> FALSE] /\ goal'[r] = AllOff /\ script' = script
        /\ pc[r] = "idle"
        /\ alone'[r] => \A q \in Requests : pc[q] = "idle"
    BY <1>4 DEF TypeOK, BeginEmergencyStop, NoteBegin, Active
  <2>2. ASSUME NEW q \in Requests \ {r}
        PROVE  /\ pc'[q] = pc[q] /\ goal'[q] = goal[q]
               /\ pc[q] # "idle" => ~alone'[q]
    BY <1>4 DEF TypeOK, BeginEmergencyStop, NoteBegin, Active
  <2>3. script[r] = <<>>
    BY <2>1 DEF IdleOK
  <2>4. Suffix(script'[r], goal'[r]) /\ Effective(flags', script'[r], goal'[r])
    BY <2>1, <2>3, SuffixAllOff
  <2> QED
    BY <2>1, <2>2, <2>4 DEF SolitaryIInv
<1>5. ASSUME NEW r \in Requests, SpinUp(r) \/ Resume(r) \/ CancelAllOrders(r)
      PROVE  SolitaryIInv'
  <2>1. UNCHANGED <<flags, script, goal, alone>>
    BY <1>5 DEF SpinUp, SpinUpStarts, SpinUpSucceeds, SpinUpFails, Resume,
                CancelAllOrders, historyVars
  <2>2. \A q \in Requests : pc'[q] # "idle" <=> pc[q] # "idle"
    BY <1>5 DEF TypeOK, SpinUp, SpinUpStarts, SpinUpSucceeds, SpinUpFails, Resume,
                CancelAllOrders
  <2> QED
    BY <2>1, <2>2, SolitaryFrame
<1>6. CASE UNCHANGED <<flags, pc, script, goal, alone>>
  BY <1>6, SolitaryFrame
<1> QED
  BY <1>1, <1>2, <1>3, <1>4, <1>5, <1>6
     DEF Next, Request, Placer, Snapshot, Transmit, Refuse, OrderCloses,
         requestVars, historyVars, vars

\* The step inside SolitaryRequestTakesEffect: only Finish ends a request, and it
\* finds every setting made.
LEMMA SolitaryEnd ==
  ASSUME TypeOK, SolitaryIInv, [Next]_vars,
         NEW r \in Requests, pc[r] # "idle", pc'[r] = "idle", alone[r]
  PROVE  \A i \in DOMAIN goal[r] : flags[goal[r][i][1]] = goal[r][i][2]
<1>1. script[r] = <<>>
  BY DEF TypeOK, Next, Request, Begin, SetNextFlag, SpinUp, SpinUpStarts, SpinUpSucceeds,
         SpinUpFails, Resume, Finish, BeginEmergencyStop, CancelAllOrders,
         Placer, Snapshot, Transmit, Refuse, OrderCloses, requestVars, vars
<1>2. Effective(flags, <<>>, goal[r])
  BY <1>1 DEF SolitaryIInv
<1>3. goal[r] \in Seq(Settings) /\ Len(<<>>) = 0
  BY DEF TypeOK
<1>4. DOMAIN goal[r] = 1..Len(goal[r]) /\ Len(goal[r]) - Len(<<>>) = Len(goal[r])
  BY <1>3
<1> QED
  BY <1>2, <1>4 DEF Effective

\* A request that no other overlaps ends with the flags it names as it named
\* them, through any number of stream failures.
THEOREM SolitaryRequestTakesEffectHolds == Spec => SolitaryRequestTakesEffect
<1>1. Init => IdleOK /\ SolitaryIInv
  BY DEF Init, IdleOK, SolitaryIInv
<1>2. TypeOK /\ SolitaryIInv /\ [Next]_vars =>
        [\A r \in Requests :
           pc[r] # "idle" /\ pc'[r] = "idle" /\ alone[r] =>
             \A i \in DOMAIN goal[r] : flags[goal[r][i][1]] = goal[r][i][2]]_vars
  BY SolitaryEnd
<1> QED
  BY <1>1, <1>2, IdleStep, SolitaryStep, TypeCorrect, PTL
     DEF Spec, SolitaryRequestTakesEffect
=============================================================================
