------------------------------ MODULE SpendCap ------------------------------
(***************************************************************************)
(* What the daily cap of LiveEngine promises, free of orders, exchange and *)
(* pollers: a budget that several holders draw on.  A grant is made when   *)
(* the amount still fits what has been spent, and is not reserved: it is   *)
(* spent, or given back, later.  BetLedger implements this specification.  *)
(***************************************************************************)
EXTENDS Integers

CONSTANTS
  Holders,        \* those who draw on the budget
  Amounts,        \* amounts they may ask for, none of them 0
  Enforced,       \* the cap applies
  Limit           \* the cap

VARIABLES
  spent,          \* spent since the budget was last renewed
  granted         \* what each holder has been granted and not spent; 0 for nothing

Init ==
  /\ spent = 0
  /\ granted = [h \in Holders |-> 0]

Fits(a) == Enforced => spent + a <= Limit

Grant(h) ==
  /\ granted[h] = 0
  /\ \E a \in Amounts : Fits(a) /\ granted' = [granted EXCEPT ![h] = a]
  /\ UNCHANGED spent

Spend(h) ==
  /\ granted[h] # 0
  /\ spent' = spent + granted[h]
  /\ granted' = [granted EXCEPT ![h] = 0]

GiveBack(h) ==
  /\ granted[h] # 0
  /\ granted' = [granted EXCEPT ![h] = 0]
  /\ UNCHANGED spent

Renew == spent' = 0 /\ UNCHANGED granted

\* The holders are gone, and with them what they were granted.
StartOver == spent' = 0 /\ granted' = [h \in Holders |-> 0]

Next == Renew \/ StartOver \/ \E h \in Holders : Grant(h) \/ Spend(h) \/ GiveBack(h)

Spec == Init /\ [][Next]_<<spent, granted>>
=============================================================================
