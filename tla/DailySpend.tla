----------------------------- MODULE DailySpend -----------------------------
(***************************************************************************)
(* What the daily cap is worth in money.  BetLedger bounds total_stake,    *)
(* the engine's own figure; here the stakes the exchange takes are summed  *)
(* up beside it, and what makes the two differ is counted: a reply that is *)
(* lost, after which the engine does not know of the bet, and whatever     *)
(* lets the engine start again from zero: a reset of the counters, by an   *)
(* operator or at midnight, and a restart of the process.                  *)
(*                                                                         *)
(* The actions are those of BetLedger with the history written along.      *)
(***************************************************************************)
EXTENDS BetLedger

CONSTANT MaxRenewals    \* bound on the resets and restarts of a behaviour

ASSUME MaxRenewalsAssumption == MaxRenewals \in Nat

VARIABLES
  taken,          \* history: the sum of the stakes the exchange took
  lost,           \* history: the accepted bets the engine never counted
  renewals        \* history: how often total_stake went back to zero

spendVars == <<taken, lost, renewals>>
dailyVars == <<vars, spendVars>>

Accepted == {w \in Workers : pc[w] = "accepted"}

DailyInit ==
  /\ Init
  /\ taken = 0 /\ lost = 0 /\ renewals = 0

----------------------------------------------------------------------------

Take(w, b) ==
  /\ Accept(w, b)
  /\ taken' = taken + stakeOf[w]
  /\ UNCHANGED <<lost, renewals>>

Miss(w) ==
  /\ LoseReply(w)
  /\ lost' = lost + 1
  /\ UNCHANGED <<taken, renewals>>

Renew ==
  /\ renewals < MaxRenewals
  /\ renewals' = renewals + 1
  /\ UNCHANGED taken

Reset ==
  /\ Renew
  /\ ResetStats
  /\ UNCHANGED lost

\* The replies on their way never arrive.
Crash ==
  /\ Renew
  /\ Restart
  /\ lost' = lost + Cardinality(Accepted)

Elsewhere ==
  /\ \/ \E w \in Workers : CheckCap(w) \/ Reject(w) \/ RecordPlacement(w)
     \/ \E b \in Bets : Exchange(b)
     \/ DayEnds
     \/ FetchOrders \/ ApplyOrdersReport
     \/ FetchCleared \/ RecordSettlements
     \/ \E p \in Pollers : PollerEnds(p)
     \/ StartPollers
  /\ UNCHANGED spendVars

DailyNext ==
  \/ \E w \in Workers, b \in Bets : Take(w, b)
  \/ \E w \in Workers : Miss(w)
  \/ Reset
  \/ Crash
  \/ Elsewhere

DailySpec == DailyInit /\ [][DailyNext]_dailyVars

----------------------------------------------------------------------------
(* Properties                                                              *)

\* What one life of total_stake may reach, see CapOvershootBounded.
Ceiling == Cap + (Cardinality(Workers) - 1) * MaxStake

\* The money at stake on the exchange: with the cap enforced, all bets together
\* stay within one ceiling for each life of total_stake, and one largest stake
\* for each reply that was lost, whatever threads race, replies fail and
\* processes die in the middle of a placement.
TakenWithinCeilings ==
  CapEnabled /\ Cap > 0 =>
    taken <= (renewals + 1) * Ceiling + lost * MaxStake
=============================================================================
