----------------------------- MODULE BetLedger -----------------------------
(***************************************************************************)
(* The money side of LiveEngine (src/engine.py): placing a bet under the   *)
(* daily spend cap, tracking the open orders, recording settlements and    *)
(* resetting the counters.  Every critical section under LiveEngine._lock  *)
(* is one action; a REST call to Betfair happens between two of them.      *)
(*                                                                         *)
(* A worker is a thread that places bets: the stream processing thread     *)
(* (_place_bet_sync) or a thread serving POST /api/place                   *)
(* (place_bet_external).  Both make the same three moves: check the cap,   *)
(* call the exchange, record the accepted bet.  Which flags let a worker   *)
(* start is the subject of BettingControl; here a worker may always start. *)
(* The runtime configuration (cap, customer_strategy_ref) is constant: a   *)
(* process starts with the cap off, and with betting off as well, and the  *)
(* operator is taken to set the cap before turning betting on.             *)
(***************************************************************************)
EXTENDS Integers, FiniteSets, Functions

CONSTANTS
  Workers,        \* threads that place bets
  Bets,           \* bet ids the exchange may hand out
  Stakes,         \* stakes a decision may carry
  MinStake,       \* the smallest and
  MaxStake,       \* the largest of them
  Price,          \* the price of every order (a lay: liability s * (Price - 1))
  CapEnabled,     \* daily_max_stake_enabled
  Cap,            \* daily_max_stake
  NoBet, NoReport

ASSUME WorkersAssumption == IsFiniteSet(Workers) /\ Workers # {}
ASSUME BetsAssumption == IsFiniteSet(Bets) /\ NoBet \notin Bets
ASSUME StakesAssumption ==
  /\ MinStake \in Nat \ {0}
  /\ MaxStake \in Nat
  /\ Stakes \subseteq MinStake..MaxStake
  /\ Stakes # {}
ASSUME PriceAssumption == Price \in Nat /\ Price > 1
ASSUME CapAssumption == CapEnabled \in BOOLEAN /\ Cap \in Nat

VARIABLES
  \* placing workers
  pc,             \* "idle", "checked" (cap passed), "accepted" (reply in flight)
  stakeOf,        \* the stake the worker is placing
  betOf,          \* the bet id in the reply, once accepted
  \* the exchange
  exState,        \* what each bet is on the exchange
  exStake,        \* its stake
  \* LiveEngine
  openOrders,     \* _open_orders: bet id -> liability
  exposed,        \* the open orders _stats.open_exposure was last summed over
  placed,         \* _stats.bets_placed
  pending,        \* _stats.bets_pending
  totalStake,     \* _stats.total_stake
  settled,        \* _stats.bets_won + bets_lost + bets_void
  known,          \* _known_settled_bet_ids
  hydrated,       \* history: those of them an earlier process recorded
  \* pollers, between their REST call and the update that follows it
  polling,        \* the poller tasks that have not ended
  ordersReport,   \* the exchange as list_current_orders saw it
  clearedReport,  \* the bets list_cleared_orders returned
  \* history
  sync            \* how far a poll has come since the executable orders changed, or
                  \* one was recorded: "moved", "fetched", "applied"

workerVars   == <<pc, stakeOf, betOf>>
exchangeVars == <<exState, exStake>>
statsVars    == <<placed, pending, totalStake, settled>>
orderVars    == <<openOrders, exposed>>
knownVars    == <<known, hydrated>>
reportVars   == <<ordersReport, clearedReport>>
pollVars     == <<polling, reportVars>>
vars == <<pc, stakeOf, betOf, exState, exStake, openOrders, exposed, placed,
          pending, totalStake, settled, known, hydrated, polling, ordersReport,
          clearedReport, sync>>

Pollers == {"orders", "settlement"}

\* "gone": in no report any more, lapsed or settled on an earlier day than today.
ExchangeStates == {"none", "executable", "matched", "settled", "gone"}

InState(state, s) == {b \in Bets : state[b] = s}

\* BetDecision.liability of a lay, and the figure the order poller computes for
\* an order it did not know: price * size_remaining * (price - 1).
Liability(s) == s * (Price - 1)
AdoptedLiability(s) == Price * s * (Price - 1)

NoOrders == [b \in {} |-> 0]

\* Definitions named X_... are mutants of X: a bug the code could have had, which
\* some property must notice.
Minus_NoFloor(n, k) == n - k

Minus(n, k) == IF k <= n THEN n - k ELSE 0      \* decrements guarded by "> 0"

InFlight == {w \in Workers : pc[w] # "idle"}

----------------------------------------------------------------------------

\* A process starts: the exchange holds whatever earlier processes left there, and
\* hydrate_recent_settled_from_gcs brings back the settlements they persisted.
Init ==
  /\ pc = [w \in Workers |-> "idle"]
  /\ stakeOf = [w \in Workers |-> 0]
  /\ betOf = [w \in Workers |-> NoBet]
  /\ exState \in [Bets -> ExchangeStates]
  /\ \E s \in [Bets -> Stakes] :
       exStake = [b \in Bets |-> IF exState[b] = "none" THEN 0 ELSE s[b]]
  /\ openOrders = NoOrders
  /\ exposed = NoOrders
  /\ placed = 0 /\ pending = 0 /\ totalStake = 0 /\ settled = 0
  /\ known \in SUBSET {b \in Bets : exState[b] \in {"settled", "gone"}}
  /\ hydrated = known
  /\ polling \in {{}, Pollers}
  /\ ordersReport = NoReport
  /\ clearedReport = NoReport
  /\ sync = "moved"

----------------------------------------------------------------------------
(* Placing a bet                                                           *)

WithinCap_StakeIgnored(s) == ~CapEnabled \/ Cap = 0 \/ totalStake <= Cap

\* _check_daily_cap: a disabled or zero cap refuses nothing.
WithinCap(s) == ~CapEnabled \/ Cap = 0 \/ totalStake + s <= Cap

\* The cap is read under the lock and the lock is released.  A refused bet
\* changes nothing (spend_cap_blocked event, or an error to the caller).
CheckCap(w) ==
  /\ pc[w] = "idle"
  /\ \E s \in Stakes :
       /\ WithinCap(s)
       /\ stakeOf' = [stakeOf EXCEPT ![w] = s]
  /\ pc' = [pc EXCEPT ![w] = "checked"]
  /\ UNCHANGED <<betOf, exchangeVars, orderVars, statsVars, knownVars, pollVars, sync>>

\* place_orders: the exchange takes the order and gives it a fresh bet id.
Accept(w, b) ==
  /\ pc[w] = "checked"
  /\ exState[b] = "none"
  /\ exState' = [exState EXCEPT ![b] = "executable"]
  /\ exStake' = [exStake EXCEPT ![b] = stakeOf[w]]
  /\ pc' = [pc EXCEPT ![w] = "accepted"]
  /\ betOf' = [betOf EXCEPT ![w] = b]
  /\ sync' = "moved"
  /\ UNCHANGED <<stakeOf, orderVars, statsVars, knownVars, pollVars>>

Finish(w) ==
  /\ pc' = [pc EXCEPT ![w] = "idle"]
  /\ stakeOf' = [stakeOf EXCEPT ![w] = 0]
  /\ betOf' = [betOf EXCEPT ![w] = NoBet]

\* The call fails, or its report is not SUCCESS, and the exchange holds nothing.
Reject(w) ==
  /\ pc[w] = "checked"
  /\ Finish(w)
  /\ UNCHANGED <<exchangeVars, orderVars, statsVars, knownVars, pollVars, sync>>

\* The exchange accepted but the reply is lost (a timeout): BetfairServiceError,
\* so the engine neither tracks nor counts the bet.
LoseReply(w) ==
  /\ pc[w] = "accepted"
  /\ Finish(w)
  /\ UNCHANGED <<exchangeVars, orderVars, statsVars, knownVars, pollVars, sync>>

RecordPlacement_CountsLiability(w) ==
  LET b == betOf[w]
  IN  /\ pc[w] = "accepted"
      /\ openOrders' = [c \in DOMAIN openOrders \union {b} |->
                          IF c = b THEN Liability(stakeOf[w]) ELSE openOrders[c]]
      /\ exposed' = openOrders'
      /\ placed' = placed + 1
      /\ pending' = pending + 1
      /\ totalStake' = totalStake + Liability(stakeOf[w])
      /\ Finish(w)
      /\ sync' = "moved"
      /\ UNCHANGED <<exchangeVars, settled, knownVars, pollVars>>

\* The reply is SUCCESS: the bet is tracked and counted under the lock.
RecordPlacement(w) ==
  LET b == betOf[w]
  IN  /\ pc[w] = "accepted"
      /\ openOrders' = [c \in DOMAIN openOrders \union {b} |->
                          IF c = b THEN Liability(stakeOf[w]) ELSE openOrders[c]]
      /\ exposed' = openOrders'
      /\ placed' = placed + 1
      /\ pending' = pending + 1
      /\ totalStake' = totalStake + stakeOf[w]
      /\ Finish(w)
      /\ sync' = "moved"
      /\ UNCHANGED <<exchangeVars, settled, knownVars, pollVars>>

----------------------------------------------------------------------------
(* The exchange: orders match, lapse or are cancelled (POST /api/cancel    *)
(* and the kill switch change nothing in the engine), and bets settle.     *)

MoveBet(b, from, to) ==
  /\ exState[b] = from
  /\ exState' = [exState EXCEPT ![b] = to]
  /\ sync' = IF from = "executable" THEN "moved" ELSE sync
  /\ UNCHANGED <<workerVars, exStake, orderVars, statsVars, knownVars, pollVars>>

Match(b) == MoveBet(b, "executable", "matched")
Lapse(b) == MoveBet(b, "executable", "gone")
Settle(b) == MoveBet(b, "matched", "settled")

\* Midnight UTC: what is settled was settled yesterday.
DayEnds ==
  /\ exState' = [b \in Bets |-> IF exState[b] = "settled" THEN "gone" ELSE exState[b]]
  /\ UNCHANGED <<workerVars, exStake, orderVars, statsVars, knownVars, pollVars, sync>>

----------------------------------------------------------------------------
(* Order poller: _poll_orders and _apply_orders_report                     *)

\* list_current_orders runs in a thread; the report is applied later, under the
\* lock.  The report lists the executable and the execution-complete orders.
FetchOrders ==
  /\ "orders" \in polling
  /\ ordersReport = NoReport
  /\ ordersReport' = exState
  /\ sync' = IF sync = "moved" THEN "fetched" ELSE sync
  /\ UNCHANGED <<workerVars, exchangeVars, orderVars, statsVars, knownVars, polling,
                 clearedReport>>

ApplyOrdersReport_KnownNotSeen ==
  LET executable == InState(ordersReport, "executable")
      complete   == InState(ordersReport, "matched")
  IN  /\ ordersReport # NoReport
      /\ openOrders' = [b \in executable \ DOMAIN openOrders |-> AdoptedLiability(exStake[b])]
      /\ exposed' = openOrders'
      /\ pending' = Minus(pending, Cardinality(complete \intersect DOMAIN openOrders))
      /\ ordersReport' = NoReport
      /\ sync' = IF sync = "fetched" THEN "applied" ELSE sync
      /\ UNCHANGED <<workerVars, exchangeVars, placed, totalStake, settled,
                     knownVars, polling, clearedReport>>

ApplyOrdersReport_KeepsMissing ==
  LET executable == InState(ordersReport, "executable")
      complete   == InState(ordersReport, "matched")
  IN  /\ ordersReport # NoReport
      /\ openOrders' = [b \in executable \union (DOMAIN openOrders \ complete) |->
                          IF b \in DOMAIN openOrders
                          THEN openOrders[b]
                          ELSE AdoptedLiability(exStake[b])]
      /\ exposed' = openOrders'
      /\ pending' = Minus(pending, Cardinality(complete \intersect DOMAIN openOrders))
      /\ ordersReport' = NoReport
      /\ sync' = IF sync = "fetched" THEN "applied" ELSE sync
      /\ UNCHANGED <<workerVars, exchangeVars, placed, totalStake, settled,
                     knownVars, polling, clearedReport>>

\* Executable orders are kept or adopted, complete ones dropped and no longer
\* pending, and orders the report does not list are dropped.
ApplyOrdersReport ==
  LET executable == InState(ordersReport, "executable")
      complete   == InState(ordersReport, "matched")
  IN  /\ ordersReport # NoReport
      /\ openOrders' = [b \in executable |->
                          IF b \in DOMAIN openOrders
                          THEN openOrders[b]
                          ELSE AdoptedLiability(exStake[b])]
      /\ exposed' = openOrders'
      /\ pending' = Minus(pending, Cardinality(complete \intersect DOMAIN openOrders))
      /\ ordersReport' = NoReport
      /\ sync' = IF sync = "fetched" THEN "applied" ELSE sync
      /\ UNCHANGED <<workerVars, exchangeVars, placed, totalStake, settled,
                     knownVars, polling, clearedReport>>

----------------------------------------------------------------------------
(* Settlement poller: _poll_settlement and _record_settlements             *)

\* list_cleared_orders runs in a thread, for the bets settled today.
FetchCleared ==
  /\ "settlement" \in polling
  /\ clearedReport = NoReport
  /\ clearedReport' = InState(exState, "settled")
  /\ UNCHANGED <<workerVars, exchangeVars, orderVars, statsVars, knownVars, polling,
                 ordersReport, sync>>

RecordSettlements_ExposureKept ==
  LET new == clearedReport \ known
  IN  /\ clearedReport # NoReport
      /\ known' = known \union new
      /\ settled' = settled + Cardinality(new)
      /\ pending' = Minus(pending, Cardinality(new))
      /\ openOrders' = Restrict(openOrders, DOMAIN openOrders \ new)
      /\ clearedReport' = NoReport
      /\ UNCHANGED <<workerVars, exchangeVars, exposed, placed, totalStake,
                     hydrated, polling, ordersReport, sync>>

RecordSettlements ==
  LET new == clearedReport \ known
  IN  /\ clearedReport # NoReport
      /\ known' = known \union new
      /\ settled' = settled + Cardinality(new)
      /\ pending' = Minus(pending, Cardinality(new))
      /\ openOrders' = Restrict(openOrders, DOMAIN openOrders \ new)
      /\ exposed' = openOrders'
      /\ clearedReport' = NoReport
      /\ UNCHANGED <<workerVars, exchangeVars, placed, totalStake, hydrated,
                     polling, ordersReport, sync>>

----------------------------------------------------------------------------
(* The life of the pollers                                                 *)

Asleep(p) == IF p = "orders" THEN ordersReport = NoReport ELSE clearedReport = NoReport

\* A poller that wakes up in mode STOPPED, the mode at boot, returns.  The mode is
\* BettingControl's and StreamLifecycle's subject; here it may be any at any time.
PollerEnds(p) ==
  /\ p \in polling
  /\ Asleep(p)
  /\ polling' = polling \ {p}
  /\ UNCHANGED <<workerVars, exchangeVars, orderVars, statsVars, knownVars, reportVars,
                 sync>>

\* _start_async_pollers: a spin-up has succeeded, and starts those that ended.
StartPollers ==
  /\ polling' = Pollers
  /\ UNCHANGED <<workerVars, exchangeVars, orderVars, statsVars, knownVars, reportVars,
                 sync>>

----------------------------------------------------------------------------
(* POST /admin/stats/reset and the midnight reset: the counters and the    *)
(* known settlements go, the open orders stay.                             *)

ResetStats ==
  /\ placed' = 0 /\ pending' = 0 /\ totalStake' = 0 /\ settled' = 0
  /\ exposed' = NoOrders
  /\ known' = {}
  /\ hydrated' = {}
  /\ UNCHANGED <<workerVars, exchangeVars, openOrders, pollVars, sync>>

----------------------------------------------------------------------------

\* The process dies at any moment, with it the replies and reports on their way, and
\* starts again as Init says: nothing but the recent settlements is read back.
Restart ==
  /\ pc' = [w \in Workers |-> "idle"]
  /\ stakeOf' = [w \in Workers |-> 0]
  /\ betOf' = [w \in Workers |-> NoBet]
  /\ openOrders' = NoOrders /\ exposed' = NoOrders
  /\ placed' = 0 /\ pending' = 0 /\ totalStake' = 0 /\ settled' = 0
  /\ known' \in SUBSET {b \in Bets : exState[b] \in {"settled", "gone"}}
  /\ hydrated' = known'
  /\ polling' \in {{}, Pollers}
  /\ ordersReport' = NoReport /\ clearedReport' = NoReport
  /\ sync' = "moved"
  /\ UNCHANGED exchangeVars

----------------------------------------------------------------------------

Place(w) ==
  \/ CheckCap(w)
  \/ \E b \in Bets : Accept(w, b)
  \/ Reject(w)
  \/ LoseReply(w)
  \/ RecordPlacement(w)

Exchange(b) == Match(b) \/ Lapse(b) \/ Settle(b)

Next ==
  \/ \E w \in Workers : Place(w)
  \/ \E b \in Bets : Exchange(b)
  \/ DayEnds
  \/ FetchOrders
  \/ ApplyOrdersReport
  \/ FetchCleared
  \/ RecordSettlements
  \/ \E p \in Pollers : PollerEnds(p)
  \/ StartPollers
  \/ ResetStats
  \/ Restart

Spec == Init /\ [][Next]_vars

----------------------------------------------------------------------------
(* Properties                                                              *)

\* The types of the variables; a hydrated settlement is a known one.
TypeOK ==
  /\ pc \in [Workers -> {"idle", "checked", "accepted"}]
  /\ stakeOf \in [Workers -> Stakes \union {0}]
  /\ betOf \in [Workers -> Bets \union {NoBet}]
  /\ exState \in [Bets -> ExchangeStates]
  /\ exStake \in [Bets -> Stakes \union {0}]
  /\ DOMAIN openOrders \subseteq Bets
  /\ openOrders \in [DOMAIN openOrders -> Nat]
  /\ exposed \in [DOMAIN exposed -> Nat]
  /\ placed \in Nat /\ pending \in Nat /\ totalStake \in Nat /\ settled \in Nat
  /\ known \subseteq Bets /\ hydrated \subseteq known
  /\ polling \subseteq Pollers
  /\ ordersReport \in [Bets -> ExchangeStates] \union {NoReport}
  /\ clearedReport \in (SUBSET Bets) \union {NoReport}
  /\ sync \in {"moved", "fetched", "applied"}

\* Several workers may pass the cap check on the same total_stake before any of
\* them records (the lock is released in between), so total_stake can end above
\* the cap; but never by more than one largest stake per other worker.  With one
\* worker the daily cap is the hard ceiling its documentation announces.
CapOvershootBounded ==
  CapEnabled /\ Cap > 0 =>
    totalStake <= Cap + (Cardinality(Workers) - 1) * MaxStake

\* GET /api/positions: total_exposure is summed over the positions it lists, or it
\* is zero because the counters were reset since; never over orders gone from the
\* list, and never with one of the list missing.
ExposureOfPositions == exposed \in {openOrders, NoOrders}

\* A poll drops an order that is still executable on the exchange only when the
\* order was accepted after the poll's report was taken; nothing else drops one,
\* unless the process dies.
NoWrongfulRemoval ==
  [][~Restart =>
       \A b \in DOMAIN openOrders \ DOMAIN openOrders' :
         exState[b] = "executable" => ordersReport[b] = "none"]_vars

\* One poll repairs what lost replies, stale reports, settlements and crashes have done
\* to the open orders: a report that no executable order has overtaken makes them the
\* executable orders of the exchange, and late settlement reports, resets and midnights
\* leave them so until the next placement, match or lapse.
OnePollRepairs ==
  sync = "applied" => DOMAIN openOrders = InState(exState, "executable")

\* What is left of the daily cap once orders, exchange and pollers are forgotten: a
\* budget from which the workers are granted stakes.  total_stake is what is spent;
\* a worker between its check and its record holds a grant.
Budget == INSTANCE SpendCap
            WITH Holders <- Workers, Amounts <- Stakes,
                 Enforced <- (CapEnabled /\ Cap > 0), Limit <- Cap,
                 spent <- totalStake, granted <- stakeOf

\* The placement of bets implements that budget: a stake enters total_stake only
\* after a check that it fits, once, and whole, and nothing but a reset takes
\* from the total, whatever replies are refused or lost.
BudgetKept == Budget!Spec

\* CHANGELOG 0.3.0: the server "refuses any bet that would push
\* stats.total_stake over the cap" (a hard ceiling).
CapIsHardCeiling == CapEnabled /\ Cap > 0 => totalStake <= Cap
=============================================================================
