----------------------------- MODULE Evaluator -----------------------------
(***************************************************************************)
(* evaluator.evaluate: the pure function from a market book and a strategy *)
(* to the lay bets it wants.  It holds no state.                           *)
(*                                                                         *)
(* Prices and price differences are in hundredths (1.01 is 101).  Stakes   *)
(* are counted in halves of a point, so that a split is exact; the rounding*)
(* of stake and liability to the penny is not modelled.  The reasons of a  *)
(* NoBet are the disjuncts of NoBet, in the order of the code's returns.   *)
(***************************************************************************)
EXTENDS Integers, Sequences

CONSTANTS
  None,           \* an absent value; as a gap, infinity
  Countries,      \* filters_country: {} filters nothing
  MarketTypes     \* filters_market_type

----------------------------------------------------------------------------
(* The runners                                                             *)

\* _active_runners: a runner with a price above 1.0 that has not been removed.
Tradable(r) == r.ltp # None /\ r.ltp > 100 /\ r.status \in {None, "ACTIVE"}

ActiveRunners(book) == {i \in DOMAIN book.runners : Tradable(book.runners[i])}

Price(book, i) == book.runners[i].ltp

\* runners.sort is stable: equal prices stay in the order of the book.
Before(book, i, j) ==
  \/ Price(book, i) < Price(book, j)
  \/ Price(book, i) = Price(book, j) /\ i <= j

ShortestOf(book, S) == CHOOSE i \in S : \A j \in S : Before(book, i, j)

Favourite(book) == ShortestOf(book, ActiveRunners(book))

Chasers(book) == ActiveRunners(book) \ {Favourite(book)}

\* The second favourite, or None.
Second(book) == IF Chasers(book) = {} THEN None ELSE ShortestOf(book, Chasers(book))

Gap(book) ==
  IF Chasers(book) = {} THEN None ELSE Price(book, Second(book)) - Price(book, Favourite(book))

----------------------------------------------------------------------------
(* The rules                                                               *)

Contains(band, price) == band.lo <= price /\ price < band.hi

RuleMatches(rule, price, gap) ==
  /\ Contains(rule.band, price)
  /\ rule.gapLt # None => gap # None /\ gap < rule.gapLt
  /\ rule.gapGte # None => gap = None \/ gap >= rule.gapGte

Matching(rules, price, gap) == {i \in DOMAIN rules : RuleMatches(rules[i], price, gap)}

\* _select_rule: the first rule that matches.
SelectRule(rules, price, gap) ==
  LET matching == Matching(rules, price, gap)
  IN  rules[CHOOSE i \in matching : \A j \in matching : i <= j]

\* _resolve_stake; None stands for the ValueError of a rule without a stake.
ResolveStake(rule) == IF rule.base # None THEN rule.base ELSE rule.stake

Uplift(controls) == IF controls.uplift \in {None, 0} THEN 1 ELSE controls.uplift

----------------------------------------------------------------------------
(* The decision                                                            *)

Filtered(value, filter) == filter # {} /\ value # None /\ value \notin filter

\* What keeps the strategy from betting on this book.
NoBet(book, strategy) ==
  LET price    == Price(book, Favourite(book))
      controls == strategy.controls
  IN  \/ ~book.defined                                     \* missing_price
      \/ book.inPlay                                       \* in_play
      \/ Filtered(book.country, Countries)                 \* filtered_country
      \/ Filtered(book.marketType, MarketTypes)            \* filtered_market_type
      \/ ActiveRunners(book) = {}                          \* no_active_runners
      \/ price < controls.floor                            \* blocked_by_floor
      \/ price > controls.ceiling                          \* blocked_by_ceiling
      \/ Matching(strategy.rules, price, Gap(book)) = {}   \* no_matching_rule
      \/ /\ controls.spreadControl                         \* spread_control_blocked
         /\ Gap(book) # None
         /\ Gap(book) < controls.jofsSpread
         /\ ~controls.jofs

RuleFor(book, strategy) ==
  SelectRule(strategy.rules, Price(book, Favourite(book)), Gap(book))

\* Joint favourites share the stake, whatever also_lay_2nd says.
Split(book, controls) ==
  controls.jofs /\ Gap(book) # None /\ Gap(book) <= controls.jofsSpread

\* _make_lay_decision.
Lay(book, i, halves) ==
  [selection |-> i, price |-> Price(book, i), stake |-> halves,
   liability |-> halves * (Price(book, i) - 100)]

\* Definitions named X_... are mutants of X: a bug the code could have had, which
\* some property must notice.
Legs_SplitInFull(book, rule, controls, points) ==
  LET full == 2 * points
  IN  IF Split(book, controls) \/ (rule.also2nd /\ Gap(book) # None)
      THEN <<Lay(book, Favourite(book), full), Lay(book, Second(book), full)>>
      ELSE <<Lay(book, Favourite(book), full)>>

\* One bet on the favourite; with also_lay_2nd another one like it on the second;
\* between joint favourites, half on each.
Legs(book, rule, controls, points) ==
  LET half == points
      full == 2 * points
  IN  IF Split(book, controls)
      THEN <<Lay(book, Favourite(book), half), Lay(book, Second(book), half)>>
      ELSE IF rule.also2nd /\ Gap(book) # None
           THEN <<Lay(book, Favourite(book), full), Lay(book, Second(book), full)>>
           ELSE <<Lay(book, Favourite(book), full)>>

\* The evaluation raises when the rule that matches has no stake.
Raises(book, strategy) ==
  /\ ~NoBet(book, strategy)
  /\ ResolveStake(RuleFor(book, strategy)) = None

\* evaluate: the bets, none when something keeps the strategy from betting.
Evaluate(book, strategy, pointValue) ==
  IF NoBet(book, strategy) THEN <<>>
  ELSE LET rule   == RuleFor(book, strategy)
           points == ResolveStake(rule) * Uplift(strategy.controls) * pointValue
       IN  Legs(book, rule, strategy.controls, points)
=============================================================================
