------------------------ MODULE PluginContentProofs ------------------------
(***************************************************************************)
(* Proofs about PluginContent and the evaluator, for any books, payloads,  *)
(* patches and names.                                                      *)
(***************************************************************************)
EXTENDS PluginContent, WellFoundedInduction, FiniteSetTheorems, TLAPS

\* Of some natural numbers one is the least.
LEMMA Least ==
  ASSUME NEW T \in SUBSET Nat, T # {}
  PROVE  \E n \in T : \A m \in T : n <= m
<1> DEFINE Less == {pair \in Nat \X Nat : pair[1] < pair[2]}
<1>1. IsWellFoundedOn(Less, Nat)
  BY NatLessThanWellFounded DEF OpToRel
<1> HIDE DEF Less
<1>2. PICK n \in T : \A m \in T : <<m, n>> \notin Less
  BY <1>1, WFMin
<1>3. ASSUME NEW m \in T PROVE n <= m
  <2>1. <<m, n>> \in Nat \X Nat /\ <<m, n>> \notin Less
    BY <1>2
  <2>2. <<m, n>>[1] = m /\ <<m, n>>[2] = n /\ m \in Nat /\ n \in Nat
    OBVIOUS
  <2>3. ~(<<m, n>>[1] < <<m, n>>[2])
    BY <2>1 DEF Less
  <2> QED
    BY <2>2, <2>3
<1> QED
  BY <1>3

----------------------------------------------------------------------------
(* The evaluator                                                           *)

\* An active runner is in the book and has a price above 1.0.
LEMMA ActiveHasPrice ==
  ASSUME NEW book, BookOK(book), NEW i \in ActiveRunners(book)
  PROVE  i \in DOMAIN book.runners /\ i \in Nat /\ Price(book, i) \in Nat /\ Price(book, i) > 100
BY DEF BookOK, ActiveRunners, Tradable, Price

\* Among any active runners one comes first: the shortest price, and of equal ones
\* the first of the book.
LEMMA ShortestExists ==
  ASSUME NEW book, BookOK(book), NEW S \in SUBSET ActiveRunners(book), S # {}
  PROVE  ShortestOf(book, S) \in S /\ \A j \in S : Before(book, ShortestOf(book, S), j)
<1> DEFINE prices == {Price(book, i) : i \in S}
<1>1. \A i \in S : i \in Nat /\ Price(book, i) \in Nat
  BY ActiveHasPrice
<1>2. prices \in SUBSET Nat /\ prices # {}
  BY <1>1
<1> HIDE DEF prices
<1>3. PICK p \in prices : \A q \in prices : p <= q
  BY <1>2, Least
<1> DEFINE best == {i \in S : Price(book, i) = p}
<1>4. best \in SUBSET Nat /\ best # {}
  BY <1>1, <1>3 DEF prices
<1> HIDE DEF best
<1>5. PICK i \in best : \A j \in best : i <= j
  BY <1>4, Least
<1>6. i \in S /\ \A j \in S : Before(book, i, j)
  <2> SUFFICES ASSUME NEW j \in S PROVE i \in S /\ Before(book, i, j)
    BY <1>5 DEF best
  <2>1. Price(book, i) = p /\ p <= Price(book, j) /\ i \in S
    BY <1>3, <1>5 DEF best, prices
  <2>2. CASE Price(book, j) = p
    BY <1>5, <2>1, <2>2 DEF best, Before
  <2>3. CASE Price(book, j) # p
    BY <1>1, <1>2, <2>1, <2>3 DEF Before
  <2> QED
    BY <2>2, <2>3
<1> QED
  BY <1>6 DEF ShortestOf

\* The favourite is the active runner that stands before every other one, and the
\* second is the one that stands before all the rest.
THEOREM FavouriteIsShortest ==
  ASSUME NEW book, BookOK(book), ActiveRunners(book) # {}
  PROVE  /\ Favourite(book) \in ActiveRunners(book)
         /\ \A j \in ActiveRunners(book) : Before(book, Favourite(book), j)
         /\ Gap(book) # None =>
              /\ Second(book) \in ActiveRunners(book) \ {Favourite(book)}
              /\ \A j \in ActiveRunners(book) \ {Favourite(book)} : Before(book, Second(book), j)
<1>1. /\ Favourite(book) \in ActiveRunners(book)
      /\ \A j \in ActiveRunners(book) : Before(book, Favourite(book), j)
  BY ShortestExists DEF Favourite
<1>2. Gap(book) # None => Chasers(book) # {} /\ Second(book) = ShortestOf(book, Chasers(book))
  BY DEF Gap, Second
<1>3. Chasers(book) \in SUBSET ActiveRunners(book)
  BY DEF Chasers
<1> QED
  BY <1>1, <1>2, <1>3, ShortestExists DEF Chasers

\* Every bet is on an active runner, at its price; there are two at most, on
\* different runners and of the same stake.
THEOREM BetsOnActiveRunners ==
  ASSUME NEW book, BookOK(book), NEW strategy, NEW pointValue,
         NEW k \in DOMAIN Evaluate(book, strategy, pointValue)
  PROVE  LET legs == Evaluate(book, strategy, pointValue)
         IN  /\ legs[k].selection \in ActiveRunners(book)
             /\ legs[k].price = Price(book, legs[k].selection)
             /\ \A m \in DOMAIN legs :
                  /\ m \in {1, 2} /\ legs[m].stake = legs[k].stake
                  /\ m # k => legs[m].selection # legs[k].selection
<1> DEFINE rule == RuleFor(book, strategy)
           points == ResolveStake(rule) * Uplift(strategy.controls) * pointValue
           legs == Legs(book, rule, strategy.controls, points)
<1>1. ~NoBet(book, strategy) /\ Evaluate(book, strategy, pointValue) = legs
  BY DEF Evaluate
<1>2. ActiveRunners(book) # {}
  BY <1>1 DEF NoBet
<1>3. /\ Favourite(book) \in ActiveRunners(book)
      /\ Gap(book) # None => Second(book) \in ActiveRunners(book) \ {Favourite(book)}
  BY <1>2, FavouriteIsShortest
<1>4. \/ \E h : legs = <<Lay(book, Favourite(book), h)>>
      \/ Gap(book) # None
         /\ \E h : legs = <<Lay(book, Favourite(book), h), Lay(book, Second(book), h)>>
  BY DEF Legs, Split
<1> HIDE DEF legs
<1> QED
  BY <1>1, <1>3, <1>4 DEF Lay

\* The rule that decides is the first of the strategy's list that matches.
THEOREM FirstMatchDecides ==
  ASSUME NEW rules, DOMAIN rules \subseteq Nat, NEW price, NEW gap,
         Matching(rules, price, gap) # {}
  PROVE  \E i \in DOMAIN rules :
           /\ SelectRule(rules, price, gap) = rules[i]
           /\ RuleMatches(rules[i], price, gap)
           /\ \A j \in DOMAIN rules : j < i => ~RuleMatches(rules[j], price, gap)
<1> DEFINE matching == Matching(rules, price, gap)
           first == CHOOSE i \in matching : \A j \in matching : i <= j
<1>1. matching \in SUBSET Nat /\ matching # {}
  BY DEF Matching
<1>2. PICK i \in matching : \A j \in matching : i <= j
  <2> HIDE DEF matching
  <2> QED
    BY <1>1, Least
<1>3. first \in matching /\ \A j \in matching : first <= j
  BY <1>2
<1>4. SelectRule(rules, price, gap) = rules[first]
  BY DEF SelectRule
<1>5. first \in DOMAIN rules /\ RuleMatches(rules[first], price, gap)
  BY <1>3 DEF Matching
<1>6. ASSUME NEW j \in DOMAIN rules, j < first PROVE ~RuleMatches(rules[j], price, gap)
  <2>1. j \notin matching
    BY <1>1, <1>3, <1>5, <1>6
  <2> QED
    BY <2>1 DEF Matching
<1> HIDE DEF first, matching
<1> QED
  BY <1>4, <1>5, <1>6

----------------------------------------------------------------------------
(* Dropping what is not a rule                                             *)

\* How many of the positions come no later than i.
Rank(at, i) == Cardinality({j \in at : j <= i})

\* Positions of a list are finitely many.
LEMMA PositionsFinite ==
  ASSUME NEW n \in Nat, NEW at \in SUBSET (1..n)
  PROVE  IsFiniteSet(at) /\ Cardinality(at) \in Nat
<1>1. IsFiniteSet(1..n)
  BY FS_Interval
<1>2. IsFiniteSet(at)
  BY <1>1, FS_Subset
<1> QED
  BY <1>2, FS_CardinalityType

\* The rank grows by one at each of the positions.
LEMMA RankStep ==
  ASSUME NEW n \in Nat, NEW at \in SUBSET (1..n), NEW i \in Nat
  PROVE  /\ Rank(at, i) \in Nat
         /\ Rank(at, i + 1) = IF i + 1 \in at THEN Rank(at, i) + 1 ELSE Rank(at, i)
<1> DEFINE upTo(k) == {j \in at : j <= k}
<1>1. \A j \in at : j \in Nat
  OBVIOUS
<1>2. IsFiniteSet(upTo(i))
  <2>1. upTo(i) \in SUBSET (1..n)
    OBVIOUS
  <2> HIDE DEF upTo
  <2> QED
    BY <2>1, PositionsFinite
<1>3. upTo(i + 1) = IF i + 1 \in at THEN upTo(i) \union {i + 1} ELSE upTo(i)
  <2>1. ASSUME NEW j PROVE j \in upTo(i + 1) <=> j \in upTo(i) \/ (j = i + 1 /\ i + 1 \in at)
    <3>1. j \in at => (j <= i + 1 <=> j <= i \/ j = i + 1)
      BY <1>1
    <3> QED
      BY <3>1
  <2> HIDE DEF upTo
  <2> QED
    BY <2>1
<1>4. i + 1 \notin upTo(i)
  OBVIOUS
<1> HIDE DEF upTo
<1>5. /\ Cardinality(upTo(i)) \in Nat
      /\ Cardinality(upTo(i) \union {i + 1}) = Cardinality(upTo(i)) + 1
  BY <1>2, <1>4, FS_CardinalityType, FS_AddElement
<1>6. Rank(at, i) = Cardinality(upTo(i)) /\ Rank(at, i + 1) = Cardinality(upTo(i + 1))
  BY DEF Rank, upTo
<1> QED
  BY <1>3, <1>5, <1>6

\* Every k up to their number is the rank of one of the positions.
LEMMA NthExists ==
  ASSUME NEW n \in Nat, NEW at \in SUBSET (1..n), NEW k \in 1..Cardinality(at)
  PROVE  Nth(at, k) \in at /\ Rank(at, Nth(at, k)) = k
<1> DEFINE late == {i \in 0..n : Rank(at, i) >= k}
<1>1. {j \in at : j <= n} = at /\ {j \in at : j <= 0} = {}
  <2>1. \A j \in at : j <= n /\ ~(j <= 0)
    OBVIOUS
  <2> QED
    BY <2>1
<1>2. Rank(at, n) = Cardinality(at) /\ Rank(at, 0) = 0
  BY <1>1, FS_EmptySet DEF Rank
<1>3. Cardinality(at) \in Nat
  BY PositionsFinite
<1>4. n \in late /\ 0 \notin late /\ late \subseteq Nat
  BY <1>2, <1>3
<1>5. PICK i \in late : \A j \in late : i <= j
  <2> HIDE DEF late
  <2> QED
    BY <1>4, Least
<1>6. i \in 1..n /\ i - 1 \in 0..n /\ i - 1 \notin late
  BY <1>4, <1>5
<1>7. /\ Rank(at, i - 1) \in Nat /\ Rank(at, i) \in Nat
      /\ Rank(at, i) = IF i \in at THEN Rank(at, i - 1) + 1 ELSE Rank(at, i - 1)
  <2>1. PICK h \in Nat : h = i - 1 /\ i = h + 1
    BY <1>6
  <2>2. /\ Rank(at, h) \in Nat
        /\ Rank(at, h + 1) = IF h + 1 \in at THEN Rank(at, h) + 1 ELSE Rank(at, h)
    BY RankStep
  <2> HIDE DEF late
  <2> QED
    BY <2>1, <2>2
<1>8. Rank(at, i) >= k /\ ~(Rank(at, i - 1) >= k)
  BY <1>5, <1>6
<1>9. i \in at /\ Rank(at, i) = k
  BY <1>3, <1>7, <1>8
<1> QED
  BY <1>9 DEF Nth, Rank

\* Only rules are left, and only those that were there.
LEMMA DictsOfList ==
  ASSUME NEW S, NEW rules \in Seq(S \union {Junk}), Junk \notin S
  PROVE  /\ Dicts(rules) \in Seq(S)
         /\ \A k \in DOMAIN Dicts(rules) :
              \E i \in DOMAIN rules : Dicts(rules)[k] = rules[i]
<1> DEFINE at == {i \in DOMAIN rules : rules[i] # Junk}
           m == Cardinality(at)
<1>1. Len(rules) \in Nat /\ at \in SUBSET (1..Len(rules))
  OBVIOUS
<1>2. m \in Nat
  <2> HIDE DEF at
  <2> QED
    BY <1>1, PositionsFinite
<1>3. Dicts(rules) = [k \in 1..m |-> rules[Nth(at, k)]]
  BY DEF Dicts
<1>4. \A k \in 1..m : Nth(at, k) \in at
  <2> HIDE DEF at
  <2> QED
    BY <1>1, NthExists
<1>5. \A k \in 1..m : Nth(at, k) \in DOMAIN rules /\ rules[Nth(at, k)] \in S
  BY <1>4
<1> HIDE DEF m, at
<1> QED
  BY <1>2, <1>3, <1>5

\* A list of rules loses nothing and stays in order.
LEMMA DictsOfRules ==
  ASSUME NEW S, NEW rules \in Seq(S), Junk \notin S
  PROVE  Dicts(rules) = rules
<1> DEFINE at == {i \in DOMAIN rules : rules[i] # Junk}
           n == Len(rules)
<1>1. n \in Nat /\ at = 1..n /\ rules = [k \in 1..n |-> rules[k]]
  OBVIOUS
<1>2. Cardinality(1..n) = n
  BY <1>1, FS_Interval
<1>3. ASSUME NEW k \in 1..n PROVE Nth(1..n, k) = k
  <2>1. \A i \in 1..n : Rank(1..n, i) = i
    <3> SUFFICES ASSUME NEW i \in 1..n PROVE Rank(1..n, i) = i
      OBVIOUS
    <3>1. {j \in 1..n : j <= i} = 1..i
      BY <1>1
    <3>2. Cardinality(1..i) = i
      BY FS_Interval
    <3> QED
      BY <3>1, <3>2 DEF Rank
  <2>2. Nth(1..n, k) \in 1..n /\ Rank(1..n, Nth(1..n, k)) = k
    BY <1>1, <1>2, NthExists
  <2> QED
    BY <2>1, <2>2
<1> QED
  BY <1>1, <1>2, <1>3 DEF Dicts

----------------------------------------------------------------------------
(* The repair of a rule                                                    *)

\* None and Junk are told from every value.
LEMMA Distinct ==
  /\ None # Junk
  /\ None \notin Int /\ Junk \notin Int
  /\ Junk \notin BandType /\ None \notin BandType
  /\ Junk \notin RuleType
  /\ None \notin ControlsType /\ Junk \notin ControlsType /\ None \notin StrategyType
  /\ None \notin Seq(RuleType \union {Junk}) /\ Junk \notin Seq(RuleType \union {Junk})
BY ValuesAssumption

\* A band that can be repaired is a pair afterwards, in which the same prices fit:
\* all of them are above 1.0.  An inverted one is the exception.
LEMMA CoercedBand ==
  ASSUME NEW band \in BandType \union {None, Junk}, CoerceBand(band) # Junk
  PROVE  /\ band \in BandType
         /\ CoerceBand(band) \in BandType /\ CoerceBand(band).shape = "pair"
         /\ band.lo <= band.hi \/ band.lo <= 101 =>
              \A price \in Nat : price > 100 =>
                (Contains(CoerceBand(band), price) <=> Contains(band, price))
<1>1. band \in BandType
  BY DEF CoerceBand
<1> DEFINE lo == IF band.lo <= band.hi THEN band.lo ELSE band.hi
           hi == IF band.lo <= band.hi THEN band.hi ELSE band.lo
<1>2. CoerceBand(band) = [shape |-> "pair", lo |-> IF lo < 101 THEN 101 ELSE lo, hi |-> hi]
  BY DEF CoerceBand
<1>3. band.lo \in Int /\ band.hi \in Int
  BY <1>1 DEF BandType
<1>4. CoerceBand(band) \in BandType /\ CoerceBand(band).shape = "pair"
  BY <1>2, <1>3 DEF BandType
<1>5. ASSUME band.lo <= band.hi \/ band.lo <= 101, NEW price \in Nat, price > 100
      PROVE  Contains(CoerceBand(band), price) <=> Contains(band, price)
  BY <1>2, <1>3, <1>5 DEF Contains
<1> QED
  BY <1>1, <1>4, <1>5

\* A pair can always be repaired.
LEMMA PairCoerced ==
  ASSUME NEW band \in BandType, band.shape = "pair"
  PROVE  CoerceBand(band) # Junk
<1> DEFINE lo == IF band.lo <= band.hi THEN band.lo ELSE band.hi
           hi == IF band.lo <= band.hi THEN band.hi ELSE band.lo
<1>1. band.lo \in Int /\ band.hi \in Int /\ band # Junk /\ band # None
  BY Distinct DEF BandType
<1>2. CoerceBand(band) = [shape |-> "pair", lo |-> IF lo < 101 THEN 101 ELSE lo, hi |-> hi]
  BY <1>1 DEF CoerceBand
<1>3. CoerceBand(band) \in BandType
  BY <1>1, <1>2 DEF BandType
<1> QED
  BY <1>3, Distinct

\* A repair touches the band, and the stake of a rule that has none.
LEMMA RepairedRule ==
  ASSUME NEW rule \in RuleType
  PROVE  /\ RepairRule(rule) \in RuleType
         /\ RepairRule(rule).gapLt = rule.gapLt /\ RepairRule(rule).gapGte = rule.gapGte
         /\ RepairRule(rule).also2nd = rule.also2nd /\ RepairRule(rule).stake = rule.stake
         /\ RepairRule(rule).base = rule.base
              \/ (RepairRule(rule).base = 0 /\ ResolveStake(rule) = None)
         /\ CoerceBand(rule.band) # Junk =>
              /\ RepairRule(rule).band = CoerceBand(rule.band)
              /\ RepairRule(rule).base # None \/ RepairRule(rule).stake # None
         /\ CoerceBand(rule.band) = Junk => RepairRule(rule) = rule
<1> DEFINE band == CoerceBand(rule.band)
<1>1. CASE band = Junk
  BY <1>1 DEF RepairRule
<1>2. CASE band # Junk
  <2>1. rule.band \in BandType \union {None, Junk}
    BY DEF RuleType
  <2>2. band \in BandType
    BY <1>2, <2>1, CoercedBand
  <2>3. RepairRule(rule) = [rule EXCEPT !.band = band,
                              !.base = IF rule.base = None /\ rule.stake = None THEN 0
                                       ELSE rule.base]
    BY <1>2 DEF RepairRule, RuleType
  <2> HIDE DEF band
  <2>4. rule.base \in NumberType /\ 0 \in NumberType /\ 0 # None
    BY Distinct DEF RuleType, NumberType
  <2>5. /\ RepairRule(rule) \in RuleType
        /\ RepairRule(rule).band = band
        /\ RepairRule(rule).base = IF rule.base = None /\ rule.stake = None THEN 0 ELSE rule.base
        /\ RepairRule(rule).gapLt = rule.gapLt /\ RepairRule(rule).gapGte = rule.gapGte
        /\ RepairRule(rule).also2nd = rule.also2nd /\ RepairRule(rule).stake = rule.stake
    BY <2>2, <2>3, <2>4 DEF RuleType
  <2> QED
    BY <1>2, <2>4, <2>5 DEF ResolveStake, band
<1> QED
  BY <1>1, <1>2

\* A rule that validates still does once repaired; one that validates once repaired
\* had a band that can be repaired.
LEMMA RepairValidates ==
  ASSUME NEW rule \in RuleType
  PROVE  /\ ValidRule(rule) => ValidRule(RepairRule(rule))
         /\ ValidRule(RepairRule(rule)) => CoerceBand(rule.band) # Junk
<1>1. ASSUME ValidRule(rule) PROVE ValidRule(RepairRule(rule))
  <2>1. rule.band \in BandType /\ rule.band.shape = "pair"
    BY <1>1 DEF ValidRule, RuleType
  <2>2. CoerceBand(rule.band) # Junk
    BY <2>1, PairCoerced
  <2>3. CoerceBand(rule.band) \in BandType /\ CoerceBand(rule.band).shape = "pair"
    BY <2>1, <2>2, CoercedBand
  <2> QED
    BY <1>1, <2>2, <2>3, RepairedRule, Distinct DEF ValidRule, NotNegative
<1>2. ASSUME ValidRule(RepairRule(rule)), CoerceBand(rule.band) = Junk PROVE FALSE
  <2>1. ValidRule(rule)
    BY <1>2, RepairedRule
  <2>2. rule.band \in BandType /\ rule.band.shape = "pair"
    BY <2>1 DEF ValidRule, RuleType
  <2> QED
    BY <1>2, <2>2, PairCoerced
<1> QED
  BY <1>1, <1>2

\* The repaired rule matches the same books.
LEMMA RepairMatches ==
  ASSUME NEW rule \in RuleType, CoerceBand(rule.band) # Junk,
         rule.band.lo <= rule.band.hi \/ rule.band.lo <= 101,
         NEW price \in Nat, price > 100, NEW gap
  PROVE  RuleMatches(RepairRule(rule), price, gap) <=> RuleMatches(rule, price, gap)
<1>1. rule.band \in BandType \union {None, Junk}
  BY DEF RuleType
<1>2. Contains(RepairRule(rule).band, price) <=> Contains(rule.band, price)
  BY <1>1, CoercedBand, RepairedRule
<1> QED
  BY <1>2, RepairedRule DEF RuleMatches

\* A list of rules, each of them repaired.
Repaired(rules) == [i \in DOMAIN rules |-> RepairRule(rules[i])]

\* A strategy bets the same with its rules repaired, on every book it can be
\* evaluated on.
LEMMA RepairedBets ==
  ASSUME NEW book, BookOK(book), NEW s, NEW t, NEW points,
         s.rules \in Seq(RuleType), t.rules = Repaired(s.rules), t.controls = s.controls,
         \A i \in DOMAIN s.rules :
           /\ CoerceBand(s.rules[i].band) # Junk
           /\ s.rules[i].band.lo <= s.rules[i].band.hi \/ s.rules[i].band.lo <= 101,
         ~Raises(book, s)
  PROVE  ~Raises(book, t) /\ Evaluate(book, t, points) = Evaluate(book, s, points)
<1> DEFINE price == Price(book, Favourite(book))
           gap == Gap(book)
<1>1. ASSUME ActiveRunners(book) # {} PROVE price \in Nat /\ price > 100
  <2>1. Favourite(book) \in ActiveRunners(book)
    BY <1>1, FavouriteIsShortest
  <2> QED
    BY <2>1, ActiveHasPrice
<1>2. DOMAIN t.rules = DOMAIN s.rules
  BY DEF Repaired
<1>3. ASSUME ActiveRunners(book) # {}
      PROVE  Matching(t.rules, price, gap) = Matching(s.rules, price, gap)
  <2>1. ASSUME NEW i \in DOMAIN s.rules
        PROVE  RuleMatches(t.rules[i], price, gap) <=> RuleMatches(s.rules[i], price, gap)
    <3>1. s.rules[i] \in RuleType /\ t.rules[i] = RepairRule(s.rules[i])
      BY DEF Repaired
    <3> HIDE DEF price, gap
    <3> QED
      BY <1>1, <1>3, <3>1, RepairMatches
  <2> HIDE DEF price, gap
  <2> QED
    BY <1>2, <2>1 DEF Matching
<1>4. NoBet(book, t) <=> NoBet(book, s)
  <2>1. CASE ActiveRunners(book) = {}
    BY <2>1 DEF NoBet
  <2>2. CASE ActiveRunners(book) # {}
    BY <1>3, <2>2 DEF NoBet
  <2> QED
    BY <2>1, <2>2
<1>5. CASE NoBet(book, s)
  BY <1>4, <1>5 DEF Raises, Evaluate
<1>6. CASE ~NoBet(book, s)
  <2>1. ActiveRunners(book) # {} /\ Matching(s.rules, price, gap) # {}
    BY <1>6 DEF NoBet
  <2> DEFINE first == CHOOSE i \in Matching(s.rules, price, gap) :
                        \A j \in Matching(s.rules, price, gap) : i <= j
  <2>2. RuleFor(book, s) = s.rules[first] /\ RuleFor(book, t) = t.rules[first]
    BY <1>3, <2>1 DEF RuleFor, SelectRule
  <2>3. first \in DOMAIN s.rules
    <3>1. Matching(s.rules, price, gap) \in SUBSET Nat
      BY DEF Matching
    <3>2. \E i \in Matching(s.rules, price, gap) :
            \A j \in Matching(s.rules, price, gap) : i <= j
      BY <2>1, <3>1, Least
    <3>3. first \in Matching(s.rules, price, gap)
      BY <3>2
    <3> QED
      BY <3>3 DEF Matching
  <2> HIDE DEF first, price, gap
  <2>4. s.rules[first] \in RuleType /\ t.rules[first] = RepairRule(s.rules[first])
    BY <2>3 DEF Repaired
  <2>5. ResolveStake(s.rules[first]) # None
    BY <1>6, <2>2 DEF Raises
  <2>6. /\ ResolveStake(t.rules[first]) = ResolveStake(s.rules[first])
        /\ t.rules[first].also2nd = s.rules[first].also2nd
    BY <2>4, <2>5, RepairedRule DEF ResolveStake
  <2>7. ~Raises(book, t)
    BY <2>2, <2>5, <2>6 DEF Raises
  <2>8. \A p : Legs(book, t.rules[first], t.controls, p) = Legs(book, s.rules[first], s.controls, p)
    BY <2>6 DEF Legs
  <2>9. Evaluate(book, t, points) = Evaluate(book, s, points)
    BY <1>4, <1>6, <2>2, <2>6, <2>8 DEF Evaluate
  <2> QED
    BY <2>7, <2>9
<1> QED
  BY <1>5, <1>6

----------------------------------------------------------------------------
(* The repair of a payload                                                 *)

\* The rules a payload is left with, if it has any, are those it came with, top level
\* or not, without what is no rule and repaired, or the one that stakes nothing.
LEMMA EnsuredRules ==
  ASSUME NEW p, PayloadOK(p), IsList(EnsureRules(p)), EnsureRules(p) # <<>>
  PROVE  /\ EnsureRules(p) \in Seq(RuleType)
         /\ \/ EnsureRules(p) = <<NoopRule>>
            \/ /\ HoistedRules(p) \in Seq(RuleType \union {Junk})
               /\ EnsureRules(p) = Repaired(Dicts(HoistedRules(p)))
<1> DEFINE rules == HoistedRules(p)
<1>1. rules \in RulesType
  BY Distinct DEF HoistedRules, PayloadOK, RulesType
<1>2. CASE ~IsList(rules) \/ rules = <<>>
  <2>1. EnsureRules(p) = <<NoopRule>>
    BY <1>2 DEF EnsureRules
  <2>2. NoopRule \in RuleType
    BY Distinct DEF NoopRule, RuleType, NumberType, BandType
  <2> QED
    BY <2>1, <2>2
<1>3. CASE IsList(rules) /\ rules # <<>>
  <2>1. EnsureRules(p) = Repaired(Dicts(rules))
    BY <1>3 DEF EnsureRules, Repaired
  <2>2. rules \in Seq(RuleType \union {Junk})
    BY <1>1, <1>3 DEF IsList, RulesType
  <2> HIDE DEF rules
  <2>3. Dicts(rules) \in Seq(RuleType)
    BY <2>2, DictsOfList, Distinct
  <2>4. \A i \in DOMAIN Dicts(rules) : RepairRule(Dicts(rules)[i]) \in RuleType
    BY <2>3, RepairedRule
  <2>5. Repaired(Dicts(rules)) \in Seq(RuleType)
    <3> DEFINE dicts == Dicts(rules)
    <3>1. Len(dicts) \in Nat /\ DOMAIN dicts = 1..Len(dicts)
      BY <2>3
    <3>2. \A i \in DOMAIN dicts : RepairRule(dicts[i]) \in RuleType
      BY <2>4
    <3> HIDE DEF dicts
    <3>3. [i \in DOMAIN dicts |-> RepairRule(dicts[i])] \in Seq(RuleType)
      BY <3>1, <3>2
    <3> QED
      BY <3>3 DEF Repaired, dicts
  <2> QED
    BY <2>1, <2>2, <2>5 DEF rules
<1> QED
  BY <1>2, <1>3

\* The controls are those sent, or the defaults.
LEMMA EnsuredControls ==
  ASSUME NEW p, PayloadOK(p)
  PROVE  EnsureControls(p) \in ControlsType
BY Distinct DEF EnsureControls, PayloadOK, DefaultControls, ControlsType, NumberType

\* A payload that is accepted has become a plugin.
LEMMA NormalisedType ==
  ASSUME NEW p, PayloadOK(p), NEW u \in Urls, Valid(Normalise(p, u)), Normalise(p, u).name = u
  PROVE  Normalise(p, u) \in PluginType /\ Normalise(p, u).strategy.rules # <<>>
<1> DEFINE plugin == Normalise(p, u)
<1>1. IsList(EnsureRules(p)) /\ EnsureRules(p) # <<>>
  BY DEF Valid, ValidStrategy, Normalise
<1>2. EnsureRules(p) \in Seq(RuleType) /\ EnsureControls(p) \in ControlsType
  BY <1>1, EnsuredRules, EnsuredControls
<1>3. EnsurePoints(p) \in Int /\ EnsureRole(p) \in {"rule", "control", "modifier"}
  BY DEF EnsurePoints, EnsureRole, PayloadOK
<1>4. EnsureName(p, u) \in Urls /\ p.sound \in BOOLEAN
  BY DEF Normalise, PayloadOK
<1> QED
  BY <1>1, <1>2, <1>3, <1>4 DEF Normalise, PluginType, StrategyType

\* A plugin sent back as it was served is repaired like its rules are.
LEMMA DumpNormalised ==
  ASSUME NEW plugin \in PluginType, plugin.strategy.rules # <<>>, NEW u, plugin.name = u
  PROVE  /\ PayloadOK(Dump(plugin))
         /\ Normalise(Dump(plugin), u).name = SafeName[u]
         /\ Normalise(Dump(plugin), u).sound = plugin.sound
         /\ Normalise(Dump(plugin), u).points = plugin.points
         /\ Normalise(Dump(plugin), u).strategy.controls = plugin.strategy.controls
         /\ Normalise(Dump(plugin), u).strategy.rules = Repaired(plugin.strategy.rules)
<1> DEFINE p == Dump(plugin)
           rules == plugin.strategy.rules
<1>1. /\ rules \in Seq(RuleType) /\ plugin.strategy.controls \in ControlsType
      /\ plugin.points \in Int /\ plugin.sound \in BOOLEAN
      /\ plugin.strategy \in StrategyType
  BY DEF PluginType, StrategyType
<1>2. rules \in Seq(RuleType \union {Junk}) /\ IsList(rules) /\ rules # None
  <2>1. rules \in Seq(RuleType \union {Junk})
    BY <1>1
  <2> QED
    BY <2>1, Distinct DEF IsList
<1>3. PayloadOK(p)
  BY <1>1, <1>2 DEF PayloadOK, Dump, RulesType
<1>4. EnsureName(p, u) = SafeName[u]
  BY DEF EnsureName, Dump, Canonical
<1>5. EnsurePoints(p) = plugin.points
  BY <1>1, Distinct DEF EnsurePoints, Dump
<1>6. p.strategy = plugin.strategy /\ p.topRules = None /\ p.sound = plugin.sound
  BY DEF Dump
<1>7. HoistedRules(p) = rules /\ EnsureControls(p) = plugin.strategy.controls
  <2>1. plugin.strategy # None
    BY <1>1, Distinct
  <2> QED
    BY <1>1, <1>2, <1>6, <2>1, Distinct DEF HoistedRules, EnsureControls
<1>8. EnsureRules(p) = Repaired(rules)
  <2>1. Dicts(rules) = rules
    BY <1>1, DictsOfRules, Distinct
  <2> QED
    BY <1>2, <1>7, <2>1 DEF EnsureRules, Repaired
<1> QED
  BY <1>3, <1>4, <1>5, <1>6, <1>7, <1>8 DEF Normalise

----------------------------------------------------------------------------
(* The plugin                                                              *)

\* Memory holds a valid plugin unless a tuning changed it.
ValidInv == stored # None /\ ~tuned => Valid(stored)

\* A strategy that validates can be evaluated on any book.
LEMMA ValidEvaluates ==
  ASSUME NEW plugin, Valid(plugin), NEW book
  PROVE  Answers(book, plugin)
<1> DEFINE s == plugin.strategy
<1> SUFFICES ASSUME ~NoBet(book, s) PROVE ResolveStake(RuleFor(book, s)) # None
  BY DEF Answers, Raises
<1>1. DOMAIN s.rules \subseteq Nat /\ \A i \in DOMAIN s.rules : ValidRule(s.rules[i])
  BY DEF Valid, ValidStrategy, IsList
<1>2. Matching(s.rules, Price(book, Favourite(book)), Gap(book)) # {}
  BY DEF NoBet
<1>3. \E i \in DOMAIN s.rules : RuleFor(book, s) = s.rules[i]
  BY <1>1, <1>2, FirstMatchDecides DEF RuleFor
<1> QED
  BY <1>1, <1>3 DEF ValidRule, ResolveStake

\* Memory starts with what the image ships.
LEMMA Start == Init => TypeOK /\ ValidInv
<1> SUFFICES ASSUME Init PROVE TypeOK /\ ValidInv
  OBVIOUS
<1>1. edits \in 0..MaxEdits
  BY MaxEditsAssumption DEF Init
<1>2. stored # None => Valid(stored)
  BY ShippedAssumption, Zenon DEF Init
<1> QED
  BY <1>1, <1>2 DEF Init, TypeOK, ValidInv

\* A save stores a valid plugin of the strategy's name, or changes nothing.
LEMMA AcceptStep ==
  ASSUME TypeOK, ValidInv, NEW p, Accept(p), UNCHANGED <<url, override>>,
         edits' \in 0..MaxEdits
  PROVE  TypeOK' /\ ValidInv'
<1> DEFINE plugin == Normalise(p, url)
<1>1. CASE answer' \in {"400", "422"} /\ UNCHANGED <<stored, saved, sent, tuned>>
  BY <1>1 DEF TypeOK, ValidInv
<1>2. CASE Valid(plugin) /\ plugin.name = url /\ stored' = plugin /\ saved' = plugin
           /\ tuned' = FALSE /\ answer' = "200"
  <2> HIDE DEF plugin
  <2> QED
    BY <1>2 DEF TypeOK, ValidInv
<1> QED
  BY <1>1, <1>2 DEF Accept

\* A tuning marks what is in memory as not validated.
LEMMA TuneStep ==
  ASSUME TypeOK, ValidInv, NEW patch, Tune(patch)
  PROVE  TypeOK' /\ ValidInv'
<1>1. edits' \in 0..MaxEdits
  BY MaxEditsAssumption DEF Tune, TypeOK
<1> QED
  BY <1>1 DEF Tune, TypeOK, ValidInv

\* A restart reads back only what validates.
LEMMA RestartStep ==
  ASSUME TypeOK, ValidInv, Restart
  PROVE  TypeOK' /\ ValidInv'
<1>1. Hydrate \in {saved, override, Shipped[url]} /\ (Hydrate # None => Valid(Hydrate))
  BY ShippedAssumption DEF Hydrate, TypeOK
<1> QED
  BY <1>1 DEF Restart, TypeOK, ValidInv

LEMMA Step ==
  ASSUME TypeOK, ValidInv, [Next]_vars
  PROVE  TypeOK' /\ ValidInv'
<1>1. ASSUME edits < MaxEdits, edits' = edits + 1 PROVE edits' \in 0..MaxEdits
  BY <1>1, MaxEditsAssumption DEF TypeOK
<1>2. ASSUME NEW p \in Payloads, Put(p) PROVE TypeOK' /\ ValidInv'
  BY <1>1, <1>2, AcceptStep DEF Put
<1>3. CASE Resend
  BY <1>1, <1>3, AcceptStep DEF Resend
<1>4. ASSUME NEW patch \in Patches, Tune(patch) PROVE TypeOK' /\ ValidInv'
  BY <1>4, TuneStep
<1>5. CASE Restart
  BY <1>5, RestartStep
<1>6. CASE UNCHANGED vars
  BY <1>6 DEF vars, TypeOK, ValidInv
<1> QED
  BY <1>2, <1>3, <1>4, <1>5, <1>6 DEF Next

\* What is saved is a valid plugin of the strategy's own name, and memory differs
\* from what is stored only by tunings: whatever payloads and values are sent.
THEOREM TypeOKHolds == Spec => []TypeOK
<1>1. TypeOK /\ ValidInv /\ [Next]_vars => (TypeOK /\ ValidInv)'
  BY Step
<1> QED
  BY Start, <1>1, PTL DEF Spec

\* No book at all makes the evaluation of a strategy raise that came from the
\* acceptor, the image or the bucket and was not tuned since.
THEOREM AcceptedEvaluatesHolds == Spec => []AcceptedEvaluates
<1>1. TypeOK /\ ValidInv /\ [Next]_vars => (TypeOK /\ ValidInv)'
  BY Step
<1>2. ValidInv => AcceptedEvaluates
  BY ValidEvaluates DEF ValidInv, AcceptedEvaluates
<1> QED
  BY Start, <1>1, <1>2, PTL DEF Spec

----------------------------------------------------------------------------
(* What is saved, and what it came from                                    *)

\* A plugin of the strategy's name with some rules.
Whole(plugin) ==
  /\ plugin \in PluginType
  /\ plugin.name = url
  /\ plugin.strategy.rules # <<>>

\* The last save is the payload sent, repaired.
OriginInv ==
  /\ TypeOK
  /\ ValidInv
  /\ stored # None => Whole(stored)
  /\ override # None => Whole(override)
  /\ saved # None => Whole(saved) /\ PayloadOK(sent) /\ saved = Normalise(sent, url)

LEMMA OriginStart == Init => OriginInv
<1> SUFFICES ASSUME Init PROVE OriginInv
  OBVIOUS
<1>1. TypeOK /\ ValidInv
  BY Start
<1>2. stored # None => Whole(stored)
  <2>1. stored = Shipped[url] /\ url \in Urls
    BY DEF Init
  <2>2. stored # None => stored \in PluginType /\ stored.name = url /\ Valid(stored)
    BY <2>1, ShippedAssumption
  <2> QED
    BY <2>2 DEF Whole, Valid, ValidStrategy
<1> QED
  BY <1>1, <1>2 DEF Init, OriginInv

\* A save takes what was sent, repaired, or changes nothing.
LEMMA OriginAccept ==
  ASSUME OriginInv, NEW p, PayloadOK(p), Accept(p), UNCHANGED <<url, override>>,
         TypeOK', ValidInv'
  PROVE  OriginInv'
<1> DEFINE plugin == Normalise(p, url)
<1>1. CASE UNCHANGED <<stored, saved, sent>>
  BY <1>1 DEF OriginInv, Whole
<1>2. CASE Valid(plugin) /\ plugin.name = url /\ stored' = plugin /\ saved' = plugin
           /\ sent' = p
  <2>1. plugin \in PluginType /\ plugin.strategy.rules # <<>>
    BY <1>2, NormalisedType DEF OriginInv, TypeOK
  <2>2. Whole(stored)' /\ Whole(saved)' /\ (saved = Normalise(sent, url))'
    <3> HIDE DEF plugin
    <3>1. stored'.name = url' /\ saved'.name = url'
      BY <1>2
    <3>2. saved' = Normalise(sent', url')
      BY <1>2 DEF plugin
    <3> QED
      BY <1>2, <2>1, <3>1, <3>2 DEF Whole
  <2>3. override # None => Whole(override)'
    BY DEF OriginInv, Whole
  <2> HIDE DEF plugin
  <2> QED
    BY <1>2, <2>2, <2>3 DEF OriginInv
<1> QED
  BY <1>1, <1>2 DEF Accept

\* A tuning sets one field.
LEMMA PatchedWhole ==
  ASSUME NEW plugin \in PluginType, plugin.strategy.rules # <<>>, NEW patch \in PatchType,
         patch.of = "rule" => patch.at \in DOMAIN plugin.strategy.rules
  PROVE  /\ Patched(plugin, patch) \in PluginType
         /\ Patched(plugin, patch).name = plugin.name
         /\ Patched(plugin, patch).strategy.rules # <<>>
<1> DEFINE rules == plugin.strategy.rules
           controls == plugin.strategy.controls
<1>1. /\ rules \in Seq(RuleType) /\ controls \in ControlsType
      /\ plugin.strategy \in StrategyType
  BY DEF PluginType, StrategyType
<1>2. CASE patch.of = "rule"
  <2> DEFINE at == patch.at
             rule == [rules[at] EXCEPT ![patch.field] = patch.value]
  <2>1. at \in DOMAIN rules /\ rules[at] \in RuleType
    BY <1>1, <1>2
  <2>2. rule \in RuleType
    BY <1>2, <2>1 DEF PatchType, RuleType
  <2>3. Patched(plugin, patch) =
          [plugin EXCEPT !.strategy = [plugin.strategy EXCEPT !.rules = [rules EXCEPT ![at] = rule]]]
    BY <1>2 DEF Patched
  <2> HIDE DEF rule
  <2>4. [rules EXCEPT ![at] = rule] \in Seq(RuleType) /\ [rules EXCEPT ![at] = rule] # <<>>
    BY <1>1, <2>1, <2>2
  <2> HIDE DEF rules, at
  <2> QED
    BY <1>1, <2>3, <2>4 DEF PluginType, StrategyType
<1>3. CASE patch.of = "controls"
  <2> DEFINE tuning == [controls EXCEPT ![patch.field] = patch.value]
  <2>1. tuning \in ControlsType
    BY <1>1, <1>3 DEF PatchType, ControlsType
  <2>2. Patched(plugin, patch) =
          [plugin EXCEPT !.strategy = [plugin.strategy EXCEPT !.controls = tuning]]
    BY <1>3 DEF Patched
  <2> HIDE DEF tuning
  <2> QED
    BY <1>1, <2>1, <2>2 DEF PluginType, StrategyType
<1>4. CASE patch.of = "staking"
  <2>1. patch.value \in Int
    BY <1>4 DEF PatchType
  <2>2. Patched(plugin, patch) = [plugin EXCEPT !.points = patch.value]
    BY <1>4 DEF Patched
  <2> QED
    BY <2>1, <2>2 DEF PluginType
<1> QED
  BY <1>2, <1>3, <1>4 DEF PatchType

LEMMA OriginStep ==
  ASSUME OriginInv, [Next]_vars
  PROVE  OriginInv'
<1>0. TypeOK' /\ ValidInv'
  BY Step DEF OriginInv
<1>1. ASSUME NEW p \in Payloads, Put(p) PROVE OriginInv'
  BY <1>0, <1>1, OriginAccept, InputsAssumption DEF Put
<1>2. CASE Resend
  <2>1. PayloadOK(Dump(stored))
    BY <1>2, DumpNormalised DEF Resend, OriginInv, Whole
  <2> QED
    BY <1>0, <1>2, <2>1, OriginAccept DEF Resend
<1>3. ASSUME NEW patch \in Patches, Tune(patch) PROVE OriginInv'
  <2>1. patch \in PatchType /\ Whole(stored)
    BY <1>3, InputsAssumption DEF Tune, OriginInv
  <2>2. Whole(stored)' /\ Whole(override)'
    BY <1>3, <2>1, PatchedWhole DEF Tune, Whole
  <2>3. UNCHANGED <<url, saved, sent>>
    BY <1>3 DEF Tune
  <2> QED
    BY <1>0, <2>2, <2>3 DEF OriginInv, Whole
<1>4. CASE Restart
  <2>1. UNCHANGED <<url, saved, override, sent>> /\ stored' = Hydrate
    BY <1>4 DEF Restart
  <2>2. Hydrate # None => Whole(Hydrate)
    BY ShippedAssumption DEF Hydrate, OriginInv, TypeOK, Whole, Valid, ValidStrategy
  <2> QED
    BY <1>0, <2>1, <2>2 DEF OriginInv, Whole
<1>5. CASE UNCHANGED vars
  BY <1>0, <1>5 DEF vars, OriginInv, Whole
<1> QED
  BY <1>1, <1>2, <1>3, <1>4, <1>5 DEF Next

----------------------------------------------------------------------------
(* Repairs change no bet                                                   *)

\* Rules that have a pair for a band can be repaired; those not inverted match the
\* same prices afterwards.
LEMMA UprightRepaired ==
  ASSUME NEW rules \in Seq(RuleType), Upright(rules),
         \A i \in DOMAIN rules : CoerceBand(rules[i].band) # Junk
  PROVE  \A i \in DOMAIN rules : rules[i].band.lo <= rules[i].band.hi \/ rules[i].band.lo <= 101
<1> SUFFICES ASSUME NEW i \in DOMAIN rules
             PROVE  rules[i].band.lo <= rules[i].band.hi \/ rules[i].band.lo <= 101
  OBVIOUS
<1>1. rules[i] \in RuleType
  OBVIOUS
<1>2. rules[i].band \in BandType \union {None, Junk}
  BY <1>1 DEF RuleType
<1>3. rules[i].band \in BandType
  BY <1>2, CoercedBand
<1>4. rules[i].band.lo \in Int /\ rules[i].band.hi \in Int
  BY <1>3 DEF BandType
<1> QED
  BY <1>4 DEF Upright, InvertedBand

\* Two plugins, one with the rules of the other repaired, bet the same.
LEMMA RepairedSameBets ==
  ASSUME NEW plugin, NEW other,
         plugin.strategy.rules \in Seq(RuleType), Upright(plugin.strategy.rules),
         \A i \in DOMAIN plugin.strategy.rules : CoerceBand(plugin.strategy.rules[i].band) # Junk,
         other.strategy.rules = Repaired(plugin.strategy.rules),
         other.strategy.controls = plugin.strategy.controls,
         other.points = plugin.points
  PROVE  SameBets(plugin, other)
<1> DEFINE s == plugin.strategy
           t == other.strategy
<1>1. \A i \in DOMAIN s.rules : s.rules[i].band.lo <= s.rules[i].band.hi \/ s.rules[i].band.lo <= 101
  BY UprightRepaired
<1>2. ASSUME NEW book \in Books, Answers(book, plugin)
      PROVE  Answers(book, other) /\ Decide(book, other) = Decide(book, plugin)
  <2>1. BookOK(book) /\ ~Raises(book, s)
    BY <1>2, InputsAssumption DEF Answers
  <2>2. s.rules \in Seq(RuleType) /\ t.rules = Repaired(s.rules) /\ t.controls = s.controls
    OBVIOUS
  <2>3. \A i \in DOMAIN s.rules : CoerceBand(s.rules[i].band) # Junk
    OBVIOUS
  <2> HIDE DEF s, t
  <2>4. ~Raises(book, t)
        /\ Evaluate(book, t, plugin.points) = Evaluate(book, s, plugin.points)
    BY <1>1, <2>1, <2>2, <2>3, RepairedBets
  <2> QED
    BY <2>4 DEF Answers, Decide, s, t
<1> QED
  BY <1>2 DEF SameBets

\* The rules of a valid strategy have bands that can be repaired.
LEMMA ValidCoerced ==
  ASSUME NEW rules \in Seq(RuleType), \A i \in DOMAIN rules : ValidRule(RepairRule(rules[i]))
  PROVE  \A i \in DOMAIN rules : CoerceBand(rules[i].band) # Junk
<1>1. \A i \in DOMAIN rules : rules[i] \in RuleType
  OBVIOUS
<1> QED
  BY <1>1, RepairValidates

\* Sending a plugin back: accepted, it bets the same; it is refused for what a tuning
\* did to it or for its name.
LEMMA ResendStep ==
  ASSUME OriginInv, Resend
  PROVE  /\ answer' = "200" /\ Upright(stored.strategy.rules) => SameBets(stored, stored')
         /\ answer' = "422" => tuned /\ ~Valid(stored)
         /\ answer' = "400" => SafeName[url] # url
<1> DEFINE plugin == Normalise(Dump(stored), url)
           rules == stored.strategy.rules
<1>1. Whole(stored) /\ Accept(Dump(stored))
  BY DEF Resend, OriginInv
<1>2. /\ plugin.name = SafeName[url] /\ plugin.sound = stored.sound
      /\ plugin.points = stored.points
      /\ plugin.strategy.controls = stored.strategy.controls
      /\ plugin.strategy.rules = Repaired(rules)
  BY <1>1, DumpNormalised DEF Whole
<1>3. rules \in Seq(RuleType)
  BY <1>1 DEF Whole, PluginType, StrategyType
<1>4. \/ answer' = "422" /\ ~Valid(plugin)
      \/ answer' = "400" /\ plugin.name # url
      \/ answer' = "200" /\ Valid(plugin) /\ stored' = plugin
  BY <1>1 DEF Accept
<1>5. ASSUME Valid(stored) PROVE Valid(plugin)
  <2>1. \A i \in DOMAIN rules : rules[i] \in RuleType /\ ValidRule(rules[i])
    BY <1>3, <1>5 DEF Valid, ValidStrategy
  <2>2. \A i \in DOMAIN rules : ValidRule(RepairRule(rules[i]))
    BY <2>1, RepairValidates
  <2>3. IsList(Repaired(rules)) /\ Repaired(rules) # <<>>
    <3>1. \A i \in DOMAIN rules : RepairRule(rules[i]) \in RuleType
      BY <2>1, RepairedRule
    <3>2. rules # <<>>
      BY <1>1 DEF Whole
    <3> HIDE DEF rules
    <3>3. Repaired(rules) \in Seq(RuleType) /\ Repaired(rules) # <<>>
      BY <1>3, <3>1, <3>2 DEF Repaired
    <3>4. Repaired(rules) \in Seq(RuleType \union {Junk})
      BY <3>3
    <3> QED
      BY <3>3, <3>4, Distinct DEF IsList
  <2>4. \A i \in DOMAIN Repaired(rules) : ValidRule(Repaired(rules)[i])
    BY <2>2 DEF Repaired
  <2> HIDE DEF plugin, rules
  <2> QED
    BY <1>2, <1>5, <2>3, <2>4 DEF Valid, ValidStrategy
<1>6. ASSUME Valid(plugin), Upright(rules) PROVE SameBets(stored, plugin)
  <2>1. \A i \in DOMAIN Repaired(rules) : ValidRule(Repaired(rules)[i])
    BY <1>2, <1>6 DEF Valid, ValidStrategy
  <2>2. \A i \in DOMAIN rules : ValidRule(RepairRule(rules[i]))
    BY <2>1 DEF Repaired
  <2>3. \A i \in DOMAIN rules : CoerceBand(rules[i].band) # Junk
    BY <1>3, <2>2, ValidCoerced
  <2> HIDE DEF plugin
  <2> QED
    BY <1>2, <1>3, <1>6, <2>3, RepairedSameBets
<1>7. ~tuned => Valid(stored)
  BY DEF Resend, OriginInv, ValidInv
<1> HIDE DEF plugin
<1> QED
  BY <1>2, <1>4, <1>5, <1>6, <1>7

\* What the portal was served can be sent back: accepted, it bets as before unless a
\* band is inverted, and it is refused only if a tuning has made it invalid or if its
\* name is not one _safe_name preserves.
THEOREM ResendHarmlessHolds == Spec => ResendHarmless
<1>1. OriginInv /\ [Next]_vars => OriginInv'
  BY OriginStep
<1>2. OriginInv =>
        [Resend =>
           /\ answer' = "200" /\ Upright(stored.strategy.rules) => SameBets(stored, stored')
           /\ answer' = "422" => tuned /\ ~Valid(stored)
           /\ answer' = "400" => SafeName[url] # url]_vars
  BY ResendStep
<1> QED
  BY OriginStart, <1>1, <1>2, PTL DEF Spec, ResendHarmless

\* A strategy that is valid as sent is saved to bet as it would without the repairs.
LEMMA OriginConservative == OriginInv => RepairsConservative
<1> SUFFICES ASSUME OriginInv, saved # None, ValidAsSent(sent), Upright(sent.strategy.rules)
             PROVE  SameBets(AsSent(sent), saved)
  BY DEF RepairsConservative
<1> DEFINE rules == sent.strategy.rules
           plugin == AsSent(sent)
<1>1. PayloadOK(sent) /\ saved = Normalise(sent, url)
  BY DEF OriginInv
<1>2. /\ plugin.strategy.rules = rules /\ plugin.strategy.controls = EnsureControls(sent)
      /\ plugin.points = EnsurePoints(sent)
  BY DEF AsSent
<1>3. /\ sent.strategy # None
      /\ IsList(rules) /\ rules # <<>> /\ \A i \in DOMAIN rules : ValidRule(rules[i])
  BY <1>2 DEF ValidAsSent, Valid, ValidStrategy
<1>4. rules \in Seq(RuleType)
  <2>1. rules \in Seq(RuleType \union {Junk})
    BY <1>1, <1>3 DEF PayloadOK, RulesType, IsList
  <2>2. \A i \in DOMAIN rules : rules[i] # Junk
    BY <1>3 DEF ValidRule
  <2> HIDE DEF rules
  <2> QED
    BY <2>1, <2>2
<1>5. EnsureRules(sent) = Repaired(rules)
  <2>1. HoistedRules(sent) = rules
    BY <1>3 DEF HoistedRules, IsList
  <2>2. Dicts(rules) = rules
    BY <1>4, DictsOfRules, Distinct
  <2> QED
    BY <1>3, <2>1, <2>2 DEF EnsureRules, Repaired
<1>6. \A i \in DOMAIN rules : CoerceBand(rules[i].band) # Junk
  <2>1. \A i \in DOMAIN rules : rules[i] \in RuleType
    BY <1>4
  <2> QED
    BY <1>3, <2>1, <1>4, RepairValidates
<1>7. /\ saved.strategy.rules = Repaired(rules) /\ saved.points = EnsurePoints(sent)
      /\ saved.strategy.controls = EnsureControls(sent)
  BY <1>1, <1>5 DEF Normalise
<1>8. Upright(plugin.strategy.rules) /\ plugin.strategy.rules \in Seq(RuleType)
  BY <1>2, <1>4
<1>9. \A i \in DOMAIN plugin.strategy.rules : CoerceBand(plugin.strategy.rules[i].band) # Junk
  BY <1>2, <1>6
<1> HIDE DEF plugin, rules
<1>10. /\ saved.strategy.rules = Repaired(plugin.strategy.rules)
       /\ saved.points = plugin.points /\ saved.strategy.controls = plugin.strategy.controls
  BY <1>2, <1>7
<1>11. SameBets(plugin, saved)
  BY <1>8, <1>9, <1>10, RepairedSameBets
<1> QED
  BY <1>11 DEF plugin

\* The repairs of the acceptor change no bet of a strategy that was valid as sent,
\* whatever aliases, defaults, roles and clamped bands they had to see to; but an
\* inverted band that is swapped may start to bet.
THEOREM RepairsConservativeHolds == Spec => []RepairsConservative
<1>1. OriginInv /\ [Next]_vars => OriginInv'
  BY OriginStep
<1> QED
  BY OriginStart, <1>1, OriginConservative, PTL DEF Spec

----------------------------------------------------------------------------
(* Where stakes come from                                                  *)

\* The stake on a market is that of the rule that decides: once, or once on each of
\* two favourites.
LEMMA StakedByRule ==
  ASSUME NEW book, NEW rule, NEW controls, NEW points \in Int
  PROVE  \/ Staked(Legs(book, rule, controls, points)) = 2 * points
         \/ /\ Staked(Legs(book, rule, controls, points)) = 2 * (2 * points)
            /\ rule.also2nd /\ ~Split(book, controls)
<1> DEFINE legs == Legs(book, rule, controls, points)
           full == 2 * points
<1>1. \A h, i, j : /\ Staked(<<Lay(book, i, h), Lay(book, j, h)>>) = h + h
                   /\ Staked(<<Lay(book, i, h)>>) = h
  BY DEF Staked, Lay
<1>2. \/ /\ Split(book, controls)
         /\ legs = <<Lay(book, Favourite(book), points), Lay(book, Second(book), points)>>
      \/ /\ ~Split(book, controls) /\ rule.also2nd
         /\ legs = <<Lay(book, Favourite(book), full), Lay(book, Second(book), full)>>
      \/ legs = <<Lay(book, Favourite(book), full)>>
  BY DEF Legs
<1>3. points + points = full /\ full + full = 2 * full
  OBVIOUS
<1> HIDE DEF legs, full
<1>4. \/ Split(book, controls) /\ Staked(legs) = points + points
      \/ ~Split(book, controls) /\ rule.also2nd /\ Staked(legs) = full + full
      \/ Staked(legs) = full
  BY <1>1, <1>2
<1> QED
  BY <1>3, <1>4 DEF legs, full

\* Every rule of a saved strategy was written by the operator, or stakes nothing.
LEMMA RulesAuthored ==
  ASSUME OriginInv, saved # None, NEW k \in DOMAIN saved.strategy.rules
  PROVE  /\ ResolveStake(saved.strategy.rules[k]) \in Int
         /\ \/ ResolveStake(saved.strategy.rules[k]) = 0
            \/ \E rule \in AuthoredRules(sent) :
                 /\ ResolveStake(rule) = ResolveStake(saved.strategy.rules[k])
                 /\ rule.also2nd = saved.strategy.rules[k].also2nd
<1> DEFINE rules == saved.strategy.rules
           sentRules == HoistedRules(sent)
<1>1. PayloadOK(sent) /\ saved = Normalise(sent, url) /\ Valid(saved)
  BY DEF OriginInv, TypeOK
<1>2. rules = EnsureRules(sent) /\ IsList(rules) /\ rules # <<>> /\ ValidRule(rules[k])
  BY <1>1 DEF Normalise, Valid, ValidStrategy
<1>3. /\ rules \in Seq(RuleType)
      /\ \/ rules = <<NoopRule>>
         \/ sentRules \in Seq(RuleType \union {Junk}) /\ rules = Repaired(Dicts(sentRules))
  BY <1>1, <1>2, EnsuredRules
<1>4. ResolveStake(rules[k]) \in Int
  <2>1. rules[k] \in RuleType
    BY <1>3
  <2> HIDE DEF rules
  <2> QED
    BY <1>2, <2>1, Distinct DEF ValidRule, ResolveStake, RuleType, NumberType
<1>5. CASE rules = <<NoopRule>>
  <2>1. rules[k] = NoopRule
    BY <1>5
  <2>2. ResolveStake(NoopRule) = 0
    BY Distinct DEF NoopRule, ResolveStake
  <2> QED
    BY <1>4, <2>1, <2>2
<1>6. CASE sentRules \in Seq(RuleType \union {Junk}) /\ rules = Repaired(Dicts(sentRules))
  <2> HIDE DEF sentRules, rules
  <2>1. /\ Dicts(sentRules) \in Seq(RuleType)
        /\ \A m \in DOMAIN Dicts(sentRules) :
             \E i \in DOMAIN sentRules : Dicts(sentRules)[m] = sentRules[i]
    BY <1>6, DictsOfList, Distinct
  <2>2. k \in DOMAIN Dicts(sentRules) /\ rules[k] = RepairRule(Dicts(sentRules)[k])
    BY <1>6 DEF Repaired, rules
  <2> DEFINE rule == Dicts(sentRules)[k]
  <2>3. rule \in RuleType /\ \E i \in DOMAIN sentRules : rule = sentRules[i]
    BY <2>1, <2>2
  <2> HIDE DEF rule
  <2>4. rule \in AuthoredRules(sent)
    <3>1. \/ sentRules = sent.topRules
          \/ sent.strategy # None /\ sentRules = sent.strategy.rules
          \/ sentRules = None
      BY DEF HoistedRules, sentRules
    <3>2. sentRules \notin {None, Junk}
      BY <1>6, Distinct
    <3>3. sentRules \in {sent.topRules,
                         IF sent.strategy = None THEN None ELSE sent.strategy.rules} \ {None, Junk}
      BY <3>1, <3>2
    <3>4. rule # Junk
      BY <2>3, Distinct
    <3> DEFINE lists == {sent.topRules,
                         IF sent.strategy = None THEN None ELSE sent.strategy.rules} \ {None, Junk}
               items == UNION {{list[i] : i \in DOMAIN list} : list \in lists}
    <3>5. rule \in {sentRules[i] : i \in DOMAIN sentRules}
      BY <2>3
    <3>6. sentRules \in lists
      BY <3>3
    <3>7. rule \in items
      <4> HIDE DEF lists
      <4> QED
        BY <3>5, <3>6, Zenon
    <3> QED
      BY <3>4, <3>7 DEF AuthoredRules
  <2>5. /\ RepairRule(rule).also2nd = rule.also2nd /\ RepairRule(rule).stake = rule.stake
        /\ RepairRule(rule).base = rule.base
             \/ (RepairRule(rule).base = 0 /\ ResolveStake(rule) = None)
    BY <2>3, RepairedRule
  <2>6. rules[k] = RepairRule(rule)
    BY <2>2 DEF rule
  <2>7. ResolveStake(rules[k]) = 0 \/ ResolveStake(rules[k]) = ResolveStake(rule)
    BY <2>5, <2>6, Distinct DEF ResolveStake
  <2> QED
    BY <1>4, <2>4, <2>5, <2>6, <2>7 DEF rules
<1> QED
  BY <1>3, <1>5, <1>6

\* What a saved strategy stakes on a market is the stake of a rule the operator wrote.
LEMMA OriginAuthored == OriginInv => StakesAuthored
<1> SUFFICES ASSUME OriginInv, saved # None, NEW book \in Books,
                    Staked(Decide(book, saved)) > 0
             PROVE  \E rule \in AuthoredRules(sent) :
                      LET full == 2 * ResolveStake(rule) * Uplift(saved.strategy.controls)
                                    * saved.points
                      IN  /\ ResolveStake(rule) # None
                          /\ \/ Staked(Decide(book, saved)) = full
                             \/ /\ Staked(Decide(book, saved)) = 2 * full
                                /\ rule.also2nd /\ ~Split(book, saved.strategy.controls)
  BY DEF StakesAuthored
<1> DEFINE rules == saved.strategy.rules
           controls == saved.strategy.controls
           legs == Decide(book, saved)
<1>1. saved \in PluginType
  BY DEF OriginInv, Whole
<1>2. rules \in Seq(RuleType) /\ controls \in ControlsType /\ saved.points \in Int
  BY <1>1 DEF PluginType, StrategyType
<1>3. ~NoBet(book, saved.strategy)
  <2>1. Staked(<<>>) = 0
    BY DEF Staked
  <2> QED
    BY <2>1 DEF Decide, Evaluate
<1>4. PICK k \in DOMAIN rules : RuleFor(book, saved.strategy) = rules[k]
  <2>1. Matching(rules, Price(book, Favourite(book)), Gap(book)) # {}
    BY <1>3 DEF NoBet
  <2>2. DOMAIN rules \subseteq Nat
    BY <1>2
  <2> QED
    BY <2>1, <2>2, FirstMatchDecides DEF RuleFor
<1> DEFINE stake == ResolveStake(rules[k])
           uplift == Uplift(controls)
           points == stake * uplift * saved.points
<1>5. legs = Legs(book, rules[k], controls, points)
  BY <1>3, <1>4 DEF Decide, Evaluate
<1>6. stake \in Int
  BY RulesAuthored
<1>7. uplift \in Int
  BY <1>2, Distinct DEF Uplift, ControlsType, NumberType
<1> HIDE DEF stake, uplift, legs, rules, controls
<1>8. points \in Int /\ 2 * points = 2 * stake * uplift * saved.points
  BY <1>2, <1>6, <1>7
<1>9. \/ Staked(legs) = 2 * points
      \/ Staked(legs) = 2 * (2 * points) /\ rules[k].also2nd /\ ~Split(book, controls)
  BY <1>5, <1>8, StakedByRule
<1>10. stake # 0
  <2>1. stake = 0 => points = 0
    BY <1>2, <1>7
  <2>2. Staked(legs) > 0
    BY DEF legs
  <2> HIDE DEF points
  <2> QED
    BY <1>8, <1>9, <2>1, <2>2
<1>11. PICK rule \in AuthoredRules(sent) :
         ResolveStake(rule) = stake /\ rule.also2nd = rules[k].also2nd
  BY <1>10, RulesAuthored DEF stake, rules
<1>12. stake # None
  BY <1>6, Distinct
<1> HIDE DEF points
<1> QED
  BY <1>8, <1>9, <1>11, <1>12 DEF legs, uplift, controls

\* A saved strategy stakes on a market what one rule of the payload says, times the
\* uplift and the point value, and twice that only where that rule lays the second
\* favourite too: the acceptor invents no stake, and neither does the evaluator.
THEOREM StakesAuthoredHolds == Spec => []StakesAuthored
<1>1. OriginInv /\ [Next]_vars => OriginInv'
  BY OriginStep
<1> QED
  BY OriginStart, <1>1, OriginAuthored, PTL DEF Spec
=============================================================================
