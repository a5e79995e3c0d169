--------------------------- MODULE PluginContent ---------------------------
(***************************************************************************)
(* What a strategy says, from the JSON an operator sends to the bets it    *)
(* makes: PUT /api/strategies/{name} normalises the payload (the Acceptor, *)
(* core/plugin_normaliser.py), validates it (models/schemas.py) and saves  *)
(* it; POST .../variables sets values in memory without validating them;   *)
(* a restart validates what the bucket holds; evaluator.evaluate reads it. *)
(*                                                                         *)
(* One strategy, edited by one operator while betting is off: overlapping  *)
(* requests, the betting lock and failures of the bucket are the subject   *)
(* of StrategyStore, which takes the content for a number.                 *)
(*                                                                         *)
(* A payload is what the JSON says of the fields the decision depends on.  *)
(* None is a key that is absent, Junk a value of a type the code does not  *)
(* expect.  The fields that are always made valid (version, description,   *)
(* author, sport, tools, the parser's format) are left out;                *)
(* "sound" says whether the parts that are never repaired (the source, the *)
(* parser's other fields, unknown keys in them) validate.                  *)
(***************************************************************************)
EXTENDS Evaluator, FiniteSets

CONSTANTS
  Junk,           \* a value of a wrong type
  Blank,          \* a name that is not a string, or blank
  Urls,           \* names a strategy may have in the URL
  SafeName,       \* _safe_name, a function on names
  Shipped,        \* what the image ships under each name: a plugin or None
  Payloads,       \* payloads an operator may send
  Patches,        \* variables an operator may set
  Books,          \* market books
  MaxEdits        \* bound on the saves and tunings of a behaviour

ASSUME MaxEditsAssumption == MaxEdits \in Nat

----------------------------------------------------------------------------
(* The kinds of values a payload, a tuning and a book are made of.  A band *)
(* is a pair of bounds or an object with a minimum and a maximum; a list   *)
(* of rules may hold what is not a rule.                                   *)

NumberType == Int \union {None}

BandType == [shape : {"pair", "object"}, lo : Int, hi : Int]

RuleType ==
  [band : BandType \union {None, Junk}, base : NumberType, stake : NumberType,
   gapLt : NumberType, gapGte : NumberType, also2nd : BOOLEAN]

RulesType == Seq(RuleType \union {Junk}) \union {None, Junk}

ControlsType ==
  [floor : Int, ceiling : Int, jofs : BOOLEAN, jofsSpread : Int, uplift : NumberType,
   spreadControl : BOOLEAN]

StrategyType == [rules : Seq(RuleType), controls : ControlsType]

PluginType ==
  [name : Urls, role : {"rule", "control", "modifier"}, sound : BOOLEAN,
   strategy : StrategyType, points : Int]

PayloadOK(p) ==
  /\ p.topRules \in RulesType
  /\ p.strategy # None =>
       p.strategy.rules \in RulesType /\ p.strategy.controls \in ControlsType \union {None, Junk}
  /\ p.points \in Int \union {None, Junk}
  /\ p.sound \in BOOLEAN

\* A tuning sets a field to a value of the field's kind, but the operator may empty a
\* rule's field and give it any band.
PatchType ==
  [of : {"rule"}, at : Nat, field : {"base", "stake", "gapLt", "gapGte"}, value : NumberType]
    \union [of : {"rule"}, at : Nat, field : {"band"}, value : BandType \union {None, Junk}]
    \union [of : {"rule"}, at : Nat, field : {"also2nd"}, value : BOOLEAN]
    \union [of : {"controls"}, field : {"floor", "ceiling", "jofsSpread"}, value : Int]
    \union [of : {"controls"}, field : {"uplift"}, value : NumberType]
    \union [of : {"controls"}, field : {"jofs", "spreadControl"}, value : BOOLEAN]
    \union [of : {"staking"}, field : {"points"}, value : Int]

\* A book whose runners are a list and whose prices are numbers.
BookOK(book) ==
  /\ DOMAIN book.runners \subseteq Nat
  /\ \A i \in DOMAIN book.runners :
       book.runners[i].ltp # None => book.runners[i].ltp \in Nat

\* None and Junk are no value.
ASSUME ValuesAssumption ==
  /\ None # Junk
  /\ \A v \in {None, Junk} :
       /\ v \notin Int /\ v \notin BandType /\ v \notin RuleType /\ v \notin ControlsType
       /\ v \notin Seq(RuleType \union {Junk}) /\ v \notin StrategyType

ASSUME InputsAssumption ==
  /\ \A p \in Payloads : PayloadOK(p)
  /\ Patches \subseteq PatchType
  /\ \A book \in Books : BookOK(book)

VARIABLES
  url,            \* the name of the strategy
  stored,         \* the plugin in memory, or None
  saved,          \* strategies/<url>.json, or None
  override,       \* overrides/<url>.json, or None
  sent,           \* the payload that was saved last
  tuned,          \* stored holds a value that no validation has seen
  answer,         \* the status of the last save
  edits

vars == <<url, stored, saved, override, sent, tuned, answer, edits>>

----------------------------------------------------------------------------
(* The Acceptor: normalise_plugin_payload                                  *)

NoopRule == [band |-> [shape |-> "pair", lo |-> 101, hi |-> 100000],
             base |-> 0, stake |-> None, gapLt |-> None, gapGte |-> None,
             also2nd |-> FALSE]

\* Definitions named X_... are mutants of X: a bug the code could have had, which
\* some property must notice.

\* _rewrite_aliases: an alias counts only where the canonical key is missing.
Canonical(value, alias) == IF value # None THEN value ELSE alias

\* _ensure_name: the name sent, even under an alias, else the one in the URL.
EnsureName(p, hint) ==
  LET name == Canonical(p.name, p.nameAlias)
  IN  SafeName[IF name \in {None, Blank} THEN hint ELSE name]

\* _ensure_plugin_role: what is not recognised is a rule plugin.
EnsureRole(p) ==
  LET role == Canonical(p.role, p.roleAlias)
  IN  IF role \in {"control", "modifier"} THEN role ELSE "rule"

Guards(p) == EnsureRole(p) \in {"control", "modifier"}

IsList(v) == v \notin {None, Junk} /\ DOMAIN v = 1..Len(v)

LooksLikeBettingRules(rules) ==
  /\ IsList(rules)
  /\ \A i \in DOMAIN rules :
       rules[i] # Junk
         /\ (rules[i].band # None \/ rules[i].base # None \/ rules[i].stake # None)

\* _ensure_strategy: top-level rules move into the strategy when it has none, but
\* those of a control or modifier that do not look like betting rules are put
\* aside as guardrails.
HoistedRules(p) ==
  LET own == IF p.strategy = None THEN None ELSE p.strategy.rules
  IN  IF own # None \/ p.topRules = None \/ (Guards(p) /\ ~LooksLikeBettingRules(p.topRules))
      THEN own
      ELSE p.topRules

CoerceBand_SwapsAlways(band) ==
  IF band \in {None, Junk} \/ (band.shape = "object" /\ 0 \in {band.lo, band.hi}) THEN Junk
  ELSE [shape |-> "pair", lo |-> IF band.hi < 101 THEN 101 ELSE band.hi, hi |-> band.lo]

\* _coerce_odds_band: an object becomes a pair (a zero in it counts as missing),
\* inverted bounds are swapped, then the lower one is raised to 1.01.
CoerceBand(band) ==
  IF band \in {None, Junk} \/ (band.shape = "object" /\ 0 \in {band.lo, band.hi}) THEN Junk
  ELSE LET lo == IF band.lo <= band.hi THEN band.lo ELSE band.hi
           hi == IF band.lo <= band.hi THEN band.hi ELSE band.lo
       IN  [shape |-> "pair", lo |-> IF lo < 101 THEN 101 ELSE lo, hi |-> hi]

\* _repair_rule: a rule whose band is hopeless is left for the validation to
\* refuse; one without a stake is parked, that is, given a stake of 0.
RepairRule(rule) ==
  LET band == CoerceBand(rule.band)
  IN  IF band = Junk THEN rule
      ELSE [rule EXCEPT !.band = band,
                        !.base = IF rule.base = None /\ rule.stake = None THEN 0 ELSE @]

\* The k-th of a set of positions.
Nth(at, k) == CHOOSE i \in at : Cardinality({j \in at : j <= i}) = k

\* What is left of a list when what is not an object is dropped.
Dicts(rules) ==
  LET at == {i \in DOMAIN rules : rules[i] # Junk}
  IN  [k \in 1..Cardinality(at) |-> rules[Nth(at, k)]]

EnsureRules_NoopForAll(p) ==
  LET rules == HoistedRules(p)
      dicts == Dicts(rules)
  IN  IF Guards(p) THEN <<NoopRule>>
      ELSE IF ~IsList(rules) \/ rules = <<>> THEN rules
      ELSE [i \in DOMAIN dicts |-> RepairRule(dicts[i])]

\* _ensure_rules: a control or modifier without rules gets one that stakes nothing;
\* what is not an object is dropped from the list and the rest is repaired.
EnsureRules(p) ==
  LET rules == HoistedRules(p)
      dicts == Dicts(rules)
  IN  IF ~IsList(rules) \/ rules = <<>>
      THEN IF Guards(p) THEN <<NoopRule>> ELSE rules
      ELSE [i \in DOMAIN dicts |-> RepairRule(dicts[i])]

DefaultControls == [floor |-> 101, ceiling |-> 100000, jofs |-> FALSE,
                    jofsSpread |-> 20, uplift |-> None, spreadControl |-> FALSE]

\* _ensure_controls, and the defaults StrategyControls fills in.
EnsureControls(p) ==
  IF p.strategy = None \/ p.strategy.controls \in {None, Junk}
  THEN DefaultControls
  ELSE p.strategy.controls

\* _ensure_staking.
EnsurePoints(p) == IF p.points \in {None, Junk} THEN 1 ELSE p.points

Normalise(p, hint) ==
  [name |-> EnsureName(p, hint), role |-> EnsureRole(p), sound |-> p.sound,
   strategy |-> [rules |-> EnsureRules(p), controls |-> EnsureControls(p)],
   points |-> EnsurePoints(p)]

----------------------------------------------------------------------------
(* Validation: PluginConfig and its parts                                  *)

NotNegative(n) == n # None => n >= 0

ValidRule_StakeOptional(rule) ==
  /\ rule # Junk
  /\ rule.band \notin {None, Junk} /\ rule.band.shape = "pair"
  /\ NotNegative(rule.base) /\ NotNegative(rule.stake)
  /\ NotNegative(rule.gapLt) /\ NotNegative(rule.gapGte)

\* StrategyRule: a pair for a band, no negative number, and a stake.
ValidRule(rule) ==
  /\ rule # Junk
  /\ rule.band \notin {None, Junk} /\ rule.band.shape = "pair"
  /\ NotNegative(rule.base) /\ NotNegative(rule.stake)
  /\ NotNegative(rule.gapLt) /\ NotNegative(rule.gapGte)
  /\ rule.base # None \/ rule.stake # None

\* StrategyControls.
ValidControls(c) ==
  /\ c.floor >= 100
  /\ c.ceiling > c.floor
  /\ c.jofsSpread >= 0
  /\ NotNegative(c.uplift)

\* StrategyConfig: at least one rule.
ValidStrategy(s) ==
  /\ IsList(s.rules) /\ s.rules # <<>>
  /\ \A i \in DOMAIN s.rules : ValidRule(s.rules[i])
  /\ ValidControls(s.controls)

Valid(plugin) == plugin.sound /\ plugin.points > 0 /\ ValidStrategy(plugin.strategy)

\* PluginStore.refresh passes over the files that do not validate, and keeps a plugin
\* under its own name.
ASSUME ShippedAssumption ==
  \A u \in Urls : Shipped[u] # None =>
    Shipped[u] \in PluginType /\ Shipped[u].name = u /\ Valid(Shipped[u])

----------------------------------------------------------------------------
(* Saving, tuning and restarting                                           *)

\* A plugin as PUT receives it when it is read from GET .../schema and sent back.
Dump(plugin) ==
  [name |-> plugin.name, nameAlias |-> None, role |-> plugin.role, roleAlias |-> None,
   topRules |-> None, strategy |-> plugin.strategy, points |-> plugin.points,
   sound |-> plugin.sound]

\* The lifespan handler: the plugins of the image, their overrides, then the saved
\* strategies; what does not validate is passed over.
Hydrate ==
  IF saved # None /\ Valid(saved) THEN saved
  ELSE IF Shipped[url] # None /\ override # None /\ Valid(override) THEN override
  ELSE Shipped[url]

Init ==
  /\ url \in Urls
  /\ stored = Shipped[url]
  /\ saved = None /\ override = None /\ sent = None
  /\ tuned = FALSE
  /\ answer = "none"
  /\ edits = 0

Accept_NameUnchecked(p) ==
  LET plugin == Normalise(p, url)
  IN  IF ~Valid(plugin)
      THEN answer' = "422" /\ UNCHANGED <<stored, saved, sent, tuned>>
      ELSE /\ answer' = "200"
           /\ stored' = plugin /\ saved' = plugin
           /\ sent' = p
           /\ tuned' = FALSE

\* put_strategy: 422 if the repaired payload is not valid, 400 if it names another
\* strategy than the URL.
Accept(p) ==
  LET plugin == Normalise(p, url)
  IN  \/ /\ ~Valid(plugin)
         /\ answer' = "422"
         /\ UNCHANGED <<stored, saved, sent, tuned>>
      \/ /\ Valid(plugin) /\ plugin.name # url
         /\ answer' = "400"
         /\ UNCHANGED <<stored, saved, sent, tuned>>
      \/ /\ Valid(plugin) /\ plugin.name = url
         /\ answer' = "200"
         /\ stored' = plugin /\ saved' = plugin
         /\ sent' = p
         /\ tuned' = FALSE

Put(p) ==
  /\ edits < MaxEdits
  /\ edits' = edits + 1
  /\ Accept(p)
  /\ UNCHANGED <<url, override>>

\* The operator sends back what the portal was served, nothing changed.
Resend ==
  /\ edits < MaxEdits
  /\ edits' = edits + 1
  /\ stored # None
  /\ Accept(Dump(stored))
  /\ UNCHANGED <<url, override>>

\* _apply_single_patch: a field of a rule, of the controls or of the staking.
Patched(plugin, patch) ==
  CASE patch.of = "rule"     ->
         [plugin EXCEPT !.strategy.rules[patch.at][patch.field] = patch.value]
    [] patch.of = "controls" -> [plugin EXCEPT !.strategy.controls[patch.field] = patch.value]
    [] patch.of = "staking"  -> [plugin EXCEPT !.points = patch.value]

\* apply_variable_patches: set in memory, then written as the strategy's override.
Tune(patch) ==
  /\ edits < MaxEdits
  /\ edits' = edits + 1
  /\ stored # None
  /\ patch.of = "rule" => patch.at \in DOMAIN stored.strategy.rules
  /\ stored' = Patched(stored, patch)
  /\ override' = stored'
  /\ tuned' = TRUE
  /\ UNCHANGED <<url, saved, sent, answer>>

Restart ==
  /\ stored' = Hydrate
  /\ tuned' = FALSE
  /\ answer' = "none"
  /\ UNCHANGED <<url, saved, override, sent, edits>>

Next ==
  \/ \E p \in Payloads : Put(p)
  \/ Resend
  \/ \E patch \in Patches : Tune(patch)
  \/ Restart

Spec == Init /\ [][Next]_vars

----------------------------------------------------------------------------
(* Properties                                                              *)

Decide(book, plugin) == Evaluate(book, plugin.strategy, plugin.points)

Answers(book, plugin) == ~Raises(book, plugin.strategy)

\* Every book the plugin can be evaluated on makes it want the same bets as other.
SameBets(plugin, other) ==
  \A book \in Books : Answers(book, plugin) =>
    Answers(book, other) /\ Decide(book, other) = Decide(book, plugin)

\* What is saved is a plugin of that name that validates again at the next start,
\* and memory differs from it only by tunings.
TypeOK ==
  /\ url \in Urls
  /\ saved # None => saved.name = url /\ Valid(saved)
  /\ stored # None /\ ~tuned => stored \in {saved, override, Shipped[url]}
  /\ tuned \in BOOLEAN
  /\ answer \in {"none", "200", "400", "422"}
  /\ edits \in 0..MaxEdits

\* No book makes the evaluation raise, which would drop the rest of the books of
\* its batch, unless a tuning took a rule's stake away; a restart, which reads the
\* tunings back, validates them.
AcceptedEvaluates ==
  stored # None /\ ~tuned => \A book \in Books : Answers(book, stored)

\* A band with its bounds the wrong way round, that a price fits in once they are
\* swapped: it is valid and matches nothing.
InvertedBand(rule) == rule.band.lo > rule.band.hi /\ rule.band.lo > 101

Upright(rules) == \A i \in DOMAIN rules : ~InvertedBand(rules[i])

\* Sending a strategy back as it was served changes no bet, but where a band is
\* inverted (by a tuning, or in the image) and is swapped now.  It is refused only
\* if tunings have made it invalid or if its name does not survive _safe_name.
ResendHarmless ==
  [][Resend =>
       /\ answer' = "200" /\ Upright(stored.strategy.rules) => SameBets(stored, stored')
       /\ answer' = "422" => tuned /\ ~Valid(stored)
       /\ answer' = "400" => SafeName[url] # url]_vars

\* The payload taken at its word, the defaults of the schema filled in.
AsSent(p) ==
  [sound |-> p.sound, strategy |-> [rules |-> p.strategy.rules, controls |-> EnsureControls(p)],
   points |-> EnsurePoints(p)]

ValidAsSent(p) ==
  /\ p.strategy # None /\ p.strategy.controls # Junk /\ p.points # Junk
  /\ Valid(AsSent(p))

\* The Acceptor's repairs are conservative: a strategy that was valid as sent bets
\* as it would have without them, aliases, top-level rules, roles and clamped
\* bands included.  Only an inverted band starts to bet when it is repaired.
RepairsConservative ==
  /\ saved # None
  /\ ValidAsSent(sent)
  /\ Upright(sent.strategy.rules)
  => SameBets(AsSent(sent), saved)

Staked(legs) ==
  CASE legs = <<>>   -> 0
    [] Len(legs) = 1 -> legs[1].stake
    [] Len(legs) = 2 -> legs[1].stake + legs[2].stake

AuthoredRules(p) ==
  LET lists == {p.topRules, IF p.strategy = None THEN None ELSE p.strategy.rules} \ {None, Junk}
      items == UNION {{list[i] : i \in DOMAIN list} : list \in lists}
  IN  items \ {Junk}

\* The acceptor and the evaluator invent no money: what a saved strategy stakes on a
\* market comes from one rule the operator wrote, is its stake times the uplift and
\* the point value, and doubles only where that rule also lays the second favourite;
\* between joint favourites it is shared.
StakesAuthored ==
  saved # None =>
    \A book \in Books :
      LET staked == Staked(Decide(book, saved))
      IN  staked > 0 =>
            \E rule \in AuthoredRules(sent) :
              LET full == 2 * ResolveStake(rule) * Uplift(saved.strategy.controls) * saved.points
              IN  /\ ResolveStake(rule) # None
                  /\ \/ staked = full
                     \/ /\ staked = 2 * full
                        /\ rule.also2nd /\ ~Split(book, saved.strategy.controls)
=============================================================================
