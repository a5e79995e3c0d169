-------------------------- MODULE MCPluginContent --------------------------
(* Instance of PluginContent for TLC: payloads that differ from a sound one *)
(* in one part or two, and books of up to four runners.                     *)
EXTENDS PluginContent, TLC

CONSTANTS plain, messy, other, long, cut, short

\* _safe_name cleans messy to plain.  It cuts long to 64 characters, of which the
\* last is a "_" that it would strip the next time: cut is not a fixed point.
MCUrls == {plain, cut}
MCSafeName ==
  plain :> plain @@ messy :> plain @@ other :> other
    @@ long :> cut @@ cut :> short @@ short :> short

Pair(lo, hi) == [shape |-> "pair", lo |-> lo, hi |-> hi]
Object(lo, hi) == [shape |-> "object", lo |-> lo, hi |-> hi]

Rule(band, base, stake) ==
  [band |-> band, base |-> base, stake |-> stake, gapLt |-> None, gapGte |-> None,
   also2nd |-> FALSE]

Bands == {None, Junk, Pair(150, 300), Pair(300, 150), Pair(50, 250), Pair(80, 50),
          Object(150, 250), Object(0, 250)}
Stakes == {<<None, None>>, <<2, None>>, <<None, 3>>, <<0, 3>>, <<-1, None>>}
Sound == Rule(Pair(150, 250), 2, None)
Short == [Rule(Pair(101, 200), 1, None) EXCEPT !.gapLt = 20]
Wide == [Rule(Pair(101, 400), 3, None) EXCEPT !.gapGte = 20, !.also2nd = TRUE]

\* Every band with every stake, alone and before or after a sound rule.
RuleLists ==
  {None, Junk, <<>>, <<Junk>>, <<Junk, Sound>>, <<Short, Wide>>, <<Wide, Sound>>}
    \union {<<Rule(b, s[1], s[2])>> : b \in Bands, s \in Stakes}
    \union {<<Rule(b, 1, None), Sound>> : b \in Bands}

Controls ==
  {None, Junk, DefaultControls,
   [DefaultControls EXCEPT !.jofs = TRUE, !.uplift = 2],
   [DefaultControls EXCEPT !.spreadControl = TRUE, !.uplift = 0],
   [DefaultControls EXCEPT !.floor = 200],
   [DefaultControls EXCEPT !.ceiling = 101]}

Payload(rules, controls, top, role) ==
  [name |-> plain, nameAlias |-> None, role |-> role, roleAlias |-> None, topRules |-> top,
   strategy |-> IF rules = None /\ controls = None THEN None
                ELSE [rules |-> rules, controls |-> controls],
   points |-> None, sound |-> TRUE]

SoundPayload == Payload(<<Sound>>, None, None, None)

MCPayloads ==
  {Payload(r, None, None, role) : r \in RuleLists, role \in {None, "control"}}
    \union {Payload(None, c, t, role) : c \in {None, DefaultControls},
              t \in {Junk, <<>>, <<Sound>>, <<Rule(None, None, None)>>},
              role \in {None, "modifier"}}
    \union {Payload(r, c, t, None) : r \in {<<Sound>>, <<Short, Wide>>}, c \in Controls,
              t \in {None, <<Wide>>}}
    \union {[SoundPayload EXCEPT !.name = n, !.nameAlias = a] :
              n \in {None, Blank, messy, other, long}, a \in {None, plain, other}}
    \union {[SoundPayload EXCEPT !.name = long, !.strategy.rules = r] :
              r \in {<<Short, Wide>>, <<Rule(Pair(300, 150), None, None)>>}}
    \union {[SoundPayload EXCEPT !.name = None, !.points = p, !.sound = s] :
              p \in {None, Junk, 0, 2}, s \in BOOLEAN}
    \union {[Payload(<<>>, None, None, None) EXCEPT !.role = r, !.roleAlias = a] :
              r \in {None, "strange"}, a \in {None, "control", "rule"}}

Plugin(rules) ==
  [name |-> plain, role |-> "rule", sound |-> TRUE, points |-> 1,
   strategy |-> [rules |-> rules, controls |-> DefaultControls]]

MCShipped == plain :> Plugin(<<Short, Sound>>) @@ cut :> None

Patch(of, field, value) == [of |-> of, field |-> field, value |-> value]
RulePatch(at, field, value) == [of |-> "rule", at |-> at, field |-> field, value |-> value]

MCPatches ==
  {RulePatch(1, "base", None), RulePatch(1, "base", -1), RulePatch(2, "base", 4),
   RulePatch(1, "band", Pair(300, 150)), RulePatch(2, "band", Junk), Patch("controls", "floor", 300), Patch("controls", "ceiling", 101),
   Patch("controls", "jofs", TRUE), Patch("staking", "points", 0)}

Runner(ltp, status) == [ltp |-> ltp, status |-> status]

Book(runners) ==
  [defined |-> TRUE, inPlay |-> FALSE, country |-> None, marketType |-> None,
   runners |-> runners]

Prices == {101, 150, 160, 200, 250, 299}

MCBooks ==
  {Book(<<Runner(p, "ACTIVE"), Runner(q, None)>>) : p \in Prices, q \in Prices}
    \union {Book(<<Runner(p, "ACTIVE")>>) : p \in Prices}
    \union {Book(<<Runner(150, "REMOVED"), Runner(200, None), Runner(None, None),
                   Runner(200, "ACTIVE")>>),
            Book(<<Runner(100, "ACTIVE")>>), Book(<<>>),
            [Book(<<Runner(150, None)>>) EXCEPT !.defined = FALSE],
            [Book(<<Runner(150, None)>>) EXCEPT !.inPlay = TRUE],
            [Book(<<Runner(150, None)>>) EXCEPT !.country = "US"],
            [Book(<<Runner(150, None)>>) EXCEPT !.country = "GB", !.marketType = "PLACE"],
            [Book(<<Runner(150, None)>>) EXCEPT !.country = "GB", !.marketType = "WIN"]}
=============================================================================
