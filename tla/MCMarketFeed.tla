---------------------------- MODULE MCMarketFeed ----------------------------
(* Instances of MarketFeed for TLC: a wide and a tight window. *)
EXTENDS MarketFeed, TLC

CONSTANTS t1, t2, m1, m2, wide, tight

MCThreads == {t1, t2}
MCOneThread == {t1}
MCMarkets == {m1, m2}
MCOneMarket == {m1}
MCPlugins == {wide, tight}
MCWindow == (wide :> 2) @@ (tight :> 1)

MCSymmetry == Permutations(MCThreads) \union Permutations(MCMarkets)
=============================================================================
