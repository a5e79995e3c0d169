----------------------------- MODULE MarketFeed -----------------------------
(***************************************************************************)
(* How LiveEngine's processing threads turn market books into bets         *)
(* (src/engine.py, _handle_market_book): the market cache and its          *)
(* evaluated marks, the pre-off windows of the active plugins, and the     *)
(* snapshot of plugins and flags a thread works on while both may change.  *)
(*                                                                         *)
(* Each critical section is one action.  There is one processing thread,   *)
(* or one more per spin-up of the stream that overlapped another (see      *)
(* StreamLifecycle), all reading one queue.  The stream may send any book  *)
(* at any time; what a plugin's evaluation decides is left open.           *)
(***************************************************************************)
EXTENDS Integers, FiniteSets

CONSTANTS
  Threads,        \* the processing threads of the process
  Markets,
  Plugins,
  Window,         \* parser.time_before_off_seconds of each plugin
  MaxTime,        \* bound on a book's seconds to off
  MaxRestarts     \* bound on the restarts of the process

ASSUME ThreadsAssumption == IsFiniteSet(Threads) /\ Threads # {}
ASSUME MarketsAssumption == IsFiniteSet(Markets) /\ Markets # {}
ASSUME WindowAssumption ==
  /\ MaxTime \in Nat /\ MaxRestarts \in Nat
  /\ Window \in [Plugins -> 0..MaxTime]

VARIABLES
  cache,          \* _market_cache: what is known of each market
  processed,      \* _stats.markets_processed
  active,         \* the active plugins that are installed
  betting,        \* what the flags let a processing thread do with a bet
  pc,             \* where each thread is in _handle_market_book
  book,           \* the book in its hands
  todo,           \* the plugins it is still to evaluate on it
  bettingSeen,    \* the flags as it read them
  \* history
  restarts,       \* of the process
  bets,           \* live bets by a thread, for a plugin on a market, ever
  skipped         \* plugins put off to a later book of a market

engineVars == <<cache, processed>>
operatorVars == <<active, betting>>
historyVars == <<restarts, bets, skipped>>
vars == <<cache, processed, active, betting, pc, book, todo, bettingSeen, restarts,
          bets, skipped>>

\* A book is usable unless it lacks a definition or a time, or the race is running.
\* Its time to off is 0 at the off and ever after.
Books == [market : Markets, toOff : 0..MaxTime, usable : BOOLEAN]

BettingModes == {"off", "dry", "live"}

InWidestWindow(time) == \E p \in active : time <= Window[p]

----------------------------------------------------------------------------

\* Every flag is off, the cache empty, and the default plugin active.
Init ==
  /\ cache = [m \in Markets |-> "absent"]
  /\ processed = 0
  /\ \E p \in Plugins : active = {p}
  /\ betting = "off"
  /\ pc = [t \in Threads |-> "idle"]
  /\ \E m \in Markets :
       book = [t \in Threads |-> [market |-> m, toOff |-> 0, usable |-> FALSE]]
  /\ todo = [t \in Threads |-> {}]
  /\ bettingSeen = [t \in Threads |-> "off"]
  /\ restarts = 0
  /\ bets = [t \in Threads |-> [m \in Markets |-> [p \in Plugins |-> 0]]]
  /\ skipped = {}

----------------------------------------------------------------------------
(* _handle_market_book                                                     *)

\* Definitions named X_... are mutants of X: a bug the code could have had, which
\* some property must notice.
TakeBook_ForgetsEvaluated(t) ==
  /\ pc[t] = "idle"
  /\ \E b \in Books :
       /\ book' = [book EXCEPT ![t] = b]
       /\ cache' = [cache EXCEPT ![b.market] = "seen"]
       /\ pc' = [pc EXCEPT ![t] =
                   IF cache[b.market] = "evaluated" \/ ~b.usable THEN "idle" ELSE "plugins"]
  /\ UNCHANGED <<processed, operatorVars, todo, bettingSeen, historyVars>>

\* The cache entry is replaced, its evaluated mark carried over.  A book of an
\* evaluated market, or an unusable one, goes no further.
TakeBook(t) ==
  /\ pc[t] = "idle"
  /\ \E b \in Books :
       /\ book' = [book EXCEPT ![t] = b]
       /\ cache' = [cache EXCEPT ![b.market] = IF @ = "evaluated" THEN @ ELSE "seen"]
       /\ pc' = [pc EXCEPT ![t] =
                   IF cache[b.market] = "evaluated" \/ ~b.usable THEN "idle" ELSE "plugins"]
  /\ UNCHANGED <<processed, operatorVars, todo, bettingSeen, historyVars>>

\* The active plugins, read once per book; outside the widest of their windows
\* the book goes no further.
ReadPlugins(t) ==
  /\ pc[t] = "plugins"
  /\ \/ /\ ~InWidestWindow(book[t].toOff)
        /\ pc' = [pc EXCEPT ![t] = "idle"]
        /\ UNCHANGED todo
     \/ /\ InWidestWindow(book[t].toOff)
        /\ pc' = [pc EXCEPT ![t] = IF book[t].toOff = 0 THEN "expired" ELSE "flags"]
        /\ todo' = [todo EXCEPT ![t] = IF book[t].toOff = 0 THEN {} ELSE active]
  /\ UNCHANGED <<engineVars, operatorVars, book, bettingSeen, historyVars>>

\* At the off the market is marked without being evaluated.
Expire(t) ==
  /\ pc[t] = "expired"
  /\ cache' = [cache EXCEPT ![book[t].market] = "evaluated"]
  /\ pc' = [pc EXCEPT ![t] = "idle"]
  /\ UNCHANGED <<processed, operatorVars, book, todo, bettingSeen, historyVars>>

\* The flags, read once per book.
ReadFlags(t) ==
  /\ pc[t] = "flags"
  /\ bettingSeen' = [bettingSeen EXCEPT ![t] = betting]
  /\ pc' = [pc EXCEPT ![t] = "marking"]
  /\ UNCHANGED <<engineVars, operatorVars, book, todo, historyVars>>

Mark_OnlyWhenBetting(t) ==
  /\ pc[t] = "marking"
  /\ cache' = IF bettingSeen[t] = "live"
              THEN [cache EXCEPT ![book[t].market] = "evaluated"] ELSE cache
  /\ processed' = processed + 1
  /\ pc' = [pc EXCEPT ![t] = "evaluating"]
  /\ UNCHANGED <<operatorVars, book, todo, bettingSeen, historyVars>>

\* The market is marked and counted before any plugin is evaluated.
Mark(t) ==
  /\ pc[t] = "marking"
  /\ cache' = [cache EXCEPT ![book[t].market] = "evaluated"]
  /\ processed' = processed + 1
  /\ pc' = [pc EXCEPT ![t] = "evaluating"]
  /\ UNCHANGED <<operatorVars, book, todo, bettingSeen, historyVars>>

\* One plugin: put off if its own window is tighter, evaluated otherwise; a live
\* decision is sent unless the evaluation finds no bet or the bet is refused.
EvaluatePlugin(t, p) ==
  LET m == book[t].market
  IN  /\ pc[t] = "evaluating"
      /\ p \in todo[t]
      /\ \/ /\ book[t].toOff > Window[p]
            /\ skipped' = skipped \union {<<m, p>>}
            /\ UNCHANGED bets
         \/ /\ book[t].toOff <= Window[p]
            /\ skipped' = skipped \ {<<m, p>>}
            /\ \/ UNCHANGED bets
               \/ /\ bettingSeen[t] = "live"
                  /\ bets' = [bets EXCEPT ![t][m][p] = @ + 1]
      /\ todo' = [todo EXCEPT ![t] = @ \ {p}]
      /\ UNCHANGED <<engineVars, operatorVars, pc, book, bettingSeen, restarts>>

DropBook(t) ==
  /\ pc' = [pc EXCEPT ![t] = "idle"]
  /\ todo' = [todo EXCEPT ![t] = {}]
  /\ bettingSeen' = [bettingSeen EXCEPT ![t] = "off"]
  /\ UNCHANGED <<engineVars, operatorVars, book, historyVars>>

FinishBook(t) ==
  /\ pc[t] = "evaluating"
  /\ todo[t] = {}
  /\ DropBook(t)

\* An evaluation raises: the processing loop catches it, and the rest of the
\* plugins (and of the batch of books) is never looked at.
EvaluationRaises(t) ==
  /\ pc[t] = "evaluating"
  /\ todo[t] # {}
  /\ DropBook(t)

----------------------------------------------------------------------------
(* Operators, and a restart of the process                                 *)

\* PUT /admin/config; a strategy that is deleted or saved.
SetActive ==
  /\ active' \in SUBSET Plugins
  /\ UNCHANGED <<engineVars, betting, pc, book, todo, bettingSeen, historyVars>>

SetFlags ==
  /\ betting' \in BettingModes
  /\ UNCHANGED <<engineVars, active, pc, book, todo, bettingSeen, historyVars>>

\* Everything the engine holds of markets is in memory.
Restart ==
  /\ restarts < MaxRestarts
  /\ restarts' = restarts + 1
  /\ cache' = [m \in Markets |-> "absent"]
  /\ processed' = 0
  /\ betting' = "off"
  /\ \E p \in Plugins : active' = {p}
  /\ pc' = [t \in Threads |-> "idle"]
  /\ todo' = [t \in Threads |-> {}]
  /\ bettingSeen' = [t \in Threads |-> "off"]
  /\ skipped' = {}
  /\ UNCHANGED <<book, bets>>

----------------------------------------------------------------------------

HandleBook(t) ==
  \/ TakeBook(t) \/ ReadPlugins(t) \/ Expire(t) \/ ReadFlags(t) \/ Mark(t)
  \/ \E p \in Plugins : EvaluatePlugin(t, p)
  \/ FinishBook(t)
  \/ EvaluationRaises(t)

Next ==
  \/ \E t \in Threads : HandleBook(t)
  \/ SetActive
  \/ SetFlags
  \/ Restart

Spec == Init /\ [][Next]_vars

----------------------------------------------------------------------------
(* Properties                                                              *)

\* The types of the variables; a market is marked while plugins are evaluated on it.
TypeOK ==
  /\ cache \in [Markets -> {"absent", "seen", "evaluated"}]
  /\ processed \in Nat
  /\ active \subseteq Plugins
  /\ betting \in BettingModes
  /\ pc \in [Threads -> {"idle", "plugins", "expired", "flags", "marking", "evaluating"}]
  /\ book \in [Threads -> Books]
  /\ todo \in [Threads -> SUBSET Plugins]
  /\ \A t \in Threads : pc[t] = "evaluating" => cache[book[t].market] = "evaluated"
  /\ bettingSeen \in [Threads -> BettingModes]
  /\ restarts \in Nat
  /\ bets \in [Threads -> [Markets -> [Plugins -> Nat]]]
  /\ skipped \subseteq Markets \X Plugins

\* No idempotency key goes to the exchange, so the evaluated mark alone keeps the
\* books of a market from being bet on again.  It holds a processing thread to one
\* decision per plugin and market for as long as the process lives, and no longer.
BetOncePerProcess ==
  \A t \in Threads, m \in Markets, p \in Plugins : bets[t][m][p] <= restarts + 1

\* _handle_market_book, on a plugin whose window is tighter than the widest one:
\* "skip it on this book and pick it up on a later one".  So no later book within
\* its window may be turned away while the plugin still waits for it.
TighterWindowPickedUp ==
  \A t \in Threads, p \in active :
    pc[t] = "idle" /\ book[t].usable /\ <<book[t].market, p>> \in skipped =>
      book[t].toOff \notin 1..Window[p]
=============================================================================
