# FSU100 in TLA+

FSU100 is a live lay-betting service: a FastAPI process that keeps a Betfair
stream open, evaluates every market shortly before its off against the active
strategies, places the lay bets they decide on, follows the orders and their
settlements, and lets an operator switch all of that on and off. This directory
models it in TLA+, checks the models with TLC on small instances and proves
their main safety properties with TLAPS. Line numbers are those of
`src/engine.py` unless another file is named.

## The system

### How it runs

- One asyncio event loop runs the HTTP handlers, `set_flag`, and four poller
  tasks (orders, settlement, catalogue, daily reset). A coroutine keeps the loop
  until it awaits something that really suspends it: a REST or bucket call pushed
  to a thread, or a sleep. Publishing an event does not.
- A processing thread takes batches of market books from the stream's queue.
- `POST /api/place`, `/api/cancel`, the pollers' REST calls and the spin-up of the
  stream run in worker threads.
- `LiveEngine._lock` protects single critical sections. What one section checks
  may be false by the next; nearly every hazard below is of this kind.

### Components

| component | state | operations | interacts with | correct when |
|---|---|---|---|---|
| Bets and counters (`engine.py` 1412-1980, `betfair_service.py`) | open orders, statistics, known settlements | cap check, place, record, order poll, settlement poll, reset | the exchange by REST; the flags let it start | the daily cap holds, positions follow the exchange, a settlement counts once |
| Operator controls (340-364, 691-819) | four flags, derived mode | `set_flag`, legacy start/stop, kill switch | reconnects the stream; placing threads read the flags | the last word of the operator holds, the kill switch leaves nothing open |
| Stream lifecycle (651-944, `betfair_service.py` 73-228) | status, session, stream, queue, threads, pollers | `ensure_streaming`, spin-up, shutdown | called by boot and by every flag change | a connected stream is consumed, once; pollers live; shutdown closes all |
| Market feed (1029-1234) | market cache with `evaluated` marks | one pass per book over the active plugins | stream queue, plugins, flags, bets | one decision per market and plugin |
| Settlement history (1782-1979, 2308-2381, `gcs_service.py`) | `settled/<day>.jsonl`, summary, known ids | append, publish, reset at midnight, reread at boot | exchange, bucket | every settlement has one row |
| Strategy store (1985-2463, `plugin_store.py`, `gcs_service.py`) | registry, overrides, strategies, audit log | tune, save, delete, hydrate | bucket, flags, market feed | memory and bucket agree, betting freezes strategies |
| Evaluator (`evaluator.py`) | none | `evaluate` | market feed, `/api/evaluate` | it bets what the matching rule says, no more |
| Event bus (`core/events.py`) | subscribers' queues, activity log | publish, subscribe | everybody publishes, SSE reads | no gaps, order kept, nobody waits for a slow client |
| Acceptor (`core/plugin_normaliser.py`) and the schemas of a plugin | none | normalise and validate a plugin | `PUT /api/strategies` | repairs change no valid content; what is accepted can be evaluated |

Secrets, logging, the other schemas and the read-only endpoints keep no state that
evolves; `PROJECT.json` lists them with the reason they are left out.

What is hard here: overlapping requests around every await, threads acting on a
snapshot of flags, reports that are old when applied, placements whose reply is
lost, midnight and operator resets under a poll, restarts that reread part of
the state, and bucket calls that fail in the middle of a sequence.
`PROJECT.json` lists these hazards, each at its line.

The tests of the repository cover the evaluator, the acceptor and the schemas.
Nothing in them runs two actors at once, restarts a process or fails a call.

## The modules

In every module an action is one critical section, or one stretch of a coroutine
between two awaits, or one call of the exchange or the bucket. `Next` interleaves
them freely. Operators named `X_Something` are variants of `X` with a bug the
code could have had; they are used only to see that a property notices them.

### BetLedger

Workers (the processing thread and API threads) check the cap (`CheckCap`), send
the order (`Accept`, `Reject`), and record it (`RecordPlacement`) or lose the
reply (`LoseReply`). The order poller takes a report (`FetchOrders`) and applies
it later (`ApplyOrdersReport`); the settlement poller likewise (`FetchCleared`,
`RecordSettlements`). Orders match, lapse and settle on the exchange on their own.
A poller that wakes up in mode STOPPED returns (`PollerEnds`), and only a spin-up that
succeeds starts one again (`StartPollers`); the mode is not modelled here, so both may
happen at any time, and no property assumes that anybody polls.
A process starts on any exchange state and with any persisted settlements
(`Init`), and may die at any moment and start again (`Restart`). Which flags allow a
worker to start belongs to BettingControl; the cap is constant, see below.

- `CapOvershootBounded`: `total_stake` exceeds the cap by at most one largest
  stake per other worker, since the check and the record are apart.
- `BudgetKept`: BetLedger implements `SpendCap`, the abstract specification of what
  the cap promises: holders draw on a budget, a grant needs the amount to fit what
  has been spent, is not reserved, and is spent or given back once. The mapping
  takes `totalStake` for what is spent and the stake of a worker past its check for
  what it has been granted. A lost reply gives the grant back, though the order may
  exist: this is what the cap does not count. A restart starts the budget over.
- `ExposureOfPositions`: the exposure shown is that of the positions shown, or
  zero after a reset.
- `NoWrongfulRemoval`: while the process lives, an executable order is dropped only by
  a poll, through a report older than it.
- `OnePollRepairs`: one poll in order is enough to heal what lost replies, stale
  reports, settlements and crashes have done to the open orders. `sync` follows such a
  poll: back to "moved" whenever an order is accepted, recorded, matched or lapses,
  "fetched" when a report is taken after that, "applied" when it is applied. From then
  until the next such move the open orders are the executable orders of the exchange,
  whatever late settlement reports, resets and midnights come in between. That a poll
  comes at all is not promised: the code does not (finding 2).

`DailySpend` extends it with what the engine does not see: the stakes the exchange
took, the replies that were lost, and how often the total went back to zero, by a
reset or by a crash in the middle of anything. It is the module the run explores, and
`DailyIsLedger` carries every theorem about BetLedger over to it.

- `TakenWithinCeilings`: the exchange takes at most one ceiling (the cap and a largest
  stake per other worker) for each life of `total_stake`, and one largest stake per
  lost reply. This is what the cap is worth in money; nothing bounds the losses.

### BettingControl

A request is a coroutine with a script of flag settings; `SetNextFlag` makes one
and goes on, or suspends in a spin-up of the stream if the stream is down. A spin-up
that succeeds starts a processing thread (`processing`), and nothing ends one short of
the process; before the first there is no automatic bet.
`BeginEmergencyStop` turns all flags off, `CancelAllOrders` cancels. Placers take
a `Snapshot`, then `Transmit` bets one by one, however the flags change.

- `LeakBounded`: bets sent against the flags are those of one snapshot.
- `KillLeavesNothing`, `KillSwitchFinal`: what the kill switch guarantees, and
  under which conditions (no placer at work at the cancellation; the stream up
  since boot). Without the second condition a start suspended in a spin-up turns
  betting on after the kill switch.
- `SolitaryRequestTakesEffect`: a request no other overlaps has its effect.
- `RequestsFinish` (liveness): every request is answered.

### StreamLifecycle

Requests run `ensure_streaming`: `SetFlag` tests the status, then `Connecting`,
`Login`, `StartStream`, `Attach` in a thread, and `Resume` on the loop, with
failures at each step. The stream's thread may die (`StreamDies`), pollers end as
they do in the code, the lifespan handler stops the service.

- `ConnectedIsConsumed`: while the status is CONNECTED the newest queue has a reader.
- `SpinUpsApart`: without overlapping spin-ups it has only one, and the midnight reset
  and the catalogue poller never end.
- `ShutdownClosesSession`; `ConnectingEnds` (liveness).

### MarketFeed

A processing thread takes a book and replaces the cache entry (`TakeBook`), reads
the plugins, tests the window (`ReadPlugins`, `Expire`), reads the flags, marks
the market (`Mark`) and evaluates plugin by plugin; an exception drops the book.
Plugins, flags and the process change at any time. What a plugin decides is left
open: a superset of what the evaluator does.

- `BetOncePerProcess`: a thread decides once per plugin, market and process life,
  although other threads replace the cache entry that holds the mark.

### Settlement

The poller takes the date (`Poll`), receives one page of the bets settled on it
(`FetchReturns`), records the new ones in one critical section (`Record`), appends
their rows one await at a time, and publishes the summary: it takes date and figures
(`TakeSnapshot`) and uploads them later (`Publish`). Appends and uploads are refused
(`RuntimeError`, logged) or raise (the task ends). A poller that wakes up in mode
STOPPED ends as well (`PollerReturns`); a spin-up starts one in its place
(`StartPoller`). Midnight, the operator and
restarts forget settlements; a restart rereads the readable files and keeps the
newest rows up to the history limit.

- `RowsJustified`: a bet has no more rows than one, plus one for each time it was
  forgotten while a poll could still bring it.
- `KnownHasRow`: a bet that will never be recorded again has its row.
- `SummaryCountsOnce`: a day's summary never counts more than had settled by then.
- `SummaryKeepsCount`: a day's summary is overwritten by less only where the
  counters were lost since the figures it held were taken.
- `SettledGetsRow` (liveness): if from some time on there is a poller that does not
  end, a settled bet gets its row while its day lasts, unless an append fails or the
  day has more bets than a page. Both conditions are real: a poller that has ended
  stays ended while the stream is connected, and the code asks for the first page
  only. What is shown is that a poller started again, after any number that ended
  wherever in a poll, owes nothing that its predecessors left undone but failed appends.

### StrategyStore

Requests tune, save and delete; every call of the bucket is an action, with the
coroutine's next step after it, so anything may come between. Uploads and
deletions may raise after having had their effect. A deletion wipes the registry
(`Refresh`), lists the bucket and reads the strategies back one by one. A restart
hydrates overrides, then strategies, of any readable subset. A strategy's content
is the number of the edit that made it.

- `AuthoredVisible`: no overlap of requests leaves a stored strategy out of memory.
- `RestartKeeps`: a restart serves what memory served. It has two exceptions, both
  behaviours of the code: the override of an authored strategy is shadowed by the
  strategy's own blob, and a deletion forgets the overrides until the restart.
- `AuditKeeps`: no audit row is lost until two appends overlap.
- `FrozenButForLate`: under betting only requests admitted before it change a
  strategy. The flags are not read again after the awaits, so these do.

### EventBus

Threads hand events to the loop (`PublishThreadsafe`), which runs them in order
(`RunScheduled`); coroutines publish at once (`PublishNow`), ahead of those. `Publish`
is the critical section: ring, queues, and the drop of the subscribers whose queue is
full. A connection subscribes, sends what its queue holds, and closes.

- `FeedDelivered`: EventBus implements `Broadcast`, the abstract specification of what
  connections are promised: one log that listeners read in order from where they
  joined; one that is a full queue behind when the next event comes is cut off there
  and may read what it was owed. The mapping forgets publishers, loop and queues: a
  listener's stretch of the log ends where what it was sent and its queue reach.
- `PublisherOrder`: no event is lost before it is published, and each publisher's
  keep their order.
- `EventsArrive` (liveness): an event handed over reaches each subscriber that reads
  and stays, though another client never reads.

### Evaluator and PluginContent

`Evaluator` is `evaluate` as operators: the runners that count, favourite and second
by a stable sort, the first rule that matches, the returns without a bet in their
order, the legs. `PluginContent` is the life of a strategy's content: a payload is
repaired by the Acceptor (`Normalise`), validated (`Valid`), checked for its name and
saved (`Accept`); tunings set fields in memory without validation (`Tune`); a portal
sends back what it was served (`Resend`); a restart validates what it reads
(`Hydrate`). The bets of the result are what `Evaluator` says on every book of a
small set. It is the composition of the acceptor, the schemas, the store's content
and the evaluator; concurrency and failures of the same operations are in
StrategyStore.

- `AcceptedEvaluates`: no book makes the evaluation raise, which would drop the rest
  of its batch, but after a tuning no validation has seen.
- `RepairsConservative`: a strategy valid as sent bets as it would have without the
  repairs. Its one exception, an inverted band, is the code's.
- `ResendHarmless`: sending a strategy back changes no bet, and is refused only for
  what tunings made invalid or for a name that `_safe_name` does not preserve. The
  exception is again an inverted band, which a tuning can set and a resend swaps.
- `StakesAuthored`: a market is staked what one rule of the author says, times uplift
  and point value, once per leg that rule asks for, and shared between joint
  favourites.

## The runs

`CHECK_DEADLOCK FALSE` stands where the bounds, or the system itself, let the model
stop: used-up bet ids, closed service, last day.

| run | instance | question |
|---|---|---|
| `ledger` | 2 workers, 3 bets of stake 1 of which one settles or lapses, cap 1, one reset or crash, symmetric; from an empty exchange, what a later process finds being what a crash left | counters, positions, cap, its abstraction, the money taken, repair |
| `control` | 2 requests of 3 kinds, kill switch, batch of 2, 1 API thread | flags, kill switch and leaks |
| `control_dry_start` | only `start_dry_run` requests | *violated*: a live bet is sent |
| `stream` | 3 request slots, 2 streams, 4 processing threads | overlapping spin-ups, pollers, shutdown |
| `stream_pollers` | 2 slots | *violated*: pollers do not run as long as the stream |
| `stream_reconnect` | 2 slots, operators ever busy, fair | *violated*: a dead stream is not reconnected |
| `feed` | 2 threads, 1 market, a wide and a tight window, 1 restart | evaluated marks |
| `feed_tighter` | 1 thread, same plugins | *violated*: the tighter plugin is never evaluated |
| `settlement` | 2 bets, a page and a history of one, 2 days, 2 restarts, each bet forgotten once at most, a poller that ends and starts, fair | the history files and the summaries |
| `store` | 2 requests, a shipped and an authored name, 2 edits, 2 restarts | memory, bucket, audit log |
| `bus` | 2 threads, a coroutine, 4 events, 2 clients of which one may stop reading, queues and ring of 2, fair | delivery and order |
| `plugin` | 2 edits, under a shipped name or under one `_safe_name` does not preserve; payloads that are wrong in one part or two, 7 tunings | what is accepted, and what it bets |

Why these bounds are enough to be of interest. Two workers pass the
check together on a cap of one stake, and `total_stake` then reaches two, the bound of
`CapOvershootBounded`, which is thus attained. That is also one ceiling, so the third
bet is beyond it: it is taken after a reset or a crash, and after a lost reply, and
`TakenWithinCeilings` fails in the run without either of its two terms. A crash leaves
orders, matched and settled bets to the next process, and a lost reply leaves an order
to adopt to the same one. The constraint `OneLeaves` lets one bet at most settle or
lapse, which is enough to remove one while others stay; the permutations of workers
and of bets are symmetries, as every property of the run treats them alike and none is
a liveness property. Two requests are what it takes to overlap; a third slot in
`stream` is the lifespan handler's. Two streams and four threads let two spin-ups
overlap and a third fail. One market is enough for two threads to race on a mark; a
window of two and one of one put a plugin off. Two bets overflow a page and a history
of one; two days and two restarts allow a forgetting by midnight, by the operator and
by an unreadable file in one behaviour. Two edits of two requests tune and save the
same or different strategies. Four events overflow a queue of two with one to come.
Two edits save and then tune, save again or send back, with restarts anywhere. The
theorems remove the bounds from what they state.

### Fairness

Liveness is checked under weak fairness of what the event loop and the threads must
do: a coroutine that can run runs, a call in a thread returns or fails. In
`control` resuming is strongly fair, since the loop's ready queue is first in,
first out and new requests cannot starve it. In `bus` the loop runs what is
scheduled and the clients in `Readers` keep reading; nobody has to publish. In `settlement` a
sleeping poller wakes up, into a poll or into its end, and a fetch that is retried
forever succeeds eventually (strong fairness of `FetchReturns`), without which no
property of recording can hold; that a poller is started again is not assumed.
`ledger` has neither fairness nor liveness: its pollers need never poll. Nothing obliges the exchange, the
operator or a midnight to act, but in `stream_reconnect`, where operators are
assumed to go on changing flags: the stream is not reconnected even so.

### Findings

Four documented behaviours are not what the code does; each has a run whose
counterexample shows it, and an entry in `PROJECT.json` that quotes the document.

1. DRY_RUN places no bets, says the README; `start_dry_run` passes through LIVE, where
   the running processing thread of a connected stream can handle a book.
2. Pollers are said to run as long as the stream is up; two of them end in STOPPED
   and are not started again.
3. The engine is said to reconnect on failure regardless of flags; it does not
   notice that the stream died.
4. A plugin with a tighter window is to be picked up on a later book; the market is
   marked by then.

Met while modelling, and expressed by the form of a property that holds rather than by
a run of their own:

- The daily cap is called a hard ceiling (`CHANGELOG.md` 267-270). With two placing
  threads it is not: `CapOvershootBounded` is tight (the `ledger` run attains it), and `CapIsHardCeiling` is a
  theorem for one thread only; `CapHoldsAlone` says when it holds of the exchange.
- A day's summary is said to survive restarts (`README.md` 254-255). It is overwritten
  with less after one, exactly when the counters were lost (`SummaryKeepsCount`).
- `subscribe` says it yields events "for the lifetime of the connection"
  (`core/events.py` 117). A dropped subscriber stays open and gets nothing more.
- Parked, no-op and disabled rules are said to avoid "a real bet" (`CHANGELOG.md`
  72-75). The evaluator never reads `enabled`: such a rule matches, shadows the rules
  after it, and yields a decision of stake 0, or of its stake if it has one.
- `_ensure_name` says the hint comes first (`core/plugin_normaliser.py` 139); a name in
  the payload wins. `_safe_name` can change a name it made itself when it cuts it to 64
  characters, so that a strategy of that name cannot be sent back.
- `_coerce_odds_band` swaps before it raises the lower bound to 1.01, so a band below
  1.01 comes out inverted, and is swapped the next time it is sent.
- A tuning is never validated. A stake tuned to null makes the evaluation raise and
  drops the rest of the batch of books; a strategy in that state that is sent back is
  parked at stake 0; an override that does not validate is passed over whole at a
  restart. A tuned `staking.point_value` is used by `/api/evaluate` only.
- `mark_uplift` 0 acts as 1; `hard_ceiling` is not applied to the second leg.

## The proofs

Each module `X` has its theorems in `XProofs`, for any finite sets and bounds that
satisfy the named assumptions of `X`, which TLC evaluates in every run. All are
inductive-invariant arguments; every proof of a step goes action by action.

- **BetLedger**. `TypeOKHolds` needs in addition that a worker under way holds a
  stake that fits under the cap (`WorkersOK`). `CapOvershootHolds` is the one that
  needs an idea: `CapIInv` keeps a witness, the worker whose cap check came last;
  its stake fitted on top of the total of that moment, and whatever was recorded
  since was in flight then, one stake per other worker. `OneWorkerNeverExceedsCap`
  is its corollary with one worker. `NoWrongfulRemovalHolds` rests on `ReportsOK`:
  a report may be old, but never ahead of the exchange. `KnownCountedHolds`: the
  counters and the known settlements agree. `ExposureHolds` is inductive with the
  types. `OnePollRepairsHolds` needs what a report says while no executable order moves
  (`PollInv`: in "fetched" it lists the executable orders of the exchange), and
  `ReportsOK`, by which a settlement report never names one. `BudgetKeptHolds` is the refinement: `Init` maps to SpendCap's, and each
  action to a grant, a spending, a giving back, a renewal, a start over or a stutter.
  `TakenWithinCeilingsHolds` (DailySpend) adds stakes up as sizes of sets of units,
  since a recursive sum would need induction: what was taken is counted, on its way,
  lost, or of an earlier life (`SpendInv`), and what is counted or on its way fits one
  ceiling (`CountedFits`, from `CapIInv`).
- **BettingControl**. `TypeCorrect` includes `SessionOK`: a connected status has a
  processing thread and a session behind it. `LeakIInv`: bets sent against the flags, with those left of
  the snapshot, never exceed a batch. `CleanIInv` and `FinalIInv` say what a kill
  switch leaves behind: no open order and no snapshot; and, with the stream up, no
  request with settings left to make. `SolitaryIInv` relates the flags to the part
  of the script a lone request has made.
- **StreamLifecycle**. `ConnectedIInv` states who is about to attach to the newest
  queue and that a request past its login has a session; `Quiet` what is left after
  the shutdown begins; `OneSpinUp` that without overlap one request at most is under
  way and finds no thread.
- **MarketFeed**. `MarksStayHolds`, that no market loses its mark but to a restart,
  needs no strengthening. `BetIInv` says that where a thread may still bet, on a
  market not marked or with the book it holds, it has not in this process; a plugin
  leaves `todo` as it is evaluated.
- **Settlement**. `RowsInv` counts a row in the queue as a row, and adds
  `UnknownOwed`: a bet that a poll can still bring and that is not known has been
  forgotten for every row it has. `KnownHasRow` is inductive with the types.
  `ExactlyOnceHolds` puts the two together. `SummaryInv` bounds the counters, the snapshot and the summaries alike by what had
  settled by their day; a bet is counted as it becomes known (`CountStep`), so once.
  `KeepInv` compares each summary with the counters until they are lost, which a
  snapshot carries along until its upload has succeeded.
- **StrategyStore**. `VisibleInv` says of each stored strategy that it is in memory
  or on its way: its save is about to upsert it, or a deletion has not read it yet.
  `AuditInv`: a request that has read the log holds all of it. `LateInv`: under
  betting every request under way is a late one. `KeepInv` is the long one: while no
  request overlaps another and nothing fails, `StageKept` says at each stage of the one
  request which names are as a restart would serve them and what its next steps repair
  on the others, and `Provenance` where contents come from, so that a mismatch a
  deletion leaves can only be a tuning (`Kept`).
- **EventBus**. `NoGaps` (what a connection was sent, followed by its queue, is the log
  from its subscription) is inductive with the types; the work is in appending to the
  log and to a queue and in moving an event from a queue to what was sent. It is what
  `FeedDeliveredHolds`, the refinement of Broadcast, rests on: each action maps to a
  publication, a join, a reading, a leaving or a stutter.
  `PublisherOrder` needs that the events of each publisher carry the numbers up to
  `issued`. `ActivityFeedNewest`: the ring is the end of the log, reversed.
- **PluginContent** (with Evaluator). `AcceptedEvaluatesHolds` needs that what memory
  holds unless tuned, and what the bucket holds of saved strategies, validates; a valid
  strategy has a stake in every rule, so in the one selected. `FavouriteIsShortest`,
  `BetsOnActiveRunners` and `FirstMatchDecides` are what `evaluate` returns on any book
  of finitely many runners: that its sorted heads and first match are what their names
  say rests on the least element of a set of naturals, by the well-founded order of
  the library.
  `OriginInv`: what is saved is the payload sent last, repaired, and it validates. A
  repair of a valid rule touches only its band, and that only below 1.01 or where it is
  inverted (`RepairedRule`, `RepairMatches`), so no price tells the two rules apart;
  rule by rule this is `RepairsConservativeHolds`. What is served is a fixed point of
  the repairs but for such bands (`DumpNormalised`): `ResendHarmlessHolds`. Every rule
  of a saved strategy that stakes something is, in its stake and its second leg, a rule
  of the payload (`RulesAuthored`): `StakesAuthoredHolds`. `Dicts`, the list without what
  is no object, ranks positions with `Cardinality` since a recursive filter would need
  induction over the list. Payloads, tunings and books range over any values of the
  types `InputsAssumption` names.

Only model-checked: the liveness properties, since liveness under fairness is out of
the prover's reach.

## What is abstracted

All orders of BetLedger have one price. In Settlement the rows of a day are paged and
cut in any order, a superset of the order of settlement. The audit log is one file
with one row per tuning. A strategy's content is a number in StrategyStore and is
spelled out in PluginContent, which has one request at a time; MarketFeed takes what a
plugin decides for a free choice. In the evaluator prices are integers in hundredths
and stakes halves of a point: rounding to the penny and binary fractions are left out.
In PluginContent a key with the value null is the same as a missing one, a tuning names
a rule by its position, and sets controls and staking to values of their kind.

## Not modelled

Reading the market catalogue (names for display), credentials, logging, the layout of
answers, the endpoints that only read, and the fields of a plugin that no decision
reads. `keep_alive`, account funds and profit and loss read Betfair and change nothing.
`_teardown_session` and `clear_activity` have no caller. A runtime configuration is
modelled where something depends on it (the active plugins in MarketFeed, the cap as a
constant of BetLedger). A change of the cap is not: a process starts with the cap off
(`engine.py` 316) and with all betting off, and what BetLedger says of the cap it says
of operators who set it before they turn betting on, and then leave it. Of the shares of
the implementation the map does not name, most are declarations of request and answer
types, endpoints that copy state out, and logging.

## Plan

Written, in this order: BetLedger (with DailySpend), BettingControl, StreamLifecycle, MarketFeed,
Settlement, StrategyStore, then EventBus (with Broadcast), SpendCap, Evaluator and PluginContent, each
with its proofs: first what handles money and the operator's control over it, then what
feeds it, then what persists, then what it says.

Left: an abstract journal of settlements, at least once with bounded repetition, and
strategies as a last-write-wins register without overlap, with their refinements; a cap
that changes while placements are under way.
