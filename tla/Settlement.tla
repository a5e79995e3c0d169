----------------------------- MODULE Settlement -----------------------------
(***************************************************************************)
(* The settlement poller of LiveEngine (src/engine.py) and what it leaves  *)
(* in the results bucket: one row per settled bet in the JSONL file of its *)
(* day, and a summary per day.  The poller asks Betfair for the bets       *)
(* settled today, records those not known yet, and appends them one by     *)
(* one, while the day ends, counters are reset, writes fail and the        *)
(* process restarts and rereads the files.                                 *)
(*                                                                         *)
(* Which bets are known is LiveEngine's only guard against recording a bet *)
(* twice; it is lost with every reset of the counters.  The poller's task  *)
(* ends of an error it does not catch, or by waking up in mode STOPPED,    *)
(* the mode at boot; nothing but a spin-up that succeeds starts another    *)
(* (both are the subject of StreamLifecycle, here they may come any time). *)
(* A poll brings one page of cleared orders and asks for no other, and a   *)
(* restart keeps no more than the newest rows; within a day any order of   *)
(* settlement is possible.                                                 *)
(***************************************************************************)
EXTENDS Integers, FiniteSetsExt

CONSTANTS
  Bets,
  PageSize,       \* record_count of list_cleared_orders
  HistorySize,    \* _MAX_RECENT_SETTLED
  MaxDays,        \* bound on the days
  MaxRestarts,    \* bound on the restarts of the process
  MaxForgets      \* bound on the times each known settlement is forgotten

ASSUME BetsAssumption == IsFiniteSet(Bets)
ASSUME SizesAssumption == PageSize \in Nat \ {0} /\ HistorySize \in Nat \ {0}
ASSUME BoundsAssumption ==
  MaxDays \in Nat \ {0} /\ MaxRestarts \in Nat /\ MaxForgets \in Nat

VARIABLES
  day,            \* today, UTC
  settledOn,      \* the day the exchange settled each bet; 0 if it has not
  resetDue,       \* midnight has passed and _daily_reset_loop is yet to wake up
  pc,             \* of the poller: sleeping, fetching, fetched, persisting,
                  \* publishing; ended: its task is done, or was never started
  fetchDay,       \* the day it asked for
  report,         \* the bets Betfair answered with
  queue,          \* the bets it is still to append
  snapshot,       \* the summary it is uploading: of which day, how many bets, and
                  \* (history) whether the counters were lost since the last one
  known,          \* _known_settled_bet_ids
  counted,        \* _stats.bets_won + bets_lost + bets_void
  rows,           \* the rows of each bet in the settled/<day>.jsonl of its day
  summary,        \* the settled bets counted by summary/<day>.json
  \* history
  failed,         \* bets whose append failed, since the process started
  restarts,
  forgotten,      \* times each bet was forgotten while a poll could still bring it
  lost            \* the counters were lost since the last snapshot

pollerVars == <<pc, fetchDay, report, queue, snapshot>>
engineVars == <<known, counted, lost>>
bucketVars == <<rows, summary>>
worldVars == <<day, settledOn, resetDue>>
historyVars == <<failed, restarts, forgotten>>
vars == <<day, settledOn, resetDue, pc, fetchDay, report, queue, snapshot, known, counted,
          rows, summary, failed, restarts, forgotten, lost>>

Days == 1..MaxDays
NoSnapshot == [day |-> 1, settled |-> 0, lost |-> FALSE]

SettledOn(d) == {b \in Bets : settledOn[b] = d}
SettledBy(d) == {b \in Bets : settledOn[b] \in 1..d}

----------------------------------------------------------------------------

\* A first start, with an empty bucket.
Init ==
  /\ day = 1
  /\ settledOn = [b \in Bets |-> 0]
  /\ resetDue = FALSE
  /\ pc \in {"sleeping", "ended"} /\ fetchDay = 1 /\ report = {} /\ queue = {}
  /\ snapshot = NoSnapshot
  /\ known = {} /\ counted = 0 /\ lost = FALSE
  /\ rows = [b \in Bets |-> 0]
  /\ summary = [d \in Days |-> 0]
  /\ failed = {} /\ restarts = 0 /\ forgotten = [b \in Bets |-> 0]

----------------------------------------------------------------------------
(* The exchange, and midnight                                              *)

Settle(b) ==
  /\ settledOn[b] = 0
  /\ settledOn' = [settledOn EXCEPT ![b] = day]
  /\ UNCHANGED <<day, resetDue, pollerVars, engineVars, bucketVars, historyVars>>

DayEnds ==
  /\ day < MaxDays
  /\ ~resetDue
  /\ day' = day + 1
  /\ resetDue' = TRUE
  /\ UNCHANGED <<settledOn, pollerVars, engineVars, bucketVars, historyVars>>

----------------------------------------------------------------------------
(* _poll_settlement and _record_settlements                                *)

\* Definitions named X_... are mutants of X: a bug the code could have had, which
\* some property must notice.
Poll_DateTakenOnce ==
  /\ pc = "sleeping"
  /\ pc' = "fetching"
  /\ UNCHANGED <<fetchDay, report, queue, snapshot, worldVars, engineVars,
                 bucketVars, historyVars>>

\* It wakes up, takes today's date and asks for that day in a thread ...
Poll ==
  /\ pc = "sleeping"
  /\ fetchDay' = day
  /\ pc' = "fetching"
  /\ UNCHANGED <<report, queue, snapshot, worldVars, engineVars, bucketVars,
                 historyVars>>

\* ... or finds the mode STOPPED, and returns.
PollerReturns ==
  /\ pc = "sleeping"
  /\ pc' = "ended"
  /\ UNCHANGED <<fetchDay, report, queue, snapshot, worldVars, engineVars,
                 bucketVars, historyVars>>

\* _start_async_pollers, after a spin-up, starts a task in place of one that is done.
StartPoller ==
  /\ pc = "ended"
  /\ pc' = "sleeping"
  /\ UNCHANGED <<fetchDay, report, queue, snapshot, worldVars, engineVars,
                 bucketVars, historyVars>>

\* What one page may hold of those bets, in whatever order Betfair lists them.
FirstPage(bets) ==
  IF Cardinality(bets) <= PageSize THEN {bets}
  ELSE {page \in SUBSET bets : Cardinality(page) = PageSize}

FetchReturns ==
  /\ pc = "fetching"
  /\ report' \in FirstPage(SettledOn(fetchDay))
  /\ pc' = "fetched"
  /\ UNCHANGED <<fetchDay, queue, snapshot, worldVars, engineVars, bucketVars,
                 historyVars>>

\* BetfairServiceError: retried at the next poll.
FetchFails ==
  /\ pc = "fetching"
  /\ pc' = "sleeping"
  /\ UNCHANGED <<fetchDay, report, queue, snapshot, worldVars, engineVars,
                 bucketVars, historyVars>>

Record_CountsReport ==
  LET new == report \ known
  IN  /\ pc = "fetched"
      /\ known' = known \union new
      /\ counted' = counted + Cardinality(report)
      /\ queue' = new
      /\ report' = {}
      /\ pc' = IF new = {} THEN "sleeping" ELSE "persisting"
      /\ UNCHANGED <<fetchDay, snapshot, lost, worldVars, bucketVars, historyVars>>

Record_NotAwaited ==
  LET new == report \ known
  IN  /\ pc = "fetched"
      /\ known' = known \union new
      /\ counted' = counted + Cardinality(new)
      /\ queue' = new
      /\ report' = {}
      /\ pc' = "sleeping"
      /\ UNCHANGED <<fetchDay, snapshot, lost, worldVars, bucketVars, historyVars>>

\* One critical section: the new bets become known and are counted, before any of
\* them is written.
Record ==
  LET new == report \ known
  IN  /\ pc = "fetched"
      /\ known' = known \union new
      /\ counted' = counted + Cardinality(new)
      /\ queue' = new
      /\ report' = {}
      /\ pc' = IF new = {} THEN "sleeping" ELSE "persisting"
      /\ UNCHANGED <<fetchDay, snapshot, lost, worldVars, bucketVars, historyVars>>

\* append_jsonl; the poller is the file's only writer.
Append(b) ==
  /\ pc = "persisting"
  /\ b \in queue
  /\ rows' = [rows EXCEPT ![b] = @ + 1]
  /\ queue' = queue \ {b}
  /\ UNCHANGED <<pc, fetchDay, report, snapshot, worldVars, engineVars, summary,
                 historyVars>>

\* PermissionDenied becomes RuntimeError, which is logged; the next bet follows.
AppendRefused(b) ==
  /\ pc = "persisting"
  /\ b \in queue
  /\ failed' = failed \union {b}
  /\ queue' = queue \ {b}
  /\ UNCHANGED <<pc, fetchDay, report, snapshot, worldVars, engineVars,
                 bucketVars, restarts, forgotten>>

\* Any other error of the bucket, before or after the row was written, ends the task.
AppendRaises(b) ==
  /\ pc = "persisting"
  /\ b \in queue
  /\ rows' \in {rows, [rows EXCEPT ![b] = @ + 1]}
  /\ failed' = failed \union queue
  /\ queue' = {}
  /\ pc' = "ended"
  /\ UNCHANGED <<fetchDay, report, snapshot, worldVars, engineVars, summary,
                 restarts, forgotten>>

\* _publish_daily_summary takes the date and the figures of the moment ...
TakeSnapshot ==
  /\ pc = "persisting"
  /\ queue = {}
  /\ snapshot' = [day |-> day, settled |-> counted, lost |-> lost]
  /\ lost' = FALSE
  /\ pc' = "publishing"
  /\ UNCHANGED <<fetchDay, report, queue, worldVars, known, counted, bucketVars,
                 historyVars>>

Publish_FiguresOfLater ==
  /\ pc = "publishing"
  /\ summary' = [summary EXCEPT ![snapshot.day] = counted]
  /\ pc' = "sleeping"
  /\ snapshot' = NoSnapshot
  /\ UNCHANGED <<fetchDay, report, queue, worldVars, engineVars, rows, historyVars>>

\* ... and uploads them in a thread.
Publish ==
  /\ pc = "publishing"
  /\ summary' = [summary EXCEPT ![snapshot.day] = snapshot.settled]
  /\ pc' = "sleeping"
  /\ snapshot' = NoSnapshot
  /\ UNCHANGED <<fetchDay, report, queue, worldVars, engineVars, rows,
                 historyVars>>

\* The upload is refused, which is logged, or any other error ends the task.
PublishFails ==
  /\ pc = "publishing"
  /\ pc' \in {"sleeping", "ended"}
  /\ snapshot' = NoSnapshot
  /\ lost' = (lost \/ snapshot.lost)
  /\ UNCHANGED <<fetchDay, report, queue, worldVars, known, counted,
                 bucketVars, historyVars>>

----------------------------------------------------------------------------
(* Resets and restarts                                                     *)

\* Forgetting matters for what a poll may still bring: the bets settled today, and
\* those in a report that is under way.
Fetchable == SettledOn(day) \union report
               \union (IF pc = "fetching" THEN SettledOn(fetchDay) ELSE {})

NoteForgotten(bets) ==
  /\ \A b \in bets : forgotten[b] < MaxForgets
  /\ forgotten' = [b \in Bets |-> IF b \in bets THEN forgotten[b] + 1 ELSE forgotten[b]]

ForgetSettlements ==
  /\ known' = {}
  /\ counted' = 0
  /\ lost' = TRUE
  /\ NoteForgotten(known \intersect Fetchable)
  /\ UNCHANGED <<day, settledOn, pollerVars, bucketVars, failed, restarts>>

\* _daily_reset_loop wakes up.
MidnightReset ==
  /\ resetDue
  /\ resetDue' = FALSE
  /\ ForgetSettlements

\* The stream is not connected when it wakes up: it returns instead.
ResetLoopEnds ==
  /\ resetDue
  /\ resetDue' = FALSE
  /\ UNCHANGED <<day, settledOn, pollerVars, engineVars, bucketVars, historyVars>>

\* POST /admin/control/reset-stats
OperatorReset ==
  /\ known # {} \/ counted # 0
  /\ ForgetSettlements
  /\ UNCHANGED resetDue

Reread_Exchange(readable) == SettledOn(day) \union SettledOn(day - 1)
Reread_YesterdayOnly(readable) == {b \in SettledOn(day - 1) : rows[b] > 0}

\* The bets in those files of today and of yesterday that can be read.
Reread(readable) == {b \in Bets : settledOn[b] \in readable /\ rows[b] > 0}

\* The newest of those rows: a list longer than HistorySize is cut, and what it
\* keeps of a day is any of its bets.
Truncated(bets) == MapThenSumSet(LAMBDA b : rows[b], bets) > HistorySize

NewestOf(bets) ==
  IF ~Truncated(bets) THEN {bets}
  ELSE {kept \in SUBSET bets :
          /\ Cardinality(kept) <= HistorySize
          /\ MapThenSumSet(LAMBDA b : rows[b], kept) >= HistorySize
          /\ \A b \in kept, c \in bets \ kept : settledOn[b] >= settledOn[c]}

\* The process dies at any moment; the next one rereads the settled bets
\* (hydrate_recent_settled_from_gcs) before it starts the poller, if its stream comes up.
\* A file it cannot read is skipped.  The counters start at zero.
Restart ==
  /\ restarts < MaxRestarts
  /\ restarts' = restarts + 1
  /\ \E readable \in SUBSET {day - 1, day} :
       /\ known' \in NewestOf(Reread(readable))
       /\ NoteForgotten({b \in SettledOn(day) \ known' :
                           /\ rows[b] > 0
                           /\ day \notin readable \/ Truncated(Reread(readable))})
  /\ counted' = 0
  /\ lost' = TRUE
  /\ pc' \in {"sleeping", "ended"} /\ report' = {} /\ queue' = {} /\ snapshot' = NoSnapshot
  /\ failed' = {}
  /\ resetDue' = FALSE
  /\ UNCHANGED <<day, settledOn, fetchDay, bucketVars>>

----------------------------------------------------------------------------

Poller ==
  \/ Poll \/ PollerReturns \/ FetchReturns \/ FetchFails \/ Record
  \/ \E b \in Bets : Append(b) \/ AppendRefused(b) \/ AppendRaises(b)
  \/ TakeSnapshot \/ Publish \/ PublishFails

Next ==
  \/ \E b \in Bets : Settle(b)
  \/ DayEnds
  \/ Poller
  \/ StartPoller
  \/ MidnightReset \/ ResetLoopEnds
  \/ OperatorReset
  \/ Restart

Spec == Init /\ [][Next]_vars

\* The event loop runs whatever can run, a poller that sleeps wakes up, into a poll or
\* its end, and Betfair answers now and then.  That a poller is started is not promised.
Fairness ==
  /\ WF_vars(Poll \/ PollerReturns)
  /\ WF_vars(FetchReturns \/ FetchFails) /\ SF_vars(FetchReturns)
  /\ WF_vars(Record)
  /\ WF_vars(\E b \in Bets : Append(b) \/ AppendRefused(b) \/ AppendRaises(b))
  /\ WF_vars(TakeSnapshot) /\ WF_vars(Publish \/ PublishFails)

FairSpec == Spec /\ Fairness

----------------------------------------------------------------------------
(* Properties                                                              *)

TypeOK ==
  /\ day \in Days
  /\ settledOn \in [Bets -> 0..MaxDays]
  /\ resetDue \in BOOLEAN
  /\ pc \in {"sleeping", "fetching", "fetched", "persisting", "publishing", "ended"}
  /\ fetchDay \in Days
  /\ report \subseteq Bets /\ queue \subseteq Bets /\ known \subseteq Bets
  /\ failed \subseteq Bets
  /\ snapshot \in [day : Days, settled : Nat, lost : BOOLEAN]
  /\ counted \in Nat /\ lost \in BOOLEAN
  /\ rows \in [Bets -> Nat]
  /\ summary \in [Days -> Nat]
  /\ restarts \in 0..MaxRestarts
  /\ forgotten \in [Bets -> 0..MaxForgets]
  /\ pc # "persisting" => queue = {}
  /\ pc # "fetched" => report = {}

\* The history file of a day holds a bet once, and once more for every time the
\* engine forgot it while a poll could still bring it: by an operator's reset, by a
\* midnight reset that overtakes a poll, or by a restart that could not read the
\* file (_known_settled_bet_ids and hydrate_recent_settled_from_gcs).
RowsJustified == \A b \in Bets : rows[b] <= 1 + forgotten[b]

\* A known bet is never recorded again, so it must have its row: unless the poller
\* is about to append it, or an append failed (which loses the row for as long as
\* the process lives).
KnownHasRow == \A b \in known : rows[b] > 0 \/ b \in queue \union failed

\* The summary a day is left with counts no
\* settlement twice, whatever is polled again, reset or reread: never more than the
\* exchange had settled by then.
SummaryCountsOnce ==
  \A d \in Days : summary[d] <= Cardinality(SettledBy(d))

\* A day's summary is overwritten by smaller figures only if the counters were reset,
\* or lost with the process, since the figures it held were taken.
SummaryKeepsCount ==
  [][\A d \in Days : summary'[d] < summary[d] => snapshot.lost]_vars

\* If from some time on there is a poller that does not end, however many have ended
\* before, of errors or in mode STOPPED, and wherever in a poll: a bet settled today gets
\* its row, if the day lasts long enough, or an append fails, or the day has more bets
\* than fit in a page.
SettledGetsRow ==
  <>[](pc # "ended") =>
    \A b \in Bets :
      (settledOn[b] = day) ~>
        \/ rows[b] > 0 \/ b \in failed \/ settledOn[b] < day
        \/ Cardinality(SettledOn(day)) > PageSize
=============================================================================
