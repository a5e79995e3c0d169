--------------------------- MODULE BettingControl ---------------------------
(***************************************************************************)
(* The operator's controls of LiveEngine: the four behaviour flags, the    *)
(* requests that change them, the kill switch, and the threads that place  *)
(* bets on a snapshot of the flags they took earlier.                      *)
(*                                                                         *)
(* Requests are coroutines on one event loop: a request runs until it      *)
(* awaits something that suspends it.  set_flag suspends only when the     *)
(* stream is not connected, for the whole of _spin_up_session (login,      *)
(* subscription) in a thread; emergency_stop suspends for the platform     *)
(* cancel.  Placers are threads of their own and interleave with every     *)
(* step.                                                                   *)
(***************************************************************************)
EXTENDS Integers, Sequences, FiniteSets

CONSTANTS
  Requests,       \* slots for concurrent control requests
  Scripts,        \* the requests operators send: sequences of flag settings
  auto,           \* the processing thread
  Manual,         \* threads serving POST /api/place
  MaxBatch,       \* bets one market book may trigger, over all active plugins
  MaxOpen         \* bound on the orders open on the exchange

ASSUME RequestsAssumption == Requests # {} /\ IsFiniteSet(Requests)
ASSUME PlacersAssumption == IsFiniteSet(Manual) /\ auto \notin Manual
ASSUME BatchAssumption == MaxBatch \in Nat \ {0} /\ MaxOpen \in Nat \ {0}

VARIABLES
  flags,          \* _auto_betting, _manual_betting, _dry_run, _recording
  streamUp,       \* _stream_status is CONNECTED
  authenticated,  \* BetfairService.is_authenticated
  processing,     \* a processing thread has been started (_processing_thread)
  pc,             \* where each request is
  script,         \* the settings it is still to make
  goal,           \* the settings it was sent with
  left,           \* live bets a placer is still to send under its snapshot
  open,           \* orders of the engine open on the exchange
  \* history
  bootUp,         \* the stream came up at boot
  leak,           \* orders a placer sent since the flags last permitted it
  killLast,       \* an emergency stop was hit and no request has begun since
  clean,          \* cancel_all_orders succeeded with no placer at work, and
                  \* betting is off since
  alone           \* no other request has overlapped this one

historyVars == <<bootUp, leak, killLast, clean, alone>>
streamVars == <<streamUp, authenticated, processing>>
requestVars == <<pc, script, goal>>
vars == <<flags, streamUp, authenticated, processing, pc, script, goal, left, open,
          bootUp, leak, killLast, clean, alone>>

Flags == {"auto_betting", "manual_betting", "dry_run", "recording"}
Placers == {auto} \union Manual
Settings == Flags \X BOOLEAN       \* a flag and the value to give it

\* The legacy controls; set_flag alone is a script of length one.
StartLive   == << <<"dry_run", FALSE>>, <<"auto_betting", TRUE>> >>
StartDryRun == << <<"auto_betting", TRUE>>, <<"dry_run", TRUE>> >>
Stop        == << <<"auto_betting", FALSE>>, <<"manual_betting", FALSE>>,
                  <<"dry_run", FALSE>> >>
SetFlag(f, v) == << <<f, v>> >>

AllOff == << <<"auto_betting", FALSE>>, <<"manual_betting", FALSE>>,
             <<"dry_run", FALSE>>, <<"recording", FALSE>> >>

\* A request names a flag once at most.
ASSUME ScriptsAssumption ==
  /\ Scripts \subseteq Seq(Settings)
  /\ \A s \in Scripts : \A i, j \in DOMAIN s : s[i][1] = s[j][1] => i = j

\* Whether the flags let a placer send a live bet, and how many it may decide
\* on one snapshot.
Permits(fl, p) ==
  /\ ~fl["dry_run"]
  /\ IF p = auto THEN fl["auto_betting"] ELSE fl["manual_betting"]
Batch(p) == IF p = auto THEN MaxBatch ELSE 1

BettingOn(fl) == fl["auto_betting"] \/ fl["manual_betting"]

Active == {r \in Requests : pc[r] # "idle"}
LoopFree == \A r \in Requests : pc[r] # "running"

----------------------------------------------------------------------------

\* Boot: every flag off; ensure_streaming has succeeded, or failed and left the
\* service up without a stream.
Init ==
  /\ flags = [f \in Flags |-> FALSE]
  /\ streamUp \in BOOLEAN
  /\ authenticated \in BOOLEAN
  /\ streamUp => authenticated
  /\ processing = streamUp
  /\ pc = [r \in Requests |-> "idle"]
  /\ script = [r \in Requests |-> <<>>]
  /\ goal = [r \in Requests |-> <<>>]
  /\ left = [p \in Placers |-> 0]
  /\ open = 0
  /\ bootUp = streamUp
  /\ leak = [p \in Placers |-> 0]
  /\ killLast = FALSE
  /\ clean = FALSE
  /\ alone = [r \in Requests |-> FALSE]

----------------------------------------------------------------------------
(* Requests                                                                *)

NoteBegin(r) ==
  alone' = [q \in Requests |->
              IF q = r THEN Active = {} ELSE alone[q] /\ q \notin Active]

NoteFlags ==
  /\ leak' = [p \in Placers |-> IF Permits(flags', p) THEN 0 ELSE leak[p]]
  /\ clean' = (clean /\ ~BettingOn(flags'))

\* A request (start_live, start_dry_run, stop or set_flag) is handled.
Begin(r) ==
  /\ pc[r] = "idle"
  /\ LoopFree
  /\ \E s \in Scripts :
       /\ script' = [script EXCEPT ![r] = s]
       /\ goal' = [goal EXCEPT ![r] = s]
  /\ pc' = [pc EXCEPT ![r] = "running"]
  /\ NoteBegin(r)
  /\ killLast' = FALSE
  /\ UNCHANGED <<flags, streamVars, left, open, bootUp, leak, clean>>

\* Definitions named X_... are mutants of X: a bug the code could have had, which
\* some property must notice.
SetNextFlag_AlwaysReconnects(r) ==
  LET f == Head(script[r])[1]
      v == Head(script[r])[2]
  IN  /\ pc[r] = "running"
      /\ script[r] # <<>>
      /\ flags' = [flags EXCEPT ![f] = v]
      /\ script' = [script EXCEPT ![r] = Tail(script[r])]
      /\ pc' = [pc EXCEPT ![r] = IF flags[f] = v THEN "running" ELSE "spinning"]
      /\ NoteFlags
      /\ UNCHANGED <<goal, streamVars, left, open, bootUp, killLast, alone>>

\* set_flag: an unchanged flag returns at once.  Otherwise the flag is set under
\* the lock and ensure_streaming awaits a new session unless the stream is up.
SetNextFlag(r) ==
  LET f == Head(script[r])[1]
      v == Head(script[r])[2]
  IN  /\ pc[r] = "running"
      /\ script[r] # <<>>
      /\ flags' = [flags EXCEPT ![f] = v]
      /\ script' = [script EXCEPT ![r] = Tail(script[r])]
      /\ pc' = [pc EXCEPT ![r] =
                  IF flags[f] = v \/ streamUp THEN "running" ELSE "spinning"]
      /\ NoteFlags
      /\ UNCHANGED <<goal, streamVars, left, open, bootUp, killLast, alone>>

SpinUpStarts_ConnectedEarly(r) ==
  /\ pc[r] = "spinning"
  /\ streamUp' = TRUE
  /\ pc' = [pc EXCEPT ![r] = "connecting"]
  /\ UNCHANGED <<script, goal, flags, authenticated, processing, left, open, historyVars>>

\* _spin_up_session in its thread: CONNECTING, then login and subscription.
SpinUpStarts(r) ==
  /\ pc[r] = "spinning"
  /\ streamUp' = FALSE
  /\ pc' = [pc EXCEPT ![r] = "connecting"]
  /\ UNCHANGED <<script, goal, flags, authenticated, processing, left, open, historyVars>>

\* CONNECTED, and a processing thread is started; an earlier one keeps running.
SpinUpSucceeds(r) ==
  /\ pc[r] = "connecting"
  /\ streamUp' = TRUE
  /\ authenticated' = TRUE
  /\ processing' = TRUE
  /\ pc' = [pc EXCEPT ![r] = "connected"]
  /\ UNCHANGED <<script, goal, flags, left, open, historyVars>>

\* The login, or only the subscription after it, fails.
SpinUpFails(r) ==
  /\ pc[r] = "connecting"
  /\ authenticated' \in {authenticated, TRUE}
  /\ pc' = [pc EXCEPT ![r] = "failed"]
  /\ UNCHANGED <<script, goal, flags, streamUp, processing, left, open, historyVars>>

Resume_RaisesFailure(r) ==
  /\ pc[r] \in {"connected", "failed", "cancelled"}
  /\ LoopFree
  /\ streamUp' = IF pc[r] = "failed" THEN FALSE ELSE streamUp
  /\ pc' = [pc EXCEPT ![r] = "running"]
  /\ script' = [script EXCEPT ![r] = IF pc[r] = "failed" THEN <<>> ELSE script[r]]
  /\ UNCHANGED <<goal, flags, authenticated, processing, left, open, historyVars>>

Resume_NeverAfterFailure(r) ==
  /\ pc[r] \in {"connected", "cancelled"}
  /\ LoopFree
  /\ pc' = [pc EXCEPT ![r] = "running"]
  /\ UNCHANGED <<script, goal, flags, streamVars, left, open, historyVars>>

\* The coroutine resumes: a failure sets the status to ERROR and is swallowed by
\* set_flag, so the next flag of the script is set all the same.
Resume(r) ==
  /\ pc[r] \in {"connected", "failed", "cancelled"}
  /\ LoopFree
  /\ streamUp' = IF pc[r] = "failed" THEN FALSE ELSE streamUp
  /\ pc' = [pc EXCEPT ![r] = "running"]
  /\ UNCHANGED <<script, goal, flags, authenticated, processing, left, open, historyVars>>

\* The response is sent.
Finish(r) ==
  /\ pc[r] = "running"
  /\ script[r] = <<>>
  /\ pc' = [pc EXCEPT ![r] = "idle"]
  /\ goal' = [goal EXCEPT ![r] = <<>>]
  /\ UNCHANGED <<script, flags, streamVars, left, open, historyVars>>

----------------------------------------------------------------------------
(* emergency_stop                                                          *)

\* All flags off in one critical section; then, with a session, cancel_all.
BeginEmergencyStop(r) ==
  /\ pc[r] = "idle"
  /\ LoopFree
  /\ flags' = [f \in Flags |-> FALSE]
  /\ pc' = [pc EXCEPT ![r] = IF authenticated THEN "cancelling" ELSE "running"]
  /\ goal' = [goal EXCEPT ![r] = AllOff]
  /\ NoteBegin(r)
  /\ NoteFlags
  /\ killLast' = TRUE
  /\ UNCHANGED <<script, streamVars, left, open, bootUp>>

\* cancel_all_orders in its thread; BetfairServiceError is reported, not raised.
CancelAllOrders(r) ==
  /\ pc[r] = "cancelling"
  /\ pc' = [pc EXCEPT ![r] = "cancelled"]
  /\ \/ open' = 0 /\ clean' = (~BettingOn(flags) /\ \A p \in Placers : left[p] = 0)
     \/ UNCHANGED <<open, clean>>
  /\ UNCHANGED <<script, goal, flags, streamVars, left, bootUp, leak, killLast, alone>>

----------------------------------------------------------------------------
(* Placers                                                                 *)

\* Books come from a stream's processing thread; POST /api/place needs a session.
Ready(p) == IF p = auto THEN processing ELSE authenticated

Snapshot_IgnoresDryRun(p) ==
  /\ left[p] = 0
  /\ Ready(p)
  /\ IF p = auto THEN flags["auto_betting"] ELSE flags["manual_betting"]
  /\ \E n \in 1..Batch(p) : left' = [left EXCEPT ![p] = n]
  /\ UNCHANGED <<flags, streamVars, requestVars, open, historyVars>>

Snapshot_IgnoresBettingFlags(p) ==
  /\ left[p] = 0
  /\ Ready(p)
  /\ ~flags["dry_run"]
  /\ \E n \in 1..Batch(p) : left' = [left EXCEPT ![p] = n]
  /\ UNCHANGED <<flags, streamVars, requestVars, open, historyVars>>

\* The processing thread reads the flags once per book and then works through
\* the bets of every plugin; POST /api/place reads them once for its one bet.
Snapshot(p) ==
  /\ left[p] = 0
  /\ Ready(p)
  /\ Permits(flags, p)
  /\ \E n \in 1..Batch(p) : left' = [left EXCEPT ![p] = n]
  /\ UNCHANGED <<flags, streamVars, requestVars, open, historyVars>>

\* place_orders: the order reaches the exchange.
Transmit(p) ==
  /\ left[p] > 0
  /\ open < MaxOpen
  /\ open' = open + 1
  /\ left' = [left EXCEPT ![p] = left[p] - 1]
  /\ leak' = [leak EXCEPT ![p] = IF Permits(flags, p) THEN 0 ELSE leak[p] + 1]
  /\ UNCHANGED <<flags, streamVars, requestVars, bootUp, killLast, clean, alone>>

\* The cap or the exchange refuses the bet, or the call fails.
Refuse(p) ==
  /\ left[p] > 0
  /\ left' = [left EXCEPT ![p] = left[p] - 1]
  /\ UNCHANGED <<flags, streamVars, requestVars, open, historyVars>>

\* An open order is matched in full, or lapses.
OrderCloses ==
  /\ open > 0
  /\ open' = open - 1
  /\ UNCHANGED <<flags, streamVars, requestVars, left, historyVars>>

----------------------------------------------------------------------------

SpinUp(r) == SpinUpStarts(r) \/ SpinUpSucceeds(r) \/ SpinUpFails(r)

Request(r) ==
  \/ Begin(r) \/ SetNextFlag(r) \/ SpinUp(r) \/ Resume(r) \/ Finish(r)
  \/ BeginEmergencyStop(r) \/ CancelAllOrders(r)

Placer(p) == Snapshot(p) \/ Transmit(p) \/ Refuse(p)

Next ==
  \/ \E r \in Requests : Request(r)
  \/ \E p \in Placers : Placer(p)
  \/ OrderCloses

Spec == Init /\ [][Next]_vars

\* A running coroutine runs on, a thread's call returns, and the event loop's
\* ready queue is first in, first out: a coroutine that can resume does, however
\* many new requests arrive meanwhile.
Fairness ==
  \A r \in Requests :
    /\ WF_vars(SetNextFlag(r)) /\ WF_vars(Finish(r))
    /\ WF_vars(SpinUp(r)) /\ WF_vars(CancelAllOrders(r))
    /\ SF_vars(Resume(r))

FairSpec == Spec /\ Fairness

----------------------------------------------------------------------------
(* Properties                                                              *)

RequestPCs == {"idle", "running", "spinning", "connecting", "connected",
               "failed", "cancelling", "cancelled"}

\* The status is CONNECTED only with a processing thread and a session behind it.
SessionOK == (streamUp => processing) /\ (processing => authenticated)

\* The types of the variables, and what the status promises.
TypeOK ==
  /\ flags \in [Flags -> BOOLEAN]
  /\ streamUp \in BOOLEAN /\ authenticated \in BOOLEAN /\ processing \in BOOLEAN
  /\ SessionOK
  /\ pc \in [Requests -> RequestPCs]
  /\ script \in [Requests -> Seq(Settings)] /\ goal \in [Requests -> Seq(Settings)]
  /\ left \in [Placers -> Nat]
  /\ open \in Nat
  /\ bootUp \in BOOLEAN /\ clean \in BOOLEAN /\ killLast \in BOOLEAN
  /\ leak \in [Placers -> Nat]
  /\ alone \in [Requests -> BOOLEAN]

\* Once the flags forbid a placer's live bets (stop, dry run, the kill switch),
\* it sends no more of them than it had decided on its last snapshot: the rest
\* of one book's batch for the processing thread, one bet for an API thread.
LeakBounded == \A p \in Placers : leak[p] <= Batch(p)

\* If no placer was at work when the kill switch cancelled every order, nothing is
\* open on the exchange until betting is turned on again.
KillLeavesNothing == clean => open = 0

\* With the stream up since boot, no request that was under way when the kill
\* switch was hit can turn betting on again: that takes a request begun later.
KillSwitchFinal == bootUp /\ killLast => ~BettingOn(flags)

\* A request that ran without another one overlapping it leaves the flags it
\* names as it names them, however many stream failures it met on the way.
SolitaryRequestTakesEffect ==
  [][\A r \in Requests :
       pc[r] # "idle" /\ pc'[r] = "idle" /\ alone[r] =>
         \A i \in DOMAIN goal[r] :
           flags[goal[r][i][1]] = goal[r][i][2]]_vars

\* Every request is answered.
RequestsFinish == \A r \in Requests : (pc[r] # "idle") ~> (pc[r] = "idle")

\* README, mode table: DRY_RUN places no bets; an operator who only ever asks for
\* a dry run should never have a live order on the exchange.
DryRunPlacesNothing == open = 0
=============================================================================
