-------------------------- MODULE StreamLifecycle --------------------------
(***************************************************************************)
(* How LiveEngine keeps the Betfair stream up (src/engine.py) on top of    *)
(* BetfairService (src/services/betfair_service.py): the session, the      *)
(* stream and its output queue, the processing threads that consume the    *)
(* queue, and the poller tasks.                                            *)
(*                                                                         *)
(* ensure_streaming is called once at boot and after every change of a     *)
(* flag.  When the status is not CONNECTED it runs _spin_up_session in a   *)
(* thread, so two requests may be spinning up at once.  A request is a     *)
(* slot; the slot of the lifespan handler is used at boot, by requests in  *)
(* between, and for the engine.stop() of the shutdown.                     *)
(*                                                                         *)
(* _teardown_session has no caller and is not modelled.                    *)
(***************************************************************************)
EXTENDS Integers, FiniteSets, Functions, FiniteSetsExt

CONSTANTS
  Requests,       \* slots for calls of ensure_streaming
  lifespan,       \* the slot of the lifespan handler
  MaxStreams,     \* bound on the streams opened
  MaxThreads      \* bound on the processing threads started

ASSUME RequestsAssumption == IsFiniteSet(Requests) /\ lifespan \in Requests
ASSUME BoundsAssumption == MaxStreams \in Nat \ {0} /\ MaxThreads \in Nat \ {0}

VARIABLES
  phase,          \* of the service: booting, serving requests, stopping, down
  stopped,        \* the derived mode is STOPPED
  status,         \* _stream_status
  session,        \* BetfairService._trading is not None
  queue,          \* the output queue of the stream opened last; 0 for none
  running,        \* stream.running: its socket is being read
  pc,             \* where each request is
  got,            \* the queue start_stream gave it
  consumers,      \* the processing threads reading each queue
  poller,         \* the four poller tasks
  overlapped      \* history: two requests have been spinning up at once

serviceVars == <<session, queue, running>>
requestVars == <<pc, got>>
vars == <<phase, stopped, status, session, queue, running, pc, got, consumers,
          poller, overlapped>>

Queues == 1..MaxStreams
ModePollers == {"orders", "settlement"}          \* these end when the mode is STOPPED,
StatusPollers == {"daily_reset", "catalogues"}   \* these when the stream is not up
Pollers == ModePollers \union StatusPollers

SpinningUp == {r \in Requests : pc[r] # "idle"}
Threads == MapThenSumSet(LAMBDA q : consumers[q], Queues)

----------------------------------------------------------------------------

\* The lifespan handler has called ensure_streaming; requests are served when it
\* returns.
Init ==
  /\ phase = "boot"
  /\ stopped = TRUE
  /\ status = "DISCONNECTED"
  /\ session = FALSE /\ queue = 0 /\ running = FALSE
  /\ pc = [r \in Requests |-> IF r = lifespan THEN "spinning" ELSE "idle"]
  /\ got = [r \in Requests |-> 0]
  /\ consumers = [q \in Queues |-> 0]
  /\ poller = [p \in Pollers |-> "none"]
  /\ overlapped = FALSE

----------------------------------------------------------------------------
(* set_flag and ensure_streaming, up to the thread                         *)

Serves(r) == phase = "serving" \/ (phase = "stopping" /\ r = lifespan)

\* Definitions named X_... are mutants of X: a bug the code could have had, which
\* some property must notice.
SetFlag_AlwaysSpinsUp(r) ==
  /\ Serves(r)
  /\ pc[r] = "idle"
  /\ stopped' \in (IF phase = "stopping" THEN {stopped, TRUE} ELSE BOOLEAN)
  /\ Threads + Cardinality(SpinningUp) < MaxThreads
  /\ pc' = [pc EXCEPT ![r] = "spinning"]
  /\ overlapped' = (overlapped \/ SpinningUp # {})
  /\ UNCHANGED <<phase, status, serviceVars, got, consumers, poller>>

\* A flag changes, and with it perhaps the mode; stop() at shutdown only turns flags
\* off.  Nothing more happens while the status is CONNECTED.
SetFlag(r) ==
  /\ Serves(r)
  /\ pc[r] = "idle"
  /\ stopped' \in (IF phase = "stopping" THEN {stopped, TRUE} ELSE BOOLEAN)
  /\ \/ /\ status = "CONNECTED"
        /\ UNCHANGED <<pc, overlapped>>
     \/ /\ status # "CONNECTED"
        /\ Threads + Cardinality(SpinningUp) < MaxThreads
        /\ pc' = [pc EXCEPT ![r] = "spinning"]
        /\ overlapped' = (overlapped \/ SpinningUp # {})
  /\ UNCHANGED <<phase, status, serviceVars, got, consumers, poller>>

----------------------------------------------------------------------------
(* _spin_up_session, in a thread                                           *)

Connecting(r) ==
  /\ pc[r] = "spinning"
  /\ status' = "CONNECTING"
  /\ pc' = [pc EXCEPT ![r] = "login"]
  /\ UNCHANGED <<phase, stopped, serviceVars, got, consumers, poller, overlapped>>

\* A second login is a no-op under BetfairService._lock.
Login(r) ==
  /\ pc[r] = "login"
  /\ session' = TRUE
  /\ pc' = [pc EXCEPT ![r] = "subscribing"]
  /\ UNCHANGED <<phase, stopped, status, queue, running, got, consumers, poller, overlapped>>

StartStream_ReturnsNone(r) ==
  /\ pc[r] = "subscribing"
  /\ \/ running /\ UNCHANGED <<queue, running>>
     \/ ~running /\ queue < MaxStreams /\ queue' = queue + 1 /\ running' = TRUE
  /\ got' = [got EXCEPT ![r] = IF running THEN 0 ELSE queue']
  /\ pc' = [pc EXCEPT ![r] = "attaching"]
  /\ UNCHANGED <<phase, stopped, status, session, consumers, poller, overlapped>>

\* start_stream: the stream that is running, or a new one with a new queue.
StartStream(r) ==
  /\ pc[r] = "subscribing"
  /\ \/ running /\ UNCHANGED <<queue, running>>
     \/ ~running /\ queue < MaxStreams /\ queue' = queue + 1 /\ running' = TRUE
  /\ got' = [got EXCEPT ![r] = queue']
  /\ pc' = [pc EXCEPT ![r] = "attaching"]
  /\ UNCHANGED <<phase, stopped, status, session, consumers, poller, overlapped>>

\* The login or the subscription raises; neither is attempted twice.
SpinUpFails(r) ==
  /\ \/ pc[r] = "login" /\ ~session
     \/ pc[r] = "subscribing" /\ ~running
  /\ pc' = [pc EXCEPT ![r] = "failed"]
  /\ UNCHANGED <<phase, stopped, status, serviceVars, got, consumers, poller, overlapped>>

Attach_ReusesThread(r) ==
  /\ pc[r] = "attaching"
  /\ status' = "CONNECTED"
  /\ consumers' = IF Threads > 0 THEN consumers ELSE [consumers EXCEPT ![got[r]] = 1]
  /\ pc' = [pc EXCEPT ![r] = "connected"]
  /\ UNCHANGED <<phase, stopped, serviceVars, got, poller, overlapped>>

\* CONNECTED, and a new processing thread on the queue, in one critical section.
Attach(r) ==
  /\ pc[r] = "attaching"
  /\ status' = "CONNECTED"
  /\ consumers' = [consumers EXCEPT ![got[r]] = @ + 1]
  /\ pc' = [pc EXCEPT ![r] = "connected"]
  /\ UNCHANGED <<phase, stopped, serviceVars, got, poller, overlapped>>

----------------------------------------------------------------------------
(* Back on the event loop                                                  *)

Answer(r) ==
  /\ pc' = [pc EXCEPT ![r] = "idle"]
  /\ phase' = IF phase = "boot" THEN "serving" ELSE phase

\* _start_async_pollers: each poller that is not running is started, unless
\* another request has meanwhile taken the status away from CONNECTED.
Resume(r) ==
  /\ pc[r] = "connected"
  /\ poller' = IF status = "CONNECTED" THEN [p \in Pollers |-> "running"] ELSE poller
  /\ Answer(r)
  /\ UNCHANGED <<stopped, status, serviceVars, got, consumers, overlapped>>

ResumeFailed_StatusKept(r) ==
  /\ pc[r] = "failed"
  /\ Answer(r)
  /\ UNCHANGED <<stopped, status, serviceVars, got, consumers, poller, overlapped>>

ResumeFailed(r) ==
  /\ pc[r] = "failed"
  /\ status' = "ERROR"
  /\ Answer(r)
  /\ UNCHANGED <<stopped, serviceVars, got, consumers, poller, overlapped>>

----------------------------------------------------------------------------
(* Pollers, the stream thread, and the end of the service                  *)

\* A poller wakes up from its sleep and returns.
PollerEnds(p) ==
  /\ poller[p] = "running"
  /\ IF p \in ModePollers THEN stopped ELSE status # "CONNECTED"
  /\ poller' = [poller EXCEPT ![p] = "done"]
  /\ UNCHANGED <<phase, stopped, status, serviceVars, requestVars, consumers, overlapped>>

\* Appending a settled bet to the bucket fails with anything but PermissionDenied:
\* only RuntimeError is caught, so the exception ends the task.
SettlementPollerRaises ==
  /\ poller["settlement"] = "running"
  /\ poller' = [poller EXCEPT !["settlement"] = "done"]
  /\ UNCHANGED <<phase, stopped, status, serviceVars, requestVars, consumers, overlapped>>

\* stream.start() raises in its thread: _stream_runner logs it and returns.
StreamDies ==
  /\ running
  /\ running' = FALSE
  /\ UNCHANGED <<phase, stopped, status, session, queue, requestVars, consumers,
                 poller, overlapped>>

\* The server stops once every request is answered; engine.stop() comes first,
\* and each flag it turns off may spin the stream up once more.
BeginShutdown ==
  /\ phase = "serving"
  /\ SpinningUp = {}
  /\ phase' = "stopping"
  /\ UNCHANGED <<stopped, status, serviceVars, requestVars, consumers, poller, overlapped>>

Logout_DuringStop ==
  /\ phase = "stopping"
  /\ phase' = "down"
  /\ session' = FALSE
  /\ running' = FALSE
  /\ UNCHANGED <<stopped, status, queue, requestVars, consumers, poller, overlapped>>

\* BetfairService.logout: the stream is stopped and the session closed.
Logout ==
  /\ phase = "stopping"
  /\ pc[lifespan] = "idle"
  /\ phase' = "down"
  /\ session' = FALSE
  /\ running' = FALSE
  /\ UNCHANGED <<stopped, status, queue, requestVars, consumers, poller, overlapped>>

----------------------------------------------------------------------------

SpinUp(r) == Connecting(r) \/ Login(r) \/ StartStream(r) \/ SpinUpFails(r) \/ Attach(r)

Request(r) == SetFlag(r) \/ SpinUp(r) \/ Resume(r) \/ ResumeFailed(r)

Next ==
  \/ \E r \in Requests : Request(r)
  \/ \E p \in Pollers : PollerEnds(p)
  \/ SettlementPollerRaises
  \/ StreamDies
  \/ BeginShutdown
  \/ Logout

Spec == Init /\ [][Next]_vars

\* A thread's call returns and a coroutine that can resume does.  Nothing obliges an
\* operator to send a request, the stream to die or the service to stop.
Fairness ==
  \A r \in Requests : WF_vars(SpinUp(r)) /\ WF_vars(Resume(r)) /\ WF_vars(ResumeFailed(r))

FairSpec == Spec /\ Fairness

\* Operators who keep changing flags, besides.
BusySpec == FairSpec /\ \A r \in Requests : WF_vars(SetFlag(r))

----------------------------------------------------------------------------
(* Properties                                                              *)

\* The types of the variables; a stream that is read has a queue, and so has a
\* request about to attach to one.
TypeOK ==
  /\ phase \in {"boot", "serving", "stopping", "down"}
  /\ stopped \in BOOLEAN
  /\ status \in {"DISCONNECTED", "CONNECTING", "CONNECTED", "ERROR"}
  /\ session \in BOOLEAN /\ running \in BOOLEAN
  /\ queue \in 0..MaxStreams /\ (running => queue # 0)
  /\ pc \in [Requests -> {"idle", "spinning", "login", "subscribing", "attaching",
                          "connected", "failed"}]
  /\ got \in [Requests -> 0..MaxStreams]
  /\ \A r \in Requests : pc[r] = "attaching" => got[r] \in Queues
  /\ consumers \in [Queues -> Nat]
  /\ poller \in [Pollers -> {"none", "running", "done"}]
  /\ overlapped \in BOOLEAN

\* While the status says CONNECTED there is a session and a stream, and the books
\* of the newest stream are read by a processing thread, or by the one a spin-up
\* under way is about to start: no overlap of spin-ups, failures and stream
\* deaths leaves a queue that only fills up.
ConnectedIsConsumed ==
  status = "CONNECTED" /\ phase # "down" =>
    /\ session
    /\ queue > 0
    /\ consumers[queue] > 0 \/ \E r \in Requests : pc[r] = "attaching" /\ got[r] = queue

SoleConsumer == \A q \in Queues : consumers[q] <= 1

StatusPollersStay == \A p \in StatusPollers : poller[p] # "done"

\* As long as no two requests spin the stream up at once, one processing thread at
\* most reads each queue, so no book is handled twice at the same time, and the
\* pollers that depend on the stream (the midnight reset of the daily cap among
\* them) never end.
SpinUpsApart == ~overlapped => SoleConsumer /\ StatusPollersStay

\* When the service is down its Betfair session and stream are closed, whatever
\* reconnections its own stop() set off.
ShutdownClosesSession == phase = "down" => ~session /\ ~running

\* The portal never shows CONNECTING for good.
ConnectingEnds == (status = "CONNECTING") ~> (status # "CONNECTING")

\* _start_async_pollers: "Pollers run as long as the stream is up, regardless of
\* which behaviour flags are on"; stated of the order poller, which no exception
\* ends.
PollersRunWhileUp == status = "CONNECTED" /\ running => poller["orders"] # "done"

\* engine.py, module docstring: the engine "reconnects automatically on failure,
\* regardless of flag state".
StreamReconnects ==
  (phase = "serving" /\ queue > 0 /\ ~running) ~> (running \/ phase # "serving")
=============================================================================
