----------------------- MODULE StreamLifecycleProofs -----------------------
(***************************************************************************)
(* The invariants of StreamLifecycle, proved for every set of requests and *)
(* every bound on streams and threads.                                     *)
(***************************************************************************)
EXTENDS StreamLifecycle, TLAPS

\* The initial states are well typed.
LEMMA TypeInit == Init => TypeOK
<1> SUFFICES ASSUME Init PROVE TypeOK
  OBVIOUS
<1> USE DEF Init
<1>1. /\ pc \in [Requests -> {"idle", "spinning"}]
      /\ got \in [Requests -> {0}]
      /\ consumers \in [Queues -> {0}]
      /\ poller \in [Pollers -> {"none"}]
  OBVIOUS
<1>2. \A r \in Requests : pc[r] # "attaching"
  BY <1>1
<1>3. 0 \in 0..MaxStreams
  BY BoundsAssumption
<1> QED
  BY <1>1, <1>2, <1>3 DEF TypeOK

\* Every step keeps the types.
LEMMA TypeStep == TypeOK /\ [Next]_vars => TypeOK'
<1> SUFFICES ASSUME TypeOK, [Next]_vars PROVE TypeOK'
  OBVIOUS
<1> USE BoundsAssumption DEF TypeOK, serviceVars, requestVars, Queues
<1>1. CASE UNCHANGED vars
  BY <1>1 DEF vars
<1>2. ASSUME NEW r \in Requests, SetFlag(r) PROVE TypeOK'
  BY <1>2 DEF SetFlag
<1>3. ASSUME NEW r \in Requests, Connecting(r) PROVE TypeOK'
  BY <1>3 DEF Connecting
<1>4. ASSUME NEW r \in Requests, Login(r) PROVE TypeOK'
  BY <1>4 DEF Login
<1>5. ASSUME NEW r \in Requests, StartStream(r) PROVE TypeOK'
  <2>1. queue' \in Queues /\ running' = TRUE
    BY <1>5 DEF StartStream
  <2> QED
    BY <1>5, <2>1 DEF StartStream
<1>6. ASSUME NEW r \in Requests, SpinUpFails(r) PROVE TypeOK'
  BY <1>6 DEF SpinUpFails
<1>7. ASSUME NEW r \in Requests, Attach(r) PROVE TypeOK'
  BY <1>7 DEF Attach
<1>8. ASSUME NEW r \in Requests, Resume(r) PROVE TypeOK'
  BY <1>8 DEF Resume, Answer
<1>9. ASSUME NEW r \in Requests, ResumeFailed(r) PROVE TypeOK'
  BY <1>9 DEF ResumeFailed, Answer
<1>10. ASSUME NEW p \in Pollers, PollerEnds(p) PROVE TypeOK'
  BY <1>10 DEF PollerEnds
<1>11. CASE StreamDies
  BY <1>11 DEF StreamDies
<1>12. CASE BeginShutdown
  BY <1>12 DEF BeginShutdown
<1>13. CASE Logout
  BY <1>13 DEF Logout
<1>14. CASE SettlementPollerRaises
  BY <1>14 DEF SettlementPollerRaises
<1> QED
  BY <1>1, <1>2, <1>3, <1>4, <1>5, <1>6, <1>7, <1>8, <1>9, <1>10, <1>11, <1>12, <1>13,
     <1>14
  DEF Next, Request, SpinUp

\* Every variable keeps its type, and a request about to attach has a queue.
THEOREM TypeOKHolds == Spec => []TypeOK
BY TypeInit, TypeStep, PTL DEF Spec

----------------------------------------------------------------------------
(* The session, the queue and the shutdown                                 *)

\* Only the lifespan handler is at work while the service stops, and nobody once
\* it is down.
Quiet ==
  /\ phase = "stopping" => \A r \in Requests \ {lifespan} : pc[r] = "idle"
  /\ phase = "down" => \A r \in Requests : pc[r] = "idle"
  /\ phase = "down" => ~session /\ ~running

\* Past its login a request has a session, past start_stream a queue.
Equipped ==
  /\ \A r \in Requests : pc[r] \in {"subscribing", "attaching"} => session
  /\ \A r \in Requests : pc[r] = "attaching" => queue # 0
  /\ status = "CONNECTED" => queue # 0 /\ (session \/ phase = "down")

\* The newest queue has a consumer or is about to get one, whatever the status.
NewestConsumed ==
  queue # 0 => \/ consumers[queue] > 0
               \/ \E r \in Requests : pc[r] = "attaching" /\ got[r] = queue

ConnectedIInv == TypeOK /\ Quiet /\ Equipped /\ NewestConsumed

\* Initially one request is about to spin the stream up and nothing is open.
LEMMA ConnectedInit == Init => ConnectedIInv
<1> SUFFICES ASSUME Init PROVE ConnectedIInv
  OBVIOUS
<1>1. TypeOK
  BY TypeInit
<1>2. \A r \in Requests : pc[r] \in {"idle", "spinning"}
  BY DEF Init
<1> QED
  BY <1>1, <1>2 DEF Init, ConnectedIInv, Quiet, Equipped, NewestConsumed

\* While the service is down no request can take a step.
LEMMA DownIsQuiet ==
  ASSUME ConnectedIInv, phase = "down", NEW r \in Requests
  PROVE  ~SetFlag(r) /\ ~SpinUp(r) /\ ~Resume(r) /\ ~ResumeFailed(r)
BY DEF ConnectedIInv, Quiet, SetFlag, Serves, SpinUp, Connecting, Login, StartStream,
       SpinUpFails, Attach, Resume, ResumeFailed

\* Every step keeps requests out of a service that stops.
LEMMA QuietStep == ConnectedIInv /\ [Next]_vars => Quiet'
<1> SUFFICES ASSUME ConnectedIInv, [Next]_vars PROVE Quiet'
  OBVIOUS
<1> USE RequestsAssumption DEF ConnectedIInv, TypeOK, Quiet, serviceVars, requestVars
<1>1. ASSUME NEW r \in Requests, SetFlag(r) PROVE Quiet'
  BY <1>1 DEF SetFlag, Serves
<1>2. ASSUME NEW r \in Requests, SpinUp(r) PROVE Quiet'
  <2>1. phase # "down"
    BY <1>2, DownIsQuiet
  <2>2. pc[r] # "idle" /\ phase' = phase
    BY <1>2 DEF SpinUp, Connecting, Login, StartStream, SpinUpFails, Attach
  <2>3. \A q \in Requests \ {r} : pc'[q] = pc[q]
    BY <1>2 DEF SpinUp, Connecting, Login, StartStream, SpinUpFails, Attach
  <2> QED
    BY <2>1, <2>2, <2>3
<1>3. ASSUME NEW r \in Requests, Resume(r) \/ ResumeFailed(r) PROVE Quiet'
  <2>1. phase # "down"
    BY <1>3, DownIsQuiet
  <2> QED
    BY <1>3, <2>1 DEF Resume, ResumeFailed, Answer
<1>4. ASSUME NEW p \in Pollers, PollerEnds(p) PROVE Quiet'
  BY <1>4 DEF PollerEnds
<1>5. CASE StreamDies \/ SettlementPollerRaises
  BY <1>5 DEF StreamDies, SettlementPollerRaises
<1>6. CASE BeginShutdown
  BY <1>6 DEF BeginShutdown, SpinningUp
<1>7. CASE Logout
  BY <1>7 DEF Logout
<1>8. CASE UNCHANGED vars
  BY <1>8 DEF vars
<1> QED
  BY <1>1, <1>2, <1>3, <1>4, <1>5, <1>6, <1>7, <1>8 DEF Next, Request

\* Every step keeps a session under every request past its login.
LEMMA EquippedStep == ConnectedIInv /\ [Next]_vars => Equipped'
<1> SUFFICES ASSUME ConnectedIInv, [Next]_vars PROVE Equipped'
  OBVIOUS
<1> USE DEF ConnectedIInv, TypeOK, Equipped, serviceVars, requestVars
<1>1. ASSUME NEW r \in Requests, SetFlag(r) PROVE Equipped'
  BY <1>1 DEF SetFlag
<1>2. ASSUME NEW r \in Requests, SpinUp(r) PROVE Equipped'
  <2>1. CASE Connecting(r)
    BY <2>1 DEF Connecting
  <2>2. CASE Login(r)
    BY <2>2 DEF Login
  <2>3. CASE StartStream(r)
    BY <2>3 DEF StartStream
  <2>4. CASE SpinUpFails(r)
    BY <2>4 DEF SpinUpFails
  <2>5. CASE Attach(r)
    BY <2>5 DEF Attach
  <2> QED
    BY <1>2, <2>1, <2>2, <2>3, <2>4, <2>5 DEF SpinUp
<1>3. ASSUME NEW r \in Requests, Resume(r) PROVE Equipped'
  <2>1. phase # "down"
    BY <1>3, DownIsQuiet
  <2> QED
    BY <1>3, <2>1 DEF Resume, Answer
<1>4. ASSUME NEW r \in Requests, ResumeFailed(r) PROVE Equipped'
  BY <1>4 DEF ResumeFailed, Answer
<1>5. ASSUME NEW p \in Pollers, PollerEnds(p) PROVE Equipped'
  BY <1>5 DEF PollerEnds
<1>6. CASE StreamDies \/ SettlementPollerRaises
  BY <1>6 DEF StreamDies, SettlementPollerRaises
<1>7. CASE BeginShutdown
  BY <1>7 DEF BeginShutdown
<1>8. CASE Logout
  <2>1. \A r \in Requests : pc[r] = "idle"
    BY <1>8 DEF Logout, Quiet
  <2> QED
    BY <1>8, <2>1 DEF Logout
<1>9. CASE UNCHANGED vars
  BY <1>9 DEF vars
<1> QED
  BY <1>1, <1>2, <1>3, <1>4, <1>5, <1>6, <1>7, <1>8, <1>9 DEF Next, Request

\* Every step keeps a consumer, or a request about to start one, on the newest queue.
LEMMA NewestConsumedStep == ConnectedIInv /\ [Next]_vars => NewestConsumed'
<1> SUFFICES ASSUME ConnectedIInv, [Next]_vars PROVE NewestConsumed'
  OBVIOUS
<1> USE DEF ConnectedIInv, TypeOK, NewestConsumed, serviceVars, requestVars
\* Any step that keeps the queue, its consumers and the requests about to attach.
<1>1. ASSUME UNCHANGED <<queue, got, consumers>>,
             \A r \in Requests : pc[r] = "attaching" => pc'[r] = "attaching"
      PROVE  NewestConsumed'
  BY <1>1
<1>2. ASSUME NEW r \in Requests, StartStream(r) PROVE NewestConsumed'
  <2>1. pc'[r] = "attaching" /\ got'[r] = queue'
    BY <1>2 DEF StartStream
  <2> QED
    BY <2>1
<1>3. ASSUME NEW r \in Requests, Attach(r) PROVE NewestConsumed'
  <2>1. queue' = queue /\ got' = got
    BY <1>3 DEF Attach
  <2>2. got[r] \in Queues
    BY <1>3 DEF Attach
  <2>3. consumers' = [consumers EXCEPT ![got[r]] = @ + 1]
    BY <1>3 DEF Attach
  <2>4. CASE got[r] = queue
    BY <2>1, <2>2, <2>3, <2>4
  <2>5. CASE got[r] # queue
    <3>1. consumers'[queue] = consumers[queue]
      BY <2>3, <2>5
    <3>2. \A s \in Requests : pc[s] = "attaching" /\ got[s] = queue => pc'[s] = "attaching"
      BY <1>3, <2>5 DEF Attach
    <3> QED
      BY <2>1, <3>1, <3>2
  <2> QED
    BY <2>4, <2>5
<1>4. ASSUME NEW r \in Requests,
             SetFlag(r) \/ Connecting(r) \/ Login(r) \/ SpinUpFails(r) \/ Resume(r)
               \/ ResumeFailed(r)
      PROVE  NewestConsumed'
  <2>1. UNCHANGED <<queue, got, consumers>>
    BY <1>4 DEF SetFlag, Connecting, Login, SpinUpFails, Resume, ResumeFailed, Answer
  <2>2. pc[r] # "attaching"
    BY <1>4 DEF SetFlag, Connecting, Login, SpinUpFails, Resume, ResumeFailed
  <2>3. \A s \in Requests \ {r} : pc'[s] = pc[s]
    BY <1>4 DEF SetFlag, Connecting, Login, SpinUpFails, Resume, ResumeFailed, Answer
  <2> QED
    BY <1>1, <2>1, <2>2, <2>3
<1>5. ASSUME NEW p \in Pollers, PollerEnds(p) PROVE NewestConsumed'
  BY <1>1, <1>5 DEF PollerEnds
<1>6. CASE StreamDies \/ SettlementPollerRaises \/ BeginShutdown \/ Logout
  BY <1>1, <1>6 DEF StreamDies, SettlementPollerRaises, BeginShutdown, Logout
<1>7. CASE UNCHANGED vars
  BY <1>1, <1>7 DEF vars
<1> QED
  BY <1>2, <1>3, <1>4, <1>5, <1>6, <1>7 DEF Next, Request, SpinUp

\* The four parts together are an invariant.
LEMMA ConnectedInvariant == Spec => []ConnectedIInv
<1>1. ConnectedIInv /\ [Next]_vars => ConnectedIInv'
  BY TypeStep, QuietStep, EquippedStep, NewestConsumedStep DEF ConnectedIInv
<1> QED
  BY ConnectedInit, <1>1, PTL DEF Spec

\* While the status says CONNECTED the newest stream has a session and a consumer,
\* or a request about to start one.
THEOREM ConnectedIsConsumedHolds == Spec => []ConnectedIsConsumed
<1>1. ConnectedIInv => ConnectedIsConsumed
  BY DEF ConnectedIInv, TypeOK, Equipped, NewestConsumed, ConnectedIsConsumed
<1> QED
  BY <1>1, ConnectedInvariant, PTL

\* Nothing reopens the session or the stream once the service is down.
THEOREM ShutdownClosesSessionHolds == Spec => []ShutdownClosesSession
<1>1. ConnectedIInv => ShutdownClosesSession
  BY DEF ConnectedIInv, Quiet, ShutdownClosesSession
<1> QED
  BY <1>1, ConnectedInvariant, PTL

----------------------------------------------------------------------------
(* Without overlapping spin-ups                                            *)

\* One request spins the stream up, only while the status is not CONNECTED; until
\* it succeeds there is no processing thread and no poller, and it succeeds once.
OneSpinUp ==
  ~overlapped =>
    /\ \A r, s \in Requests : pc[r] # "idle" /\ pc[s] # "idle" => r = s
    /\ \A r \in Requests : pc[r] \notin {"idle", "connected"} => status # "CONNECTED"
    /\ status # "CONNECTED" => /\ \A q \in Queues : consumers[q] = 0
                               /\ \A p \in Pollers : poller[p] = "none"
    /\ SoleConsumer
    /\ StatusPollersStay

\* Initially the lifespan handler alone spins the stream up.
LEMMA OneSpinUpInit == Init => OneSpinUp
<1> SUFFICES ASSUME Init PROVE OneSpinUp
  OBVIOUS
<1>1. \A r \in Requests : pc[r] # "idle" => r = lifespan
  BY DEF Init
<1>2. /\ \A q \in Queues : consumers[q] = 0
      /\ \A p \in Pollers : poller[p] = "none"
  BY DEF Init
<1>3. StatusPollers \subseteq Pollers
  BY DEF Pollers
<1> QED
  BY <1>1, <1>2, <1>3 DEF Init, OneSpinUp, SoleConsumer, StatusPollersStay

\* Every step keeps a single spin-up single, or records the overlap.
LEMMA OneSpinUpStep == TypeOK /\ OneSpinUp /\ [Next]_vars => OneSpinUp'
<1> SUFFICES ASSUME TypeOK, OneSpinUp, [Next]_vars, ~overlapped' PROVE OneSpinUp'
  BY DEF OneSpinUp
<1>0. ~overlapped
  BY DEF Next, Request, SpinUp, SetFlag, Connecting, Login, StartStream, SpinUpFails,
         Attach, Resume, ResumeFailed, PollerEnds, SettlementPollerRaises,
         StreamDies, BeginShutdown, Logout,
         vars, TypeOK
<1>a. StatusPollers \subseteq Pollers
  BY DEF Pollers
<1> USE <1>0, <1>a DEF TypeOK, OneSpinUp, SoleConsumer, StatusPollersStay, serviceVars,
        requestVars
<1>1. ASSUME NEW r \in Requests, SetFlag(r) PROVE OneSpinUp'
  <2>1. CASE status = "CONNECTED"
    BY <1>1, <2>1 DEF SetFlag
  <2>2. CASE status # "CONNECTED"
    <3>1. \A s \in Requests : pc[s] = "idle"
      BY <1>1, <2>2 DEF SetFlag, SpinningUp
    <3> QED
      BY <1>1, <2>2, <3>1 DEF SetFlag
  <2> QED
    BY <2>1, <2>2
<1>2. ASSUME NEW r \in Requests, Connecting(r) PROVE OneSpinUp'
  BY <1>2 DEF Connecting
<1>3. ASSUME NEW r \in Requests, Login(r) PROVE OneSpinUp'
  BY <1>3 DEF Login
<1>4. ASSUME NEW r \in Requests, StartStream(r) PROVE OneSpinUp'
  BY <1>4 DEF StartStream
<1>5. ASSUME NEW r \in Requests, SpinUpFails(r) PROVE OneSpinUp'
  BY <1>5 DEF SpinUpFails
<1>6. ASSUME NEW r \in Requests, Attach(r) PROVE OneSpinUp'
  <2>1. \A q \in Queues : consumers[q] = 0
    BY <1>6 DEF Attach
  <2>2. \A q \in Queues : consumers'[q] <= 1
    BY <1>6, <2>1 DEF Attach
  <2>3. \A p \in Pollers : poller'[p] = "none"
    BY <1>6 DEF Attach
  <2>4. /\ \A s \in Requests \ {r} : pc'[s] = "idle"
        /\ pc'[r] = "connected" /\ status' = "CONNECTED"
    BY <1>6 DEF Attach
  <2> QED
    BY <2>2, <2>3, <2>4
<1>7. ASSUME NEW r \in Requests, Resume(r) PROVE OneSpinUp'
  <2>1. status' = status /\ consumers' = consumers /\ pc' = [pc EXCEPT ![r] = "idle"]
    BY <1>7 DEF Resume, Answer
  <2>2. CASE status = "CONNECTED"
    <3>1. \A p \in Pollers : poller'[p] = "running"
      BY <1>7, <2>2 DEF Resume
    <3> QED
      BY <2>1, <2>2, <3>1
  <2>3. CASE status # "CONNECTED"
    <3>1. poller' = poller
      BY <1>7, <2>3 DEF Resume
    <3> QED
      BY <2>1, <2>3, <3>1
  <2> QED
    BY <2>2, <2>3
<1>8. ASSUME NEW r \in Requests, ResumeFailed(r) PROVE OneSpinUp'
  BY <1>8 DEF ResumeFailed, Answer
<1>9. ASSUME NEW p \in Pollers, PollerEnds(p) PROVE OneSpinUp'
  <2>1. CASE p \in ModePollers
    <3>1. p \notin StatusPollers
      BY <2>1 DEF ModePollers, StatusPollers
    <3> QED
      BY <1>9, <3>1 DEF PollerEnds
  <2>2. CASE p \notin ModePollers
    <3>1. FALSE
      BY <1>9, <2>2 DEF PollerEnds
    <3> QED
      BY <3>1
  <2> QED
    BY <2>1, <2>2
<1>10. CASE StreamDies \/ BeginShutdown \/ Logout
  BY <1>10 DEF StreamDies, BeginShutdown, Logout
<1>11. CASE UNCHANGED vars
  BY <1>11 DEF vars
<1>12. CASE SettlementPollerRaises
  <2>1. "settlement" \in Pollers /\ "settlement" \notin StatusPollers
    BY DEF Pollers, ModePollers, StatusPollers
  <2> QED
    BY <1>12, <2>1 DEF SettlementPollerRaises
<1> QED
  BY <1>1, <1>2, <1>3, <1>4, <1>5, <1>6, <1>7, <1>8, <1>9, <1>10, <1>11,
     <1>12
  DEF Next, Request, SpinUp

\* The single spin-up is an invariant.
LEMMA OneSpinUpInvariant == Spec => []OneSpinUp
BY OneSpinUpInit, OneSpinUpStep, TypeOKHolds, PTL DEF Spec

\* A queue has one reader at most, and the daily reset and the catalogue poller never
\* end, for as long as no spin-ups overlap.
THEOREM SpinUpsApartHolds == Spec => []SpinUpsApart
<1>1. OneSpinUp => SpinUpsApart
  BY DEF OneSpinUp, SpinUpsApart
<1> QED
  BY <1>1, OneSpinUpInvariant, PTL
=============================================================================
