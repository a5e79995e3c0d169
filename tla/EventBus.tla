------------------------------ MODULE EventBus ------------------------------
(***************************************************************************)
(* The event bus (src/core/events.py): how the engine's events reach the   *)
(* connections of GET /admin/events and the ring behind GET /admin/activity.*)
(*                                                                         *)
(* Worker threads hand their events to the asyncio loop, which runs them   *)
(* one by one in the order they were handed over; coroutines (request      *)
(* handlers, pollers) publish at once.  Nothing under the bus's lock ever  *)
(* suspends, so the lock is never contended and each critical section is   *)
(* one action.  A connection is a client of the bus for as long as its     *)
(* generator lives; its identity is not used again.  The loop is bound     *)
(* before the engine exists, so no event is issued earlier.  Nothing calls *)
(* clear_activity.                                                         *)
(***************************************************************************)
EXTENDS Integers, Sequences

CONSTANTS
  Threads,        \* publishers that are threads (publish_threadsafe)
  Coroutines,     \* publishers on the loop (publish)
  Clients,        \* connections to the event stream
  Readers,        \* those of them that keep reading
  QueueSize,      \* the size of a subscriber's queue
  ActivitySize,   \* the size of the activity ring
  MaxIssued       \* bound: events issued altogether

Publishers == Threads \union Coroutines

ASSUME PublishersAssumption == Threads \intersect Coroutines = {}
ASSUME ClientsAssumption == Readers \subseteq Clients
ASSUME SizesAssumption ==
  /\ QueueSize \in Nat \ {0}
  /\ ActivitySize \in Nat \ {0}
  /\ MaxIssued \in Nat

VARIABLES
  issued,         \* how many events each publisher has issued
  ready,          \* publications the loop has still to run, oldest first
  subscribers,    \* _subscribers
  conn,           \* each connection: "none", "open" (its generator lives), "closed"
  queue,          \* its asyncio.Queue
  activity,       \* _activity, newest first
  log,            \* history: every event published
  since,          \* history: how many were published when the client subscribed
  got             \* history: the events the client was sent

clientVars == <<subscribers, conn, queue, since, got>>
vars == <<issued, ready, subscribers, conn, queue, activity, log, since, got>>

\* An event is its publisher and the number of the call that issued it.
Events == [from : Publishers, n : Nat]

Init ==
  /\ issued = [p \in Publishers |-> 0]
  /\ ready = <<>>
  /\ subscribers = {}
  /\ conn = [c \in Clients |-> "none"]
  /\ queue = [c \in Clients |-> <<>>]
  /\ activity = <<>>
  /\ log = <<>>
  /\ since = [c \in Clients |-> 0]
  /\ got = [c \in Clients |-> <<>>]

----------------------------------------------------------------------------
(* Publishing                                                              *)

Full == {c \in subscribers : Len(queue[c]) = QueueSize}

Newest(events) == SubSeq(events, 1, IF Len(events) < ActivitySize
                                    THEN Len(events) ELSE ActivitySize)

\* Definitions named X_... are mutants of X: a bug the code could have had, which
\* some property must notice.
Publish_WaitsForRoom(e) ==
  /\ Full = {}
  /\ queue' = [c \in Clients |-> IF c \in subscribers
                                 THEN Append(queue[c], e) ELSE queue[c]]
  /\ activity' = Newest(<<e>> \o activity)
  /\ log' = Append(log, e)
  /\ UNCHANGED <<subscribers, conn, since, got>>

Publish_DropsOldest(e) ==
  /\ queue' = [c \in Clients |->
                 CASE c \in Full               -> Append(Tail(queue[c]), e)
                   [] c \in subscribers \ Full -> Append(queue[c], e)
                   [] OTHER                    -> queue[c]]
  /\ activity' = Newest(<<e>> \o activity)
  /\ log' = Append(log, e)
  /\ UNCHANGED <<subscribers, conn, since, got>>

\* EventBus.publish: the event goes to the ring and to every subscriber; one
\* whose queue is full is not a subscriber any more.
Publish(e) ==
  /\ subscribers' = subscribers \ Full
  /\ queue' = [c \in Clients |-> IF c \in subscribers \ Full
                                 THEN Append(queue[c], e) ELSE queue[c]]
  /\ activity' = Newest(<<e>> \o activity)
  /\ log' = Append(log, e)
  /\ UNCHANGED <<conn, since, got>>

NextEvent(p) == [from |-> p, n |-> issued[p] + 1]

Issue(p) ==
  /\ Len(log) + Len(ready) < MaxIssued
  /\ issued' = [issued EXCEPT ![p] = @ + 1]

\* publish_threadsafe: the call returns once the coroutine is scheduled.
PublishThreadsafe(t) ==
  /\ Issue(t)
  /\ ready' = Append(ready, NextEvent(t))
  /\ UNCHANGED <<clientVars, activity, log>>

RunScheduled_AnyOrder ==
  \E i \in 1..Len(ready) :
    /\ Publish(ready[i])
    /\ ready' = SubSeq(ready, 1, i - 1) \o SubSeq(ready, i + 1, Len(ready))
    /\ UNCHANGED issued

\* The loop runs the oldest scheduled publication.
RunScheduled ==
  /\ ready # <<>>
  /\ Publish(Head(ready))
  /\ ready' = Tail(ready)
  /\ UNCHANGED issued

\* A coroutine publishes: before the events still scheduled, whatever their age.
PublishNow(p) ==
  /\ Issue(p)
  /\ Publish(NextEvent(p))
  /\ UNCHANGED ready

----------------------------------------------------------------------------
(* A connection: EventBus.subscribe, iterated by admin_events              *)

Subscribe(c) ==
  /\ conn[c] = "none"
  /\ conn' = [conn EXCEPT ![c] = "open"]
  /\ subscribers' = subscribers \union {c}
  /\ since' = [since EXCEPT ![c] = Len(log)]
  /\ UNCHANGED <<issued, ready, queue, activity, log, got>>

\* queue.get returns and the record is sent; a client dropped from _subscribers
\* still gets what its queue holds.
Send(c) ==
  /\ conn[c] = "open"
  /\ queue[c] # <<>>
  /\ queue' = [queue EXCEPT ![c] = Tail(@)]
  /\ got' = [got EXCEPT ![c] = Append(@, Head(queue[c]))]
  /\ UNCHANGED <<issued, ready, subscribers, conn, activity, log, since>>

Disconnect_StaysSubscribed(c) ==
  /\ conn[c] = "open"
  /\ conn' = [conn EXCEPT ![c] = "closed"]
  /\ queue' = [queue EXCEPT ![c] = <<>>]
  /\ UNCHANGED <<issued, ready, subscribers, activity, log, since, got>>

\* The connection goes away: the generator's finally.
Disconnect(c) ==
  /\ conn[c] = "open"
  /\ conn' = [conn EXCEPT ![c] = "closed"]
  /\ subscribers' = subscribers \ {c}
  /\ queue' = [queue EXCEPT ![c] = <<>>]
  /\ UNCHANGED <<issued, ready, activity, log, since, got>>

----------------------------------------------------------------------------

Next ==
  \/ \E t \in Threads : PublishThreadsafe(t)
  \/ RunScheduled
  \/ \E p \in Coroutines : PublishNow(p)
  \/ \E c \in Clients : Subscribe(c) \/ Send(c) \/ Disconnect(c)

Spec == Init /\ [][Next]_vars

\* The loop runs what is scheduled and serves the clients that keep reading.
Fairness ==
  /\ WF_vars(RunScheduled)
  /\ \A c \in Readers : WF_vars(Send(c))

FairSpec == Spec /\ Fairness

----------------------------------------------------------------------------
(* Properties                                                              *)

\* The types of the variables; queues and ring keep to their sizes.
TypeOK ==
  /\ issued \in [Publishers -> Nat]
  /\ ready \in Seq(Events)
  /\ subscribers \subseteq {c \in Clients : conn[c] = "open"}
  /\ conn \in [Clients -> {"none", "open", "closed"}]
  /\ queue \in [Clients -> Seq(Events)]
  /\ \A c \in Clients : Len(queue[c]) <= QueueSize
  /\ activity \in Seq(Events) /\ Len(activity) <= ActivitySize
  /\ log \in Seq(Events)
  /\ since \in [Clients -> Nat]
  /\ got \in [Clients -> Seq(Events)]

\* How far into the log the client's events reach.
Reach(c) == since[c] + Len(got[c]) + Len(queue[c])

\* What a connection was sent, followed by what its queue holds, is the log from
\* the moment it subscribed: nothing skipped, twice or out of order, whoever
\* else is slow.  A subscriber is up to date; a dropped one lost a tail only.
NoGaps ==
  \A c \in Clients : conn[c] = "open" =>
    /\ Reach(c) <= Len(log)
    /\ c \in subscribers => Reach(c) = Len(log)
    /\ \A i \in 1..Len(got[c]) : got[c][i] = log[since[c] + i]
    /\ \A i \in 1..Len(queue[c]) : queue[c][i] = log[since[c] + Len(got[c]) + i]

\* How a connection stands: a dropped one is open and no subscriber any more.
Standing(c) ==
  CASE conn[c] = "none"   -> "away"
    [] conn[c] = "closed" -> "gone"
    [] conn[c] = "open"   -> IF c \in subscribers THEN "listening" ELSE "dropped"

\* The bus with publishers, loop and queues forgotten: listeners that read one log.
Feed == INSTANCE Broadcast
          WITH Audience <- Clients, Lag <- QueueSize,
               standing <- [c \in Clients |-> Standing(c)],
               start <- since, received <- got,
               end <- [c \in Clients |-> Reach(c)]

\* The bus implements that broadcast: every event goes to all subscribers at once, each
\* connection reads them in order and is cut off only by falling a full queue behind,
\* after which it still gets what it was owed.
FeedDelivered == Feed!Spec

\* The events published, then those scheduled.
Order == log \o ready

\* Each publisher's events are published in the order it issued them and none is
\* lost, however threads and coroutines interleave.
PublisherOrder ==
  /\ \A i, j \in 1..Len(Order) :
       i < j /\ Order[i].from = Order[j].from => Order[i].n < Order[j].n
  /\ \A p \in Publishers : \A n \in 1..issued[p] :
       \E i \in 1..Len(Order) : Order[i] = [from |-> p, n |-> n]

\* An event a thread has handed over reaches every subscriber that keeps reading,
\* unless the subscriber fell too far behind or left; a client that stopped
\* reading delays nobody.
EventsArrive ==
  \A c \in Readers, t \in Threads : \A n \in 1..MaxIssued :
    LET e == [from |-> t, n |-> n]
    IN  c \in subscribers /\ (\E i \in 1..Len(ready) : ready[i] = e)
          ~> c \notin subscribers \/ (\E i \in 1..Len(got[c]) : got[c][i] = e)
=============================================================================
