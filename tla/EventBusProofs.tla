--------------------------- MODULE EventBusProofs ---------------------------
(***************************************************************************)
(* The invariants of EventBus, proved for any publishers, connections and  *)
(* sizes.                                                                  *)
(***************************************************************************)
EXTENDS EventBus, SequenceTheorems, TLAPS

----------------------------------------------------------------------------
(* Sequences                                                               *)

\* What Head and Tail do.
LEMMA HeadTailFacts ==
  ASSUME NEW S, NEW s \in Seq(S), s # <<>>
  PROVE  /\ Head(s) \in S /\ Head(s) = s[1]
         /\ Tail(s) \in Seq(S)
         /\ Len(s) >= 1 /\ Len(Tail(s)) = Len(s) - 1
         /\ \A i \in 1..Len(Tail(s)) : Tail(s)[i] = s[i + 1]
OBVIOUS

\* What concatenation does.
LEMMA ConcatFacts ==
  ASSUME NEW S, NEW s \in Seq(S), NEW t \in Seq(S)
  PROVE  /\ s \o t \in Seq(S)
         /\ Len(s \o t) = Len(s) + Len(t)
         /\ \A i \in 1..Len(s) : (s \o t)[i] = s[i]
         /\ \A i \in 1..Len(t) : (s \o t)[Len(s) + i] = t[i]
BY ConcatProperties

\* The newest of a sequence with a new first element.
LEMMA NewestFacts ==
  ASSUME NEW s \in Seq(Events), NEW e \in Events
  PROVE  /\ Newest(<<e>> \o s) \in Seq(Events)
         /\ Len(Newest(<<e>> \o s)) = IF Len(s) + 1 < ActivitySize
                                      THEN Len(s) + 1 ELSE ActivitySize
         /\ Newest(<<e>> \o s)[1] = e
         /\ \A i \in 2..Len(Newest(<<e>> \o s)) : Newest(<<e>> \o s)[i] = s[i - 1]
<1> DEFINE t == <<e>> \o s
           k == IF Len(t) < ActivitySize THEN Len(t) ELSE ActivitySize
<1>1. <<e>> \in Seq(Events) /\ Len(<<e>>) = 1 /\ <<e>>[1] = e
  OBVIOUS
<1>2. /\ t \in Seq(Events) /\ Len(t) = Len(s) + 1 /\ t[1] = e
      /\ \A i \in 1..Len(s) : t[1 + i] = s[i]
  BY <1>1, ConcatFacts
<1>3. Len(s) \in Nat /\ k \in 1..Len(t)
  BY <1>2, SizesAssumption
<1>4. /\ SubSeq(t, 1, k) \in Seq(Events) /\ Len(SubSeq(t, 1, k)) = k
      /\ \A i \in 1..k : SubSeq(t, 1, k)[i] = t[i]
  <2> HIDE DEF t, k
  <2> QED
    BY <1>2, <1>3
<1>5. Newest(t) = SubSeq(t, 1, k)
  BY DEF Newest
<1>6. \A i \in 2..k : t[i] = s[i - 1]
  <2> SUFFICES ASSUME NEW i \in 2..k PROVE t[i] = s[i - 1]
    OBVIOUS
  <2>1. i - 1 \in 1..Len(s) /\ 1 + (i - 1) = i
    BY <1>2, <1>3
  <2> QED
    BY <1>2, <2>1
<1>7. /\ Newest(t) \in Seq(Events) /\ Len(Newest(t)) = k
      /\ Newest(t)[1] = e
      /\ \A i \in 2..k : Newest(t)[i] = s[i - 1]
  <2>1. 1 \in 1..k /\ \A i \in 2..k : i \in 1..k
    BY <1>3
  <2> HIDE DEF t, k
  <2> QED
    BY <1>2, <1>4, <1>5, <1>6, <2>1
<1>8. k = IF Len(s) + 1 < ActivitySize THEN Len(s) + 1 ELSE ActivitySize
  BY <1>2
<1> HIDE DEF k
<1> QED
  BY <1>7, <1>8

----------------------------------------------------------------------------
(* Types                                                                   *)

\* The next event of a publisher is an event.
LEMMA NextEventType ==
  ASSUME TypeOK, NEW p \in Publishers
  PROVE  NextEvent(p) \in Events
BY DEF TypeOK, NextEvent, Events

\* Publishing keeps the types it touches.
LEMMA PublishType ==
  ASSUME TypeOK, NEW e \in Events, Publish(e)
  PROVE  /\ subscribers' \subseteq {c \in Clients : conn'[c] = "open"}
         /\ conn' \in [Clients -> {"none", "open", "closed"}]
         /\ queue' \in [Clients -> Seq(Events)]
         /\ \A c \in Clients : Len(queue'[c]) <= QueueSize
         /\ activity' \in Seq(Events) /\ Len(activity') <= ActivitySize
         /\ log' \in Seq(Events)
         /\ since' \in [Clients -> Nat]
         /\ got' \in [Clients -> Seq(Events)]
<1>1. ASSUME NEW c \in Clients
      PROVE  queue'[c] \in Seq(Events) /\ Len(queue'[c]) <= QueueSize
  <2>1. queue[c] \in Seq(Events) /\ Len(queue[c]) <= QueueSize /\ Len(queue[c]) \in Nat
    BY DEF TypeOK
  <2>2. CASE c \in subscribers \ Full
    <3>1. queue'[c] = Append(queue[c], e)
      BY <2>2 DEF Publish
    <3>2. Len(queue[c]) # QueueSize
      BY <2>2 DEF Full
    <3> QED
      BY <2>1, <3>1, <3>2, AppendProperties, SizesAssumption
  <2>3. CASE c \notin subscribers \ Full
    BY <2>1, <2>3 DEF Publish
  <2> QED
    BY <2>2, <2>3
<1>2. queue' \in [Clients -> Seq(Events)]
  <2>1. queue' = [c \in Clients |-> queue'[c]]
    BY DEF Publish
  <2> QED
    BY <1>1, <2>1
<1>3. activity' \in Seq(Events) /\ Len(activity') <= ActivitySize
  <2>1. activity \in Seq(Events) /\ Len(activity) \in Nat
    BY DEF TypeOK
  <2>2. activity' = Newest(<<e>> \o activity)
    BY DEF Publish
  <2> QED
    BY <2>1, <2>2, NewestFacts, SizesAssumption
<1>4. log' \in Seq(Events)
  BY AppendProperties DEF TypeOK, Publish
<1> QED
  BY <1>1, <1>2, <1>3, <1>4 DEF TypeOK, Publish

\* The initial states are well typed.
LEMMA TypeInit == Init => TypeOK
BY SizesAssumption DEF Init, TypeOK

\* Every step keeps the types.
LEMMA TypeStep == TypeOK /\ [Next]_vars => TypeOK'
<1> SUFFICES ASSUME TypeOK, [Next]_vars PROVE TypeOK'
  OBVIOUS
<1>1. ASSUME NEW t \in Threads, PublishThreadsafe(t) PROVE TypeOK'
  <2>1. t \in Publishers
    BY DEF Publishers
  <2>2. ready' \in Seq(Events)
    BY <1>1, <2>1, NextEventType, AppendProperties DEF PublishThreadsafe, TypeOK
  <2> QED
    BY <1>1, <2>1, <2>2 DEF PublishThreadsafe, Issue, TypeOK, clientVars
<1>2. CASE RunScheduled
  <2>1. Head(ready) \in Events /\ Tail(ready) \in Seq(Events)
    BY <1>2, HeadTailFacts DEF RunScheduled, TypeOK
  <2>2. Publish(Head(ready)) /\ ready' = Tail(ready) /\ issued' = issued
    BY <1>2 DEF RunScheduled
  <2> QED
    BY <2>1, <2>2, PublishType DEF TypeOK
<1>3. ASSUME NEW p \in Coroutines, PublishNow(p) PROVE TypeOK'
  <2>1. p \in Publishers
    BY DEF Publishers
  <2>2. Publish(NextEvent(p)) /\ ready' = ready /\ issued' = [issued EXCEPT ![p] = @ + 1]
    BY <1>3 DEF PublishNow, Issue
  <2>3. issued' \in [Publishers -> Nat]
    BY <2>1, <2>2 DEF TypeOK
  <2> QED
    BY <2>1, <2>2, <2>3, NextEventType, PublishType DEF TypeOK
<1>4. ASSUME NEW c \in Clients, Subscribe(c) PROVE TypeOK'
  <2>1. Len(log) \in Nat
    BY DEF TypeOK
  <2> QED
    BY <1>4, <2>1 DEF Subscribe, TypeOK
<1>5. ASSUME NEW c \in Clients, Send(c) PROVE TypeOK'
  <2>1. /\ queue[c] \in Seq(Events) /\ queue[c] # <<>> /\ got[c] \in Seq(Events)
        /\ Len(queue[c]) <= QueueSize
    BY <1>5 DEF Send, TypeOK
  <2>2. /\ Tail(queue[c]) \in Seq(Events) /\ Len(Tail(queue[c])) <= QueueSize
        /\ Append(got[c], Head(queue[c])) \in Seq(Events)
    BY <2>1, HeadTailFacts, AppendProperties, SizesAssumption
  <2>3. queue' \in [Clients -> Seq(Events)] /\ \A d \in Clients : Len(queue'[d]) <= QueueSize
    BY <1>5, <2>2 DEF Send, TypeOK
  <2>4. got' \in [Clients -> Seq(Events)]
    BY <1>5, <2>2 DEF Send, TypeOK
  <2> QED
    BY <1>5, <2>3, <2>4 DEF Send, TypeOK
<1>6. ASSUME NEW c \in Clients, Disconnect(c) PROVE TypeOK'
  <2>1. queue' \in [Clients -> Seq(Events)] /\ \A d \in Clients : Len(queue'[d]) <= QueueSize
    BY <1>6, SizesAssumption DEF Disconnect, TypeOK
  <2> QED
    BY <1>6, <2>1 DEF Disconnect, TypeOK
<1>7. CASE UNCHANGED vars
  BY <1>7 DEF vars, TypeOK
<1> QED
  BY <1>1, <1>2, <1>3, <1>4, <1>5, <1>6, <1>7 DEF Next

\* Types hold, and no queue or ring outgrows its size.
THEOREM TypeCorrect == Spec => []TypeOK
BY TypeInit, TypeStep, PTL DEF Spec

----------------------------------------------------------------------------
(* What a connection is sent                                               *)

\* Where s events, then g and then q end.
Extent(s, g, q) == s + Len(g) + Len(q)

\* g and then q are the events of L that follow the first s.
Window(L, s, g, q) ==
  /\ s + Len(g) + Len(q) <= Len(L)
  /\ \A i \in 1..Len(g) : g[i] = L[s + i]
  /\ \A i \in 1..Len(q) : q[i] = L[s + Len(g) + i]

\* A window stays one when the log grows.
LEMMA WindowLonger ==
  ASSUME NEW S, NEW L \in Seq(S), NEW g \in Seq(S), NEW q \in Seq(S), NEW s \in Nat,
         NEW e \in S, Window(L, s, g, q)
  PROVE  Window(Append(L, e), s, g, q)
<1>1. Len(Append(L, e)) = Len(L) + 1 /\ \A i \in 1..Len(L) : Append(L, e)[i] = L[i]
  BY AppendProperties
<1>2. Len(L) \in Nat /\ Len(g) \in Nat /\ Len(q) \in Nat
  OBVIOUS
<1>3. ASSUME NEW i \in 1..Len(g) PROVE g[i] = Append(L, e)[s + i]
  BY <1>1, <1>2 DEF Window
<1>4. ASSUME NEW i \in 1..Len(q) PROVE q[i] = Append(L, e)[s + Len(g) + i]
  BY <1>1, <1>2 DEF Window
<1>5. s + Len(g) + Len(q) <= Len(Append(L, e))
  BY <1>1, <1>2 DEF Window
<1> QED
  BY <1>3, <1>4, <1>5 DEF Window

\* The log and a window that reaches its end grow by the same event.
LEMMA WindowGrows ==
  ASSUME NEW S, NEW L \in Seq(S), NEW g \in Seq(S), NEW q \in Seq(S), NEW s \in Nat,
         NEW e \in S, Window(L, s, g, q), Extent(s, g, q) = Len(L)
  PROVE  /\ Window(Append(L, e), s, g, Append(q, e))
         /\ Extent(s, g, Append(q, e)) = Len(Append(L, e))
<1>1. /\ Len(Append(q, e)) = Len(q) + 1 /\ Append(q, e)[Len(q) + 1] = e
      /\ \A i \in 1..Len(q) : Append(q, e)[i] = q[i]
  BY AppendProperties
<1>2. Len(Append(L, e)) = Len(L) + 1 /\ Append(L, e)[Len(L) + 1] = e
  BY AppendProperties
<1>3. Len(L) \in Nat /\ Len(g) \in Nat /\ Len(q) \in Nat
  OBVIOUS
<1>4. Window(Append(L, e), s, g, q)
  BY WindowLonger
<1>5. ASSUME NEW i \in 1..Len(q) + 1 PROVE Append(q, e)[i] = Append(L, e)[s + Len(g) + i]
  <2>1. CASE i = Len(q) + 1
    <3>1. s + Len(g) + i = Len(L) + 1
      BY <1>3, <2>1 DEF Extent
    <3> QED
      BY <1>1, <1>2, <2>1, <3>1
  <2>2. CASE i \in 1..Len(q)
    BY <1>1, <1>4, <2>2 DEF Window
  <2>3. i = Len(q) + 1 \/ i \in 1..Len(q)
    BY <1>3
  <2> QED
    BY <2>1, <2>2, <2>3
<1>6. s + Len(g) + Len(Append(q, e)) = Len(Append(L, e))
  BY <1>1, <1>2, <1>3 DEF Extent
<1> QED
  BY <1>1, <1>2, <1>3, <1>4, <1>5, <1>6 DEF Window, Extent

\* A window stays one when the first of q moves to the end of g.
LEMMA WindowMoves ==
  ASSUME NEW S, NEW L \in Seq(S), NEW g \in Seq(S), NEW q \in Seq(S), NEW s \in Nat,
         q # <<>>, Window(L, s, g, q)
  PROVE  /\ Window(L, s, Append(g, Head(q)), Tail(q))
         /\ Extent(s, Append(g, Head(q)), Tail(q)) = Extent(s, g, q)
<1> DEFINE G == Append(g, Head(q))
           Q == Tail(q)
<1>1. /\ Head(q) \in S /\ Head(q) = q[1] /\ Len(q) >= 1 /\ Len(Q) = Len(q) - 1
      /\ \A i \in 1..Len(Q) : Q[i] = q[i + 1]
  BY HeadTailFacts
<1>2. /\ Len(G) = Len(g) + 1 /\ G[Len(g) + 1] = q[1]
      /\ \A i \in 1..Len(g) : G[i] = g[i]
  BY <1>1, AppendProperties
<1>3. Len(L) \in Nat /\ Len(g) \in Nat /\ Len(q) \in Nat
  OBVIOUS
<1> HIDE DEF G, Q
<1>4. s + Len(G) + Len(Q) = s + Len(g) + Len(q)
  BY <1>1, <1>2, <1>3
<1>5. ASSUME NEW i \in 1..Len(g) + 1 PROVE G[i] = L[s + i]
  <2>1. CASE i = Len(g) + 1
    <3>1. q[1] = L[s + Len(g) + 1]
      BY <1>1, <1>3 DEF Window
    <3>2. s + Len(g) + 1 = s + i
      BY <1>3, <2>1
    <3> QED
      BY <1>2, <2>1, <3>1, <3>2
  <2>2. CASE i \in 1..Len(g)
    BY <1>2, <2>2 DEF Window
  <2>3. i = Len(g) + 1 \/ i \in 1..Len(g)
    BY <1>3
  <2> QED
    BY <2>1, <2>2, <2>3
<1>6. ASSUME NEW i \in 1..Len(Q) PROVE Q[i] = L[s + Len(G) + i]
  <2>1. i + 1 \in 1..Len(q)
    BY <1>1, <1>3
  <2>2. q[i + 1] = L[s + Len(g) + (i + 1)]
    BY <2>1 DEF Window
  <2>3. s + Len(g) + (i + 1) = s + Len(G) + i
    BY <1>2, <1>3
  <2> QED
    BY <1>1, <2>2, <2>3
<1>7. Window(L, s, G, Q)
  BY <1>2, <1>3, <1>4, <1>5, <1>6 DEF Window
<1> QED
  BY <1>4, <1>7 DEF G, Q, Extent

\* One connection's part of NoGaps, and what it starts from.
Faithful(c) ==
  conn[c] = "open" =>
    /\ Window(log, since[c], got[c], queue[c])
    /\ c \in subscribers => Extent(since[c], got[c], queue[c]) = Len(log)

Fresh == \A c \in Clients : conn[c] = "none" => got[c] = <<>> /\ queue[c] = <<>>

LEMMA NoGapsIsFaithful == NoGaps <=> \A c \in Clients : Faithful(c)
BY DEF NoGaps, Faithful, Window, Reach, Extent

\* Connections that have not started hold nothing.
LEMMA FreshStep == TypeOK /\ Fresh /\ [Next]_vars => Fresh'
<1> SUFFICES ASSUME TypeOK, Fresh, [Next]_vars, NEW c \in Clients, conn'[c] = "none"
             PROVE  got'[c] = <<>> /\ queue'[c] = <<>>
  BY DEF Fresh
<1>1. ASSUME NEW e, Publish(e) PROVE got'[c] = <<>> /\ queue'[c] = <<>>
  <2>1. conn[c] = "none" /\ c \notin subscribers
    BY <1>1 DEF Publish, TypeOK
  <2> QED
    BY <1>1, <2>1 DEF Publish, Fresh
<1>2. ASSUME NEW t \in Threads, PublishThreadsafe(t)
      PROVE  got'[c] = <<>> /\ queue'[c] = <<>>
  BY <1>2 DEF PublishThreadsafe, clientVars, Fresh
<1>3. ASSUME NEW d \in Clients, Subscribe(d) \/ Send(d) \/ Disconnect(d)
      PROVE  got'[c] = <<>> /\ queue'[c] = <<>>
  BY <1>3 DEF Subscribe, Send, Disconnect, TypeOK, Fresh
<1>4. CASE UNCHANGED vars
  BY <1>4 DEF vars, Fresh
<1> QED
  BY <1>1, <1>2, <1>3, <1>4 DEF Next, RunScheduled, PublishNow

\* A publication keeps every connection faithful: it reaches the subscribers with
\* room at the end of their queues, and ends the subscription of the others.
LEMMA PublishFaithful ==
  ASSUME TypeOK, NEW e \in Events, Publish(e), NEW c \in Clients, Faithful(c)
  PROVE  Faithful(c)'
<1> SUFFICES ASSUME conn'[c] = "open" PROVE Faithful(c)'
  BY DEF Faithful
<1>1. /\ conn[c] = "open" /\ since'[c] = since[c] /\ got'[c] = got[c]
      /\ log' = Append(log, e) /\ subscribers' = subscribers \ Full
  BY DEF Publish
<1>2. /\ since[c] \in Nat /\ got[c] \in Seq(Events) /\ queue[c] \in Seq(Events)
      /\ log \in Seq(Events)
  BY DEF TypeOK
<1>3. Window(log, since[c], got[c], queue[c])
  BY <1>1 DEF Faithful
<1>4. CASE c \in subscribers \ Full
  <2>1. queue'[c] = Append(queue[c], e)
    BY <1>4 DEF Publish
  <2>2. Extent(since[c], got[c], queue[c]) = Len(log)
    BY <1>1, <1>4 DEF Faithful
  <2>3. /\ Window(Append(log, e), since[c], got[c], Append(queue[c], e))
        /\ Extent(since[c], got[c], Append(queue[c], e)) = Len(Append(log, e))
    BY <1>2, <1>3, <2>2, WindowGrows
  <2> QED
    BY <1>1, <2>1, <2>3 DEF Faithful
<1>5. CASE c \notin subscribers \ Full
  <2>1. queue'[c] = queue[c]
    BY <1>5 DEF Publish
  <2>2. Window(Append(log, e), since[c], got[c], queue[c])
    BY <1>2, <1>3, WindowLonger
  <2> QED
    BY <1>1, <1>5, <2>1, <2>2 DEF Faithful
<1> QED
  BY <1>4, <1>5

\* Every step keeps every connection faithful.
LEMMA FaithfulStep ==
  ASSUME TypeOK, Fresh, [Next]_vars, NEW c \in Clients, Faithful(c)
  PROVE  Faithful(c)'
<1>1. ASSUME NEW t \in Threads, PublishThreadsafe(t) PROVE Faithful(c)'
  BY <1>1 DEF PublishThreadsafe, clientVars, Faithful
<1>2. CASE RunScheduled
  <2>1. Head(ready) \in Events /\ Publish(Head(ready))
    BY <1>2, HeadTailFacts DEF RunScheduled, TypeOK
  <2> QED
    BY <2>1, PublishFaithful
<1>3. ASSUME NEW p \in Coroutines, PublishNow(p) PROVE Faithful(c)'
  BY <1>3, NextEventType, PublishFaithful DEF PublishNow, Publishers
<1>4. ASSUME NEW d \in Clients, Subscribe(d) PROVE Faithful(c)'
  <2>1. CASE c = d
    <3>1. /\ since'[c] = Len(log) /\ got'[c] = <<>> /\ queue'[c] = <<>>
          /\ log' = log /\ Len(log) \in Nat
      BY <1>4, <2>1 DEF Subscribe, TypeOK, Fresh
    <3>2. Window(log, Len(log), <<>>, <<>>) /\ Extent(Len(log), <<>>, <<>>) = Len(log)
      BY <3>1 DEF Window, Extent
    <3> QED
      BY <3>1, <3>2 DEF Faithful
  <2>2. CASE c # d
    BY <1>4, <2>2 DEF Subscribe, TypeOK, Faithful
  <2> QED
    BY <2>1, <2>2
<1>5. ASSUME NEW d \in Clients, Send(d) PROVE Faithful(c)'
  <2>1. CASE c = d
    <3>1. /\ queue[c] \in Seq(Events) /\ queue[c] # <<>> /\ got[c] \in Seq(Events)
          /\ since[c] \in Nat /\ log \in Seq(Events) /\ conn[c] = "open"
      BY <1>5, <2>1 DEF Send, TypeOK
    <3>2. /\ queue'[c] = Tail(queue[c]) /\ got'[c] = Append(got[c], Head(queue[c]))
          /\ since' = since /\ log' = log /\ subscribers' = subscribers
      BY <1>5, <2>1 DEF Send, TypeOK
    <3>3. Window(log, since[c], got[c], queue[c])
      BY <3>1 DEF Faithful
    <3>4. /\ Window(log, since[c], Append(got[c], Head(queue[c])), Tail(queue[c]))
          /\ Extent(since[c], Append(got[c], Head(queue[c])), Tail(queue[c])) =
               Extent(since[c], got[c], queue[c])
      BY <3>1, <3>3, WindowMoves
    <3> QED
      BY <3>1, <3>2, <3>4 DEF Faithful
  <2>2. CASE c # d
    BY <1>5, <2>2 DEF Send, TypeOK, Faithful
  <2> QED
    BY <2>1, <2>2
<1>6. ASSUME NEW d \in Clients, Disconnect(d) PROVE Faithful(c)'
  BY <1>6 DEF Disconnect, TypeOK, Faithful
<1>7. CASE UNCHANGED vars
  BY <1>7 DEF vars, Faithful
<1> QED
  BY <1>1, <1>2, <1>3, <1>4, <1>5, <1>6, <1>7 DEF Next

\* What a connection holds is faithful, whether it has started or not.
DeliveryInv == TypeOK /\ Fresh /\ \A c \in Clients : Faithful(c)

\* The initial states are faithful.
LEMMA DeliveryInit == Init => DeliveryInv
BY TypeInit DEF Init, Fresh, Faithful, DeliveryInv

\* Every step keeps all connections faithful.
LEMMA DeliveryStep == DeliveryInv /\ [Next]_vars => DeliveryInv'
BY TypeStep, FreshStep, FaithfulStep DEF DeliveryInv

\* What a connection is sent is the log from its subscription on, without a gap,
\* for any sizes and any number of slow clients.
THEOREM DeliveryFaithful == Spec => []NoGaps
<1>1. DeliveryInv => NoGaps
  BY NoGapsIsFaithful DEF DeliveryInv
<1> QED
  BY <1>1, DeliveryInit, DeliveryStep, PTL DEF Spec

----------------------------------------------------------------------------
(* The bus implements Broadcast                                            *)

\* The initial states of the bus are those of the broadcast.
LEMMA FeedInit == Init => Feed!Init
<1> SUFFICES ASSUME Init PROVE Feed!Init
  OBVIOUS
<1>1. \A c \in Clients : Standing(c) = "away" /\ Reach(c) = 0
  BY DEF Init, Standing, Reach
<1> QED
  BY <1>1 DEF Init, Feed!Init

\* How a connection stands, in terms of its variables.
LEMMA StandingIs ==
  ASSUME TypeOK, NEW c \in Clients
  PROVE  /\ c \in subscribers <=> Standing(c) = "listening"
         /\ conn[c] = "none" <=> Standing(c) = "away"
         /\ conn[c] = "open" <=> Standing(c) \in {"listening", "dropped"}
         /\ conn[c] = "closed" <=> Standing(c) = "gone"
BY DEF TypeOK, Standing

\* What the lengths of the sequences are.
LEMMA Lengths ==
  ASSUME TypeOK, NEW c \in Clients
  PROVE  /\ since[c] \in Nat /\ Len(got[c]) \in Nat /\ Len(queue[c]) \in Nat
         /\ Len(log) \in Nat
         /\ Reach(c) = since[c] + Len(got[c]) + Len(queue[c])
BY DEF TypeOK, Reach

\* A publication is one: those a full queue behind are dropped, the other listeners'
\* stretches grow.
LEMMA FeedPublish ==
  ASSUME DeliveryInv, NEW e \in Events, Publish(e)
  PROVE  Feed!Publish
<1> USE DEF DeliveryInv
<1>1. Feed!Behind = Full
  <2>1. ASSUME NEW c \in Clients
        PROVE  Reach(c) - (since[c] + Len(got[c])) = Len(queue[c])
    BY Lengths
  <2>2. Full = {c \in Clients : c \in subscribers /\ Len(queue[c]) = QueueSize}
    BY DEF Full, TypeOK
  <2>3. Feed!Behind = {c \in Clients : Standing(c) = "listening" /\ Len(queue[c]) = QueueSize}
    BY <2>1 DEF Feed!Behind, Feed!Position
  <2> QED
    BY <2>2, <2>3, StandingIs
<1>2. log' = Append(log, e) /\ Len(log') = Len(log) + 1 /\ log'[Len(log) + 1] = e
  BY AppendProperties DEF Publish, TypeOK
<1>3. ASSUME NEW c \in Clients
      PROVE  Standing(c)' = IF c \in Full THEN "dropped" ELSE Standing(c)
  BY DEF Publish, Standing, TypeOK, Full
<1>4. ASSUME NEW c \in Clients
      PROVE  Reach(c)' = IF Standing(c) = "listening" /\ c \notin Full
                         THEN Len(log) + 1 ELSE Reach(c)
  <2>1. since'[c] = since[c] /\ got'[c] = got[c]
    BY DEF Publish
  <2>2. CASE c \in subscribers \ Full
    <3>1. queue'[c] = Append(queue[c], e)
      BY <2>2 DEF Publish
    <3>2. Len(queue'[c]) = Len(queue[c]) + 1
      BY <3>1, AppendProperties DEF TypeOK
    <3>3. Reach(c) = Len(log)
      BY <2>2 DEF Faithful, Extent, Reach, TypeOK
    <3>4. Reach(c)' = since[c] + Len(got[c]) + (Len(queue[c]) + 1)
      BY <2>1, <3>2 DEF Reach
    <3> QED
      BY <2>2, <3>3, <3>4, Lengths, StandingIs
  <2>3. CASE c \notin subscribers \ Full
    <3>1. queue'[c] = queue[c]
      BY <2>3 DEF Publish
    <3> QED
      BY <2>1, <2>3, <3>1, StandingIs DEF Reach
  <2> QED
    BY <2>2, <2>3
<1>5. [c \in Clients |-> Standing(c)]' =
        [c \in Clients |-> IF c \in Full THEN "dropped" ELSE Standing(c)]
  BY <1>3
<1>6. [c \in Clients |-> Reach(c)]' =
        [c \in Clients |-> IF Standing(c) = "listening" /\ c \notin Full
                           THEN Len(log) + 1 ELSE Reach(c)]
  BY <1>4
<1> QED
  BY <1>1, <1>2, <1>5, <1>6 DEF Feed!Publish, Publish

\* A subscription is a listener that joins at the end of the log.
LEMMA FeedJoin ==
  ASSUME DeliveryInv, NEW c \in Clients, Subscribe(c)
  PROVE  Feed!Join(c)
<1> USE DEF DeliveryInv
<1>1. got[c] = <<>> /\ queue[c] = <<>> /\ Standing(c) = "away"
  BY StandingIs DEF Subscribe, Fresh
<1>2. \A d \in Clients : Standing(d)' = IF d = c THEN "listening" ELSE Standing(d)
  BY DEF Subscribe, Standing, TypeOK
<1>3. ASSUME NEW d \in Clients PROVE Reach(d)' = IF d = c THEN Len(log) ELSE Reach(d)
  <2>1. CASE d = c
    <3>1. since'[c] = Len(log) /\ got'[c] = <<>> /\ queue'[c] = <<>> /\ Len(log) \in Nat
      BY <1>1, Lengths DEF Subscribe, TypeOK
    <3>2. Len(got'[c]) = 0 /\ Len(queue'[c]) = 0
      BY <3>1
    <3> QED
      BY <2>1, <3>1, <3>2 DEF Reach
  <2>2. CASE d # c
    BY <2>2 DEF Subscribe, Reach, TypeOK
  <2> QED
    BY <2>1, <2>2
<1>4. [d \in Clients |-> Standing(d)]' = [[d \in Clients |-> Standing(d)] EXCEPT ![c] = "listening"]
  BY <1>2
<1>5. [d \in Clients |-> Reach(d)]' = [[d \in Clients |-> Reach(d)] EXCEPT ![c] = Len(log)]
  BY <1>3
<1> QED
  BY <1>1, <1>4, <1>5 DEF Feed!Join, Subscribe

\* What a connection is sent next is the next of the log.
LEMMA FeedRead ==
  ASSUME DeliveryInv, NEW c \in Clients, Send(c)
  PROVE  Feed!Read(c)
<1> USE DEF DeliveryInv
<1>1. /\ conn[c] = "open" /\ queue[c] \in Seq(Events) /\ queue[c] # <<>>
      /\ Standing(c) \in {"listening", "dropped"}
  BY StandingIs DEF Send, TypeOK
<1>2. /\ Head(queue[c]) = queue[c][1] /\ Len(queue[c]) >= 1
      /\ Len(Tail(queue[c])) = Len(queue[c]) - 1
  BY <1>1, HeadTailFacts
<1>3. Head(queue[c]) = log[since[c] + Len(got[c]) + 1]
  <2>1. NoGaps
    BY NoGapsIsFaithful
  <2>2. 1 \in 1..Len(queue[c])
    BY <1>2, Lengths
  <2>3. queue[c][1] = log[since[c] + Len(got[c]) + 1]
    BY <1>1, <2>1, <2>2 DEF NoGaps
  <2> QED
    BY <1>2, <2>3
<1>4. since[c] + Len(got[c]) < Reach(c)
  BY <1>2, Lengths
<1>5. \A d \in Clients : Standing(d)' = Standing(d)
  BY DEF Send, Standing
<1>6. ASSUME NEW d \in Clients PROVE Reach(d)' = Reach(d)
  <2>1. CASE d = c
    <3>1. since'[c] = since[c] /\ queue'[c] = Tail(queue[c])
          /\ got'[c] = Append(got[c], Head(queue[c]))
      BY DEF Send, TypeOK
    <3>2. Len(got'[c]) = Len(got[c]) + 1
      BY <3>1 DEF TypeOK
    <3>3. Len(queue'[c]) = Len(queue[c]) - 1
      BY <1>2, <3>1
    <3>4. Reach(c)' = since[c] + (Len(got[c]) + 1) + (Len(queue[c]) - 1)
      BY <3>1, <3>2, <3>3 DEF Reach
    <3> QED
      BY <2>1, <3>4, Lengths
  <2>2. CASE d # c
    BY <2>2 DEF Send, Reach, TypeOK
  <2> QED
    BY <2>1, <2>2
<1>7. /\ [d \in Clients |-> Standing(d)]' = [d \in Clients |-> Standing(d)]
      /\ [d \in Clients |-> Reach(d)]' = [d \in Clients |-> Reach(d)]
  BY <1>5, <1>6
<1> QED
  BY <1>1, <1>3, <1>4, <1>7 DEF Feed!Read, Feed!Position, Send

\* A connection that closes stops where it is.
LEMMA FeedLeave ==
  ASSUME DeliveryInv, NEW c \in Clients, Disconnect(c)
  PROVE  Feed!Leave(c)
<1> USE DEF DeliveryInv
<1>1. Standing(c) \in {"listening", "dropped"}
  BY StandingIs DEF Disconnect
<1>2. \A d \in Clients : Standing(d)' = IF d = c THEN "gone" ELSE Standing(d)
  BY DEF Disconnect, Standing, TypeOK
<1>3. \A d \in Clients : Reach(d)' = IF d = c THEN since[c] + Len(got[c]) ELSE Reach(d)
  BY Lengths DEF Disconnect, Reach, TypeOK
<1>4. [d \in Clients |-> Standing(d)]' = [[d \in Clients |-> Standing(d)] EXCEPT ![c] = "gone"]
  BY <1>2
<1>5. [d \in Clients |-> Reach(d)]' =
        [[d \in Clients |-> Reach(d)] EXCEPT ![c] = since[c] + Len(got[c])]
  BY <1>3
<1> QED
  BY <1>1, <1>4, <1>5 DEF Feed!Leave, Feed!Position, Disconnect

FeedVars ==
  <<log, [c \in Clients |-> Standing(c)], since, got, [c \in Clients |-> Reach(c)]>>

\* Every step of the bus is a step of the broadcast, or none.
LEMMA FeedStep == DeliveryInv /\ [Next]_vars => [Feed!Next]_FeedVars
<1> SUFFICES ASSUME DeliveryInv, [Next]_vars PROVE Feed!Next \/ UNCHANGED FeedVars
  OBVIOUS
<1>1. ASSUME NEW t \in Threads, PublishThreadsafe(t) PROVE UNCHANGED FeedVars
  BY <1>1 DEF PublishThreadsafe, clientVars, FeedVars, Standing, Reach
<1>2. CASE RunScheduled
  <2>1. Head(ready) \in Events /\ Publish(Head(ready))
    BY <1>2, HeadTailFacts DEF RunScheduled, DeliveryInv, TypeOK
  <2> QED
    BY <2>1, FeedPublish DEF Feed!Next
<1>3. ASSUME NEW p \in Coroutines, PublishNow(p) PROVE Feed!Next
  <2>1. NextEvent(p) \in Events /\ Publish(NextEvent(p))
    BY <1>3, NextEventType DEF PublishNow, Publishers, DeliveryInv
  <2> QED
    BY <2>1, FeedPublish DEF Feed!Next
<1>4. ASSUME NEW c \in Clients, Subscribe(c) \/ Send(c) \/ Disconnect(c) PROVE Feed!Next
  BY <1>4, FeedJoin, FeedRead, FeedLeave DEF Feed!Next
<1>5. CASE UNCHANGED vars
  BY <1>5 DEF vars, FeedVars, Standing, Reach
<1> QED
  BY <1>1, <1>2, <1>3, <1>4, <1>5 DEF Next

\* The bus implements the abstract broadcast, for any publishers, connections and sizes:
\* each connection reads the log in order and is cut off only by falling behind.
THEOREM FeedDeliveredHolds == Spec => FeedDelivered
BY FeedInit, FeedStep, DeliveryInit, DeliveryStep, PTL DEF Spec, FeedDelivered, Feed!Spec, FeedVars

----------------------------------------------------------------------------
(* The order of the events                                                 *)

\* The events of each publisher in s are in the order of their numbers.
Ordered(s) ==
  \A i, j \in 1..Len(s) : i < j /\ s[i].from = s[j].from => s[i].n < s[j].n

Has(s, e) == \E i \in 1..Len(s) : s[i] = e

\* t is s with e put in after its first k elements.
Inserted(s, k, e, t) ==
  /\ Len(t) = Len(s) + 1
  /\ \A i \in 1..Len(t) : t[i] = IF i <= k THEN s[i] ELSE IF i = k + 1 THEN e ELSE s[i - 1]

\* An event put in after the smaller ones of its publisher, the last ones there
\* are, keeps the order.
LEMMA InsertOrdered ==
  ASSUME NEW s \in Seq(Events), NEW t \in Seq(Events), NEW k \in 0..Len(s),
         NEW e \in Events, Inserted(s, k, e, t), Ordered(s),
         \A i \in 1..k : s[i].from = e.from => s[i].n < e.n,
         \A i \in k + 1..Len(s) : s[i].from # e.from
  PROVE  Ordered(t)
<1> SUFFICES ASSUME NEW i \in 1..Len(t), NEW j \in 1..Len(t), i < j, t[i].from = t[j].from
             PROVE  t[i].n < t[j].n
  BY DEF Ordered
<1>1. /\ Len(s) \in Nat /\ Len(t) = Len(s) + 1
      /\ t[i] = IF i <= k THEN s[i] ELSE IF i = k + 1 THEN e ELSE s[i - 1]
      /\ t[j] = IF j <= k THEN s[j] ELSE IF j = k + 1 THEN e ELSE s[j - 1]
  BY DEF Inserted
<1>2. CASE j <= k
  <2>1. i \in 1..Len(s) /\ j \in 1..Len(s) /\ t[i] = s[i] /\ t[j] = s[j]
    BY <1>1, <1>2
  <2> QED
    BY <2>1 DEF Ordered
<1>3. CASE j = k + 1
  <2>1. i \in 1..k /\ t[i] = s[i] /\ t[j] = e
    BY <1>1, <1>3
  <2> QED
    BY <2>1
<1>4. CASE j > k + 1
  <2>1. j - 1 \in k + 1..Len(s) /\ j - 1 \in 1..Len(s) /\ t[j] = s[j - 1]
    BY <1>1, <1>4
  <2>2. CASE i <= k
    <3>1. i \in 1..Len(s) /\ i < j - 1 /\ t[i] = s[i]
      BY <1>1, <1>4, <2>2
    <3> QED
      BY <2>1, <3>1 DEF Ordered
  <2>3. CASE i = k + 1
    BY <1>1, <2>1, <2>3
  <2>4. CASE i > k + 1
    <3>1. i - 1 \in 1..Len(s) /\ i - 1 < j - 1 /\ t[i] = s[i - 1]
      BY <1>1, <1>4, <2>4
    <3> QED
      BY <2>1, <3>1 DEF Ordered
  <2> QED
    BY <1>1, <2>2, <2>3, <2>4
<1> QED
  BY <1>1, <1>2, <1>3, <1>4

\* An event put in is there, and so are the others.
LEMMA InsertHas ==
  ASSUME NEW s \in Seq(Events), NEW t \in Seq(Events), NEW k \in 0..Len(s), NEW e,
         Inserted(s, k, e, t)
  PROVE  Has(t, e) /\ \A f : Has(s, f) => Has(t, f)
<1>1. Len(s) \in Nat /\ Len(t) = Len(s) + 1
  BY DEF Inserted
<1>2. Has(t, e)
  <2>1. k + 1 \in 1..Len(t) /\ t[k + 1] = e
    BY <1>1 DEF Inserted
  <2> QED
    BY <2>1 DEF Has
<1>3. ASSUME NEW f, Has(s, f) PROVE Has(t, f)
  <2>1. PICK i \in 1..Len(s) : s[i] = f
    BY <1>3 DEF Has
  <2>2. CASE i <= k
    <3>1. i \in 1..Len(t) /\ t[i] = f
      BY <1>1, <2>1, <2>2 DEF Inserted
    <3> QED
      BY <3>1 DEF Has
  <2>3. CASE i > k
    <3>1. i + 1 \in 1..Len(t) /\ ~(i + 1 <= k) /\ i + 1 # k + 1 /\ (i + 1) - 1 = i
      BY <1>1, <2>3
    <3>2. t[i + 1] = f
      BY <2>1, <3>1 DEF Inserted
    <3> QED
      BY <3>1, <3>2 DEF Has
  <2> QED
    BY <1>1, <2>2, <2>3
<1> QED
  BY <1>2, <1>3

\* The new event of a coroutine goes between the two parts of a concatenation.
LEMMA ConcatInsert ==
  ASSUME NEW s \in Seq(Events), NEW t \in Seq(Events), NEW e \in Events
  PROVE  /\ Append(s, e) \o t \in Seq(Events)
         /\ Inserted(s \o t, Len(s), e, Append(s, e) \o t)
<1> DEFINE a == Append(s, e)
           u == s \o t
           v == a \o t
<1>1. /\ a \in Seq(Events) /\ Len(a) = Len(s) + 1 /\ a[Len(s) + 1] = e
      /\ \A i \in 1..Len(s) : a[i] = s[i]
  BY AppendProperties
<1>2. /\ Len(u) = Len(s) + Len(t)
      /\ \A i \in 1..Len(s) + Len(t) : u[i] = IF i <= Len(s) THEN s[i] ELSE t[i - Len(s)]
  BY ConcatProperties
<1>3. /\ v \in Seq(Events) /\ Len(v) = Len(a) + Len(t)
      /\ \A i \in 1..Len(a) + Len(t) : v[i] = IF i <= Len(a) THEN a[i] ELSE t[i - Len(a)]
  BY <1>1, ConcatProperties
<1>4. Len(s) \in Nat /\ Len(t) \in Nat
  OBVIOUS
<1> HIDE DEF a, u, v
<1>5. Len(v) = Len(u) + 1
  BY <1>1, <1>2, <1>3, <1>4
<1>6. ASSUME NEW i \in 1..Len(v)
      PROVE  v[i] = IF i <= Len(s) THEN u[i] ELSE IF i = Len(s) + 1 THEN e ELSE u[i - 1]
  <2>1. CASE i <= Len(s)
    <3>1. i \in 1..Len(s) /\ i \in 1..Len(a) + Len(t) /\ i \in 1..Len(s) + Len(t) /\ i <= Len(a)
      BY <1>1, <1>3, <1>4, <2>1
    <3> QED
      BY <1>1, <1>2, <1>3, <2>1, <3>1
  <2>2. CASE i = Len(s) + 1
    <3>1. i \in 1..Len(a) + Len(t) /\ i <= Len(a) /\ ~(i <= Len(s))
      BY <1>1, <1>3, <1>4, <2>2
    <3> QED
      BY <1>1, <1>3, <2>2, <3>1
  <2>3. CASE i > Len(s) + 1
    <3>1. /\ i \in 1..Len(a) + Len(t) /\ ~(i <= Len(a))
          /\ i - 1 \in 1..Len(s) + Len(t) /\ ~(i - 1 <= Len(s)) /\ ~(i <= Len(s))
          /\ i # Len(s) + 1 /\ i - Len(a) = (i - 1) - Len(s)
      BY <1>1, <1>3, <1>4, <2>3
    <3> QED
      BY <1>2, <1>3, <3>1
  <2> QED
    BY <1>4, <2>1, <2>2, <2>3
<1> QED
  BY <1>3, <1>5, <1>6 DEF Inserted, a, u, v

\* A thread's new event goes to the end of a concatenation.
LEMMA ConcatAppend ==
  ASSUME NEW s \in Seq(Events), NEW t \in Seq(Events), NEW e \in Events
  PROVE  /\ s \o Append(t, e) \in Seq(Events)
         /\ Inserted(s \o t, Len(s \o t), e, s \o Append(t, e))
<1>1. <<e>> \in Seq(Events) /\ s \o t \in Seq(Events)
  BY ConcatProperties
<1>2. s \o Append(t, e) = s \o (t \o <<e>>)
  BY AppendIsConcat
<1>3. s \o Append(t, e) = Append(s \o t, e)
  BY <1>1, <1>2, ConcatAssociative, AppendIsConcat
<1>4. ASSUME NEW u \in Seq(Events) PROVE Inserted(u, Len(u), e, Append(u, e))
  <2>1. /\ Len(Append(u, e)) = Len(u) + 1 /\ Append(u, e)[Len(u) + 1] = e
        /\ \A i \in 1..Len(u) : Append(u, e)[i] = u[i]
    BY AppendProperties
  <2>2. Len(u) \in Nat
    OBVIOUS
  <2>3. ASSUME NEW i \in 1..Len(Append(u, e))
        PROVE  Append(u, e)[i] = IF i <= Len(u) THEN u[i]
                                 ELSE IF i = Len(u) + 1 THEN e ELSE u[i - 1]
    BY <2>1, <2>2
  <2> QED
    BY <2>1, <2>3 DEF Inserted
<1>5. /\ Append(s \o t, e) \in Seq(Events)
      /\ Inserted(s \o t, Len(s \o t), e, Append(s \o t, e))
  BY <1>1, <1>4, AppendProperties
<1> QED
  BY <1>3, <1>5

\* What the loop runs next was already next in the order.
LEMMA ConcatShift ==
  ASSUME NEW s \in Seq(Events), NEW t \in Seq(Events), t # <<>>
  PROVE  Append(s, Head(t)) \o Tail(t) = s \o t
<1>1. Head(t) \in Events /\ Tail(t) \in Seq(Events)
  BY HeadTailFacts
<1>2. <<Head(t)>> \in Seq(Events) /\ <<Head(t)>> \o Tail(t) = t
  <2> DEFINE u == <<Head(t)>>
  <2>1. u \in Seq(Events) /\ Len(u) = 1 /\ u[1] = t[1]
    BY <1>1, HeadTailFacts
  <2> HIDE DEF u
  <2>2. /\ u \o Tail(t) \in Seq(Events) /\ Len(u \o Tail(t)) = Len(t)
        /\ \A i \in 1..Len(t) : (u \o Tail(t))[i] = IF i <= 1 THEN u[1] ELSE Tail(t)[i - 1]
    <3>1. Tail(t) \in Seq(Events) /\ Len(t) \in Nat /\ Len(Tail(t)) = Len(t) - 1
      BY HeadTailFacts
    <3>2. /\ u \o Tail(t) \in Seq(Events) /\ Len(u \o Tail(t)) = Len(u) + Len(Tail(t))
          /\ \A i \in 1..Len(u) + Len(Tail(t)) :
               (u \o Tail(t))[i] = IF i <= Len(u) THEN u[i] ELSE Tail(t)[i - Len(u)]
      BY <2>1, <3>1, ConcatProperties
    <3>3. Len(u) + Len(Tail(t)) = Len(t)
      BY <2>1, <3>1
    <3>4. \A i \in 1..Len(t) : i <= 1 => i = 1
      OBVIOUS
    <3> QED
      BY <2>1, <3>2, <3>3, <3>4
  <2>3. ASSUME NEW i \in 1..Len(t) PROVE (u \o Tail(t))[i] = t[i]
    <3>1. CASE i = 1
      BY <2>1, <2>2, <3>1
    <3>2. CASE i # 1
      <4>1. i - 1 \in 1..Len(Tail(t)) /\ (i - 1) + 1 = i /\ ~(i <= 1)
        BY <3>2, HeadTailFacts
      <4> QED
        BY <2>2, <4>1, HeadTailFacts
    <3> QED
      BY <3>1, <3>2
  <2>4. u \o Tail(t) = t
    BY <2>2, <2>3, SeqEqual
  <2> QED
    BY <2>1, <2>4 DEF u
<1>3. Append(s, Head(t)) = s \o <<Head(t)>>
  BY <1>1, AppendIsConcat
<1> QED
  BY <1>1, <1>2, <1>3, ConcatAssociative

\* The strengthening of PublisherOrder: a publisher's events are numbered by its
\* calls, and only threads schedule.
Numbered ==
  /\ Ordered(Order)
  /\ \A i \in 1..Len(Order) : Order[i].n <= issued[Order[i].from]
  /\ \A p \in Publishers : \A n \in 1..issued[p] : Has(Order, [from |-> p, n |-> n])

Schedulers == \A i \in 1..Len(ready) : ready[i].from \in Threads

\* A new event keeps the numbering if no event of its publisher comes after it.
LEMMA IssueNumbered ==
  ASSUME TypeOK, TypeOK', Numbered, NEW p \in Publishers, Issue(p),
         NEW k \in 0..Len(Order), Inserted(Order, k, NextEvent(p), Order'),
         \A i \in k + 1..Len(Order) : Order[i].from # p
  PROVE  Numbered'
<1> DEFINE e == NextEvent(p)
<1>1. Order \in Seq(Events) /\ Order' \in Seq(Events)
  BY ConcatProperties DEF TypeOK, Order
<1>2. /\ e \in Events /\ e = [from |-> p, n |-> issued[p] + 1]
      /\ e.from = p /\ e.n = issued[p] + 1 /\ issued[p] \in Nat
  BY NextEventType DEF NextEvent, TypeOK
<1>3. \A q \in Publishers : issued'[q] = IF q = p THEN issued[p] + 1 ELSE issued[q]
  BY DEF Issue, TypeOK
<1>4. \A i \in 1..Len(Order) : Order[i] \in Events
  BY <1>1
<1> HIDE DEF e
<1>5. Ordered(Order')
  <2>1. ASSUME NEW i \in 1..k, Order[i].from = e.from PROVE Order[i].n < e.n
    <3>1. i \in 1..Len(Order)
      BY <1>1
    <3>2. Order[i].n \in Nat /\ Order[i].n <= issued[p]
      BY <1>2, <1>4, <2>1, <3>1 DEF Numbered, Events
    <3> QED
      BY <1>2, <3>2
  <2> QED
    BY <1>1, <1>2, <2>1, InsertOrdered DEF Numbered, e
<1>6. ASSUME NEW i \in 1..Len(Order') PROVE Order'[i].n <= issued'[Order'[i].from]
  <2>1. Order'[i] = e \/ \E j \in 1..Len(Order) : Order'[i] = Order[j]
    <3>1. /\ Len(Order) \in Nat /\ Len(Order') = Len(Order) + 1
          /\ Order'[i] = IF i <= k THEN Order[i] ELSE IF i = k + 1 THEN e ELSE Order[i - 1]
      BY <1>1 DEF Inserted, e
    <3>2. CASE i <= k
      BY <3>1, <3>2
    <3>3. CASE i = k + 1
      BY <3>1, <3>3
    <3>4. CASE i > k + 1
      <4>1. i - 1 \in 1..Len(Order) /\ Order'[i] = Order[i - 1]
        BY <3>1, <3>4
      <4> QED
        BY <4>1
    <3> QED
      BY <3>1, <3>2, <3>3, <3>4
  <2>2. CASE Order'[i] = e
    BY <1>2, <1>3, <2>2
  <2>3. ASSUME NEW j \in 1..Len(Order), Order'[i] = Order[j]
        PROVE  Order'[i].n <= issued'[Order'[i].from]
    <3>1. /\ Order[j].n <= issued[Order[j].from]
          /\ Order[j].from \in Publishers /\ Order[j].n \in Nat
      BY <1>4 DEF Numbered, Events
    <3> QED
      BY <1>2, <1>3, <2>3, <3>1
  <2> QED
    BY <2>1, <2>2, <2>3
<1>7. ASSUME NEW q \in Publishers, NEW n \in 1..issued'[q]
      PROVE  Has(Order', [from |-> q, n |-> n])
  <2>1. Has(Order', e) /\ \A f : Has(Order, f) => Has(Order', f)
    BY <1>1, <1>2, InsertHas DEF e
  <2>2. CASE n \in 1..issued[q]
    BY <2>1, <2>2 DEF Numbered
  <2>3. CASE q = p /\ n = issued[p] + 1
    BY <1>2, <2>1, <2>3
  <2>4. n \in 1..issued[q] \/ (q = p /\ n = issued[p] + 1)
    BY <1>2, <1>3
  <2> QED
    BY <2>2, <2>3, <2>4
<1> QED
  BY <1>5, <1>6, <1>7 DEF Numbered

\* Every step keeps the numbering.
LEMMA NumberedStep ==
  TypeOK /\ TypeOK' /\ Numbered /\ Schedulers /\ [Next]_vars => Numbered' /\ Schedulers'
<1> SUFFICES ASSUME TypeOK, TypeOK', Numbered, Schedulers, [Next]_vars
             PROVE  Numbered' /\ Schedulers'
  OBVIOUS
<1>1. log \in Seq(Events) /\ ready \in Seq(Events)
  BY DEF TypeOK
<1>2. ASSUME NEW t \in Threads, PublishThreadsafe(t) PROVE Numbered' /\ Schedulers'
  <2>1. t \in Publishers /\ NextEvent(t) \in Events /\ NextEvent(t).from = t
    BY NextEventType DEF Publishers, NextEvent
  <2>2. ready' = Append(ready, NextEvent(t)) /\ log' = log /\ Issue(t)
    BY <1>2 DEF PublishThreadsafe
  <2>3. Order' = log \o Append(ready, NextEvent(t))
    BY <2>2 DEF Order
  <2>4. Inserted(Order, Len(Order), NextEvent(t), Order')
    BY <1>1, <2>1, <2>3, ConcatAppend DEF Order
  <2>5. Len(Order) \in Nat
    BY <1>1, ConcatProperties DEF Order
  <2>6. Numbered'
    <3>1. Len(Order) \in 0..Len(Order) /\ \A i \in Len(Order) + 1..Len(Order) : Order[i].from # t
      BY <2>5
    <3> QED
      BY <2>1, <2>2, <2>4, <3>1, IssueNumbered
  <2>7. Schedulers'
    <3>1. /\ Len(ready') = Len(ready) + 1 /\ ready'[Len(ready) + 1] = NextEvent(t)
          /\ \A i \in 1..Len(ready) : ready'[i] = ready[i]
      BY <1>1, <2>1, <2>2, AppendProperties
    <3>2. Len(ready) \in Nat
      BY <1>1
    <3> QED
      BY <2>1, <3>1, <3>2 DEF Schedulers
  <2> QED
    BY <2>6, <2>7
<1>3. CASE RunScheduled
  <2>1. /\ ready # <<>> /\ log' = Append(log, Head(ready)) /\ ready' = Tail(ready)
        /\ issued' = issued
    BY <1>3 DEF RunScheduled, Publish
  <2>2. Order' = Order
    BY <1>1, <2>1, ConcatShift DEF Order
  <2>3. Numbered'
    BY <2>1, <2>2 DEF Numbered
  <2>4. Schedulers'
    BY <1>1, <2>1, HeadTailFacts DEF Schedulers
  <2> QED
    BY <2>3, <2>4
<1>4. ASSUME NEW p \in Coroutines, PublishNow(p) PROVE Numbered' /\ Schedulers'
  <2>1. p \in Publishers /\ p \notin Threads /\ NextEvent(p) \in Events
    BY NextEventType, PublishersAssumption DEF Publishers
  <2>2. ready' = ready /\ log' = Append(log, NextEvent(p)) /\ Issue(p)
    BY <1>4 DEF PublishNow, Publish
  <2>3. Order' = Append(log, NextEvent(p)) \o ready
    BY <2>2 DEF Order
  <2>4. Inserted(Order, Len(log), NextEvent(p), Order')
    BY <1>1, <2>1, <2>3, ConcatInsert DEF Order
  <2>5. /\ Len(log) \in Nat /\ Len(ready) \in Nat /\ Len(Order) = Len(log) + Len(ready)
        /\ \A i \in 1..Len(log) + Len(ready) :
             Order[i] = IF i <= Len(log) THEN log[i] ELSE ready[i - Len(log)]
    BY <1>1, ConcatProperties DEF Order
  <2>6. ASSUME NEW i \in Len(log) + 1..Len(Order) PROVE Order[i].from # p
    <3>1. i - Len(log) \in 1..Len(ready) /\ Order[i] = ready[i - Len(log)]
      BY <2>5
    <3> QED
      BY <2>1, <3>1 DEF Schedulers
  <2>7. Len(log) \in 0..Len(Order)
    BY <2>5
  <2> QED
    BY <2>1, <2>2, <2>4, <2>6, <2>7, IssueNumbered DEF Schedulers
<1>5. ASSUME NEW c \in Clients, Subscribe(c) \/ Send(c) \/ Disconnect(c)
      PROVE  Numbered' /\ Schedulers'
  BY <1>5 DEF Subscribe, Send, Disconnect, Numbered, Schedulers, Order
<1>6. CASE UNCHANGED vars
  BY <1>6 DEF vars, Numbered, Schedulers, Order
<1> QED
  BY <1>2, <1>3, <1>4, <1>5, <1>6 DEF Next

\* No event is lost between a publisher and the log, and each publisher's events
\* keep its order, for any number of threads and coroutines.
THEOREM OrderKept == Spec => []PublisherOrder
<1> DEFINE IInv == TypeOK /\ Numbered /\ Schedulers
<1>1. Init => IInv
  <2> SUFFICES ASSUME Init PROVE IInv
    OBVIOUS
  <2>1. Order = <<>> /\ ready = <<>> /\ issued = [p \in Publishers |-> 0]
    BY DEF Init, Order
  <2>2. Numbered /\ Schedulers
    BY <2>1 DEF Numbered, Schedulers, Ordered
  <2> QED
    BY <2>2, TypeInit
<1>2. IInv /\ [Next]_vars => IInv'
  BY TypeStep, NumberedStep
<1>3. IInv => PublisherOrder
  BY DEF Numbered, Ordered, Has, PublisherOrder
<1> QED
  BY <1>1, <1>2, <1>3, PTL DEF Spec

----------------------------------------------------------------------------
(* The activity ring                                                       *)

\* GET /admin/activity shows the newest events, newest first.
ActivityIsNewest ==
  /\ Len(activity) = IF Len(log) < ActivitySize THEN Len(log) ELSE ActivitySize
  /\ \A i \in 1..Len(activity) : activity[i] = log[Len(log) + 1 - i]

\* A publication keeps the ring the newest end of the log.
LEMMA PublishActivity ==
  ASSUME TypeOK, ActivityIsNewest, NEW e \in Events, Publish(e)
  PROVE  ActivityIsNewest'
<1>1. /\ activity \in Seq(Events) /\ log \in Seq(Events)
      /\ Len(activity) \in Nat /\ Len(log) \in Nat
      /\ activity' = Newest(<<e>> \o activity) /\ log' = Append(log, e)
  BY DEF TypeOK, Publish
<1>2. /\ Len(log') = Len(log) + 1 /\ log'[Len(log) + 1] = e
      /\ \A i \in 1..Len(log) : log'[i] = log[i]
  BY <1>1, AppendProperties
<1>3. /\ Len(activity') = IF Len(activity) + 1 < ActivitySize
                          THEN Len(activity) + 1 ELSE ActivitySize
      /\ activity'[1] = e
      /\ \A i \in 2..Len(activity') : activity'[i] = activity[i - 1]
  <2> DEFINE a == Newest(<<e>> \o activity)
  <2>1. /\ a \in Seq(Events)
        /\ Len(a) = IF Len(activity) + 1 < ActivitySize THEN Len(activity) + 1 ELSE ActivitySize
        /\ a[1] = e
        /\ \A i \in 2..Len(a) : a[i] = activity[i - 1]
    BY <1>1, NewestFacts
  <2> HIDE DEF a
  <2>2. activity' = a
    BY <1>1 DEF a
  <2> QED
    BY <2>1, <2>2
<1>4. /\ Len(activity) = IF Len(log) < ActivitySize THEN Len(log) ELSE ActivitySize
      /\ \A i \in 1..Len(activity) : activity[i] = log[Len(log) + 1 - i]
  BY DEF ActivityIsNewest
<1>5. Len(activity') = IF Len(log') < ActivitySize THEN Len(log') ELSE ActivitySize
  BY <1>1, <1>2, <1>3, <1>4, SizesAssumption
<1>6. ASSUME NEW i \in 1..Len(activity') PROVE activity'[i] = log'[Len(log') + 1 - i]
  <2>1. CASE i = 1
    <3>1. Len(log') + 1 - i = Len(log) + 1
      BY <1>1, <1>2, <2>1
    <3> QED
      BY <1>2, <1>3, <2>1, <3>1
  <2>2. CASE i # 1
    <3>1. /\ i \in 2..Len(activity') /\ i - 1 \in 1..Len(activity)
          /\ Len(log) + 1 - (i - 1) \in 1..Len(log)
          /\ Len(log) + 1 - (i - 1) = Len(log') + 1 - i
      BY <1>1, <1>2, <1>3, <1>4, <2>2, SizesAssumption
    <3> QED
      BY <1>2, <1>3, <1>4, <3>1
  <2> QED
    BY <2>1, <2>2
<1> QED
  BY <1>5, <1>6 DEF ActivityIsNewest

\* The activity feed shows the newest events, newest first.
THEOREM ActivityFeedNewest == Spec => []ActivityIsNewest
<1> DEFINE IInv == TypeOK /\ ActivityIsNewest
<1>1. Init => IInv
  BY TypeInit, SizesAssumption DEF Init, ActivityIsNewest
<1>2. IInv /\ [Next]_vars => IInv'
  <2> SUFFICES ASSUME IInv, [Next]_vars PROVE ActivityIsNewest'
    BY TypeStep
  <2>1. CASE RunScheduled
    <3>1. Head(ready) \in Events /\ Publish(Head(ready))
      BY <2>1, HeadTailFacts DEF RunScheduled, TypeOK
    <3> QED
      BY <3>1, PublishActivity
  <2>2. ASSUME NEW p \in Coroutines, PublishNow(p) PROVE ActivityIsNewest'
    BY <2>2, NextEventType, PublishActivity DEF PublishNow, Publishers
  <2>3. ASSUME NEW t \in Threads, PublishThreadsafe(t) PROVE ActivityIsNewest'
    BY <2>3 DEF PublishThreadsafe, ActivityIsNewest
  <2>4. ASSUME NEW c \in Clients, Subscribe(c) \/ Send(c) \/ Disconnect(c)
        PROVE  ActivityIsNewest'
    BY <2>4 DEF Subscribe, Send, Disconnect, ActivityIsNewest
  <2>5. CASE UNCHANGED vars
    BY <2>5 DEF vars, ActivityIsNewest
  <2> QED
    BY <2>1, <2>2, <2>3, <2>4, <2>5 DEF Next
<1>3. IInv => ActivityIsNewest
  OBVIOUS
<1> QED
  BY <1>1, <1>2, <1>3, PTL DEF Spec
=============================================================================
