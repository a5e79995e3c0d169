----------------------------- MODULE Broadcast -----------------------------
(***************************************************************************)
(* What the event bus promises its connections, free of publishers, the    *)
(* loop and queues: one log, and listeners that each read it in order from *)
(* where they joined.  A listener that is Lag items behind when the next   *)
(* one is published is dropped: its stretch of the log ends there, and it  *)
(* may still read up to that point.  EventBus implements this              *)
(* specification.                                                          *)
(***************************************************************************)
EXTENDS Integers, Sequences

CONSTANTS
  Audience,       \* those who may listen, once each
  Lag             \* how far a listener may fall behind

VARIABLES
  log,            \* what was published
  standing,       \* "away", "listening", "dropped" or "gone"
  start,          \* how much of the log was there when the listener joined
  received,       \* what it has read
  end             \* where in the log its stretch ends

Init ==
  /\ log = <<>>
  /\ standing = [c \in Audience |-> "away"]
  /\ start = [c \in Audience |-> 0]
  /\ received = [c \in Audience |-> <<>>]
  /\ end = [c \in Audience |-> 0]

Position(c) == start[c] + Len(received[c])

Behind == {c \in Audience : standing[c] = "listening" /\ end[c] - Position(c) = Lag}

\* Anything may be published.
Publish ==
  /\ Len(log') = Len(log) + 1
  /\ log' = Append(log, log'[Len(log) + 1])
  /\ standing' = [c \in Audience |-> IF c \in Behind THEN "dropped" ELSE standing[c]]
  /\ end' = [c \in Audience |->
               IF standing[c] = "listening" /\ c \notin Behind THEN Len(log) + 1 ELSE end[c]]
  /\ UNCHANGED <<start, received>>

Join(c) ==
  /\ standing[c] = "away"
  /\ standing' = [standing EXCEPT ![c] = "listening"]
  /\ start' = [start EXCEPT ![c] = Len(log)]
  /\ end' = [end EXCEPT ![c] = Len(log)]
  /\ UNCHANGED <<log, received>>

Read(c) ==
  /\ standing[c] \in {"listening", "dropped"}
  /\ Position(c) < end[c]
  /\ received' = [received EXCEPT ![c] = Append(@, log[Position(c) + 1])]
  /\ UNCHANGED <<log, standing, start, end>>

Leave(c) ==
  /\ standing[c] \in {"listening", "dropped"}
  /\ standing' = [standing EXCEPT ![c] = "gone"]
  /\ end' = [end EXCEPT ![c] = Position(c)]
  /\ UNCHANGED <<log, start, received>>

Next == Publish \/ \E c \in Audience : Join(c) \/ Read(c) \/ Leave(c)

Spec == Init /\ [][Next]_<<log, standing, start, received, end>>
=============================================================================
