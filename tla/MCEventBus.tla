----------------------------- MODULE MCEventBus -----------------------------
(* Instances of EventBus for TLC: one client reads, the other may stall.   *)
EXTENDS EventBus

CONSTANTS stream, orders, api, portal, stalled

MCThreads == {stream, orders}
MCCoroutines == {api}
MCClients == {portal, stalled}
MCReaders == {portal}
=============================================================================
