------------------------------ MODULE MCEventHub ------------------------------
(* EventHub for TLC: a bounded number of events.                             *)
EXTENDS EventHub

CONSTANT MaxEvents

Bounded == published < MaxEvents \/ Len(in) = InCap

MCNext ==
    \/ (Request \/ Heartbeat) /\ Bounded
    \/ TickerStops \/ Run \/ Cancel
    \/ \E c \in Clients : Handler(c)

MCSpec == Init /\ [][MCNext]_vars /\ Fairness
===============================================================================
