---------------------------- MODULE LossyBroadcast ----------------------------
(* What the event stream promises a client of the user interface: events in  *)
(* the order they were published in, none of them twice, also over a         *)
(* reconnection.  It may miss some.                                          *)
EXTENDS Naturals

CONSTANT Clients

VARIABLES
    published,   \* how many events were published; they are numbered from 1
    next         \* next[c], the first event c may still be given

vars == <<published, next>>

Init == published = 0 /\ next = [c \in Clients |-> 1]

Publish == published' = published + 1 /\ UNCHANGED next

\* c is given event n, or passes it over.
Give(c, n) ==
    /\ n \in next[c]..published
    /\ next' = [next EXCEPT ![c] = n + 1]
    /\ UNCHANGED published

Next == Publish \/ \E c \in Clients : \E n \in next[c]..published : Give(c, n)

Spec == Init /\ [][Next]_vars
===============================================================================
