------------------------------- MODULE EventHub -------------------------------
(* The event hub (server/events.go), the goroutines that publish to it and   *)
(* the handlers that stream from it.  An event is its number; one that finds *)
(* the hub's queue full is gone before it gets one.                          *)
EXTENDS Naturals, Sequences

CONSTANTS
    Clients,       \* browsers and terminals; one stream each at a time
    InCap,         \* capacity of h.in
    ChanCap,       \* capacity of a client's channel
    Flushes        \* the writer the middleware hands to handleEvents is a Flusher

ASSUME CapsAssumption == InCap \in Nat \ {0} /\ ChanCap \in Nat \ {0} /\ Flushes \in BOOLEAN

VARIABLES
    in,            \* h.in
    hub,           \* run: "off" | "idle" | "took" | "sends" | "stopped"
    event,         \* the event run holds
    rest,          \* the clients it has still to send it to
    registered,    \* h.clients
    queue,         \* queue[c], the channel of c's stream
    stream,        \* handleEvents of c: "off" | "reads" | "left" | "removed" | "refused"
    ticking,       \* tickStatus runs
    cancelled,     \* the context of Start is done
    \* History, read by properties only.
    published,     \* events that got a number
    next,          \* next[c], the first event c was not yet given
    lost           \* clients that found their channel full in this stream

running == <<hub, event, rest>>
streams == <<registered, queue, stream>>
server  == <<ticking, cancelled>>
vars == <<in, running, streams, server, published, next, lost>>

Init ==
    /\ in = <<>> /\ hub = "off" /\ event = 0 /\ rest = {}
    /\ registered = {} /\ queue = [c \in Clients |-> <<>>]
    /\ stream = [c \in Clients |-> "off"]
    /\ ticking = TRUE /\ cancelled = FALSE
    /\ published = 0 /\ next = [c \in Clients |-> 1] /\ lost = {}

-------------------------------------------------------------------------------
(* publish: never waits.                                                     *)

Publish_Unbounded ==
    /\ in' = Append(in, published + 1) /\ published' = published + 1
    /\ UNCHANGED <<running, streams, server, next, lost>>

Publish ==
    /\ IF Len(in) < InCap
       THEN in' = Append(in, published + 1) /\ published' = published + 1
       ELSE UNCHANGED <<in, published>>
    /\ UNCHANGED <<running, streams, server, next, lost>>

\* A handler that changed something, also while the server goes down.
Request == Publish

Heartbeat == ticking /\ Publish

TickerStops ==
    /\ ticking /\ cancelled
    /\ ticking' = FALSE
    /\ UNCHANGED <<in, running, streams, cancelled, published, next, lost>>

-------------------------------------------------------------------------------
(* run.  It holds h.mu from the first send of an event to the last.          *)

HubStarts ==
    /\ hub = "off"
    /\ hub' = "idle"
    /\ UNCHANGED <<in, event, rest, streams, server, published, next, lost>>

Take_Newest ==
    /\ hub = "idle" /\ in # <<>>
    /\ hub' = "took" /\ event' = in[Len(in)] /\ in' = SubSeq(in, 1, Len(in) - 1)
    /\ UNCHANGED <<rest, streams, server, published, next, lost>>

Take ==
    /\ hub = "idle" /\ in # <<>>
    /\ hub' = "took" /\ event' = Head(in) /\ in' = Tail(in)
    /\ UNCHANGED <<rest, streams, server, published, next, lost>>

LockClients_Idle ==
    /\ hub = "took"
    /\ hub' = "sends" /\ rest' = {c \in registered : queue[c] = <<>>}
    /\ UNCHANGED <<in, event, streams, server, published, next, lost>>

LockClients ==
    /\ hub = "took"
    /\ hub' = "sends" /\ rest' = registered
    /\ UNCHANGED <<in, event, streams, server, published, next, lost>>

\* A send that does not wait.
SendTo_Waits(c) ==
    /\ hub = "sends" /\ c \in rest /\ Len(queue[c]) < ChanCap
    /\ rest' = rest \ {c}
    /\ queue' = [queue EXCEPT ![c] = Append(@, event)]
    /\ UNCHANGED <<in, hub, event, registered, stream, server, published, next, lost>>

SendTo(c) ==
    /\ hub = "sends" /\ c \in rest
    /\ rest' = rest \ {c}
    /\ IF Len(queue[c]) < ChanCap
       THEN queue' = [queue EXCEPT ![c] = Append(@, event)] /\ UNCHANGED lost
       ELSE lost' = lost \cup {c} /\ UNCHANGED queue
    /\ UNCHANGED <<in, hub, event, registered, stream, server, published, next>>

UnlockClients ==
    /\ hub = "sends" /\ rest = {}
    /\ hub' = "idle"
    /\ UNCHANGED <<in, event, rest, streams, server, published, next, lost>>

HubStops ==
    /\ hub = "idle" /\ cancelled
    /\ hub' = "stopped"
    /\ UNCHANGED <<in, event, rest, streams, server, published, next, lost>>

-------------------------------------------------------------------------------
(* handleEvents: its answer 500 if it cannot flush, subscribe, the select,   *)
(* and the deferred unsubscribe.                                             *)

Locked == hub = "sends"

\* A channel of its own; what the hub has not taken up yet is still to come.
Subscribe(c) ==
    /\ stream[c] = "off" /\ ~Locked
    /\ registered' = registered \cup {c}
    /\ queue' = [queue EXCEPT ![c] = <<>>]
    /\ stream' = [stream EXCEPT ![c] = "reads"]
    /\ next' = [next EXCEPT ![c] =
                  IF hub = "took" THEN event ELSE published + 1 - Len(in)]
    /\ lost' = lost \ {c}
    /\ UNCHANGED <<in, running, server, published>>

\* An EventSource that was answered with an error does not ask again.
Refuse(c) ==
    /\ stream[c] = "off"
    /\ stream' = [stream EXCEPT ![c] = "refused"]
    /\ UNCHANGED <<in, running, registered, queue, server, published, next, lost>>

Open(c) == IF Flushes THEN Subscribe(c) ELSE Refuse(c)

\* The select may take an event although the client has left.
Stream(c) ==
    /\ stream[c] \in {"reads", "left"} /\ queue[c] # <<>>
    /\ queue' = [queue EXCEPT ![c] = Tail(@)]
    /\ next' = [next EXCEPT ![c] = Head(queue[c]) + 1]
    /\ UNCHANGED <<in, running, registered, stream, server, published, lost>>

ClientLeaves(c) ==
    /\ stream[c] = "reads"
    /\ stream' = [stream EXCEPT ![c] = "left"]
    /\ UNCHANGED <<in, running, registered, queue, server, published, next, lost>>

Unsubscribe_Unlocked(c) ==
    /\ stream[c] = "left"
    /\ registered' = registered \ {c}
    /\ stream' = [stream EXCEPT ![c] = "removed"]
    /\ UNCHANGED <<in, running, queue, server, published, next, lost>>

Unsubscribe(c) ==
    /\ stream[c] = "left" /\ ~Locked
    /\ registered' = registered \ {c}
    /\ stream' = [stream EXCEPT ![c] = "removed"]
    /\ UNCHANGED <<in, running, queue, server, published, next, lost>>

CloseChannel(c) ==
    /\ stream[c] = "removed"
    /\ stream' = [stream EXCEPT ![c] = "off"]
    /\ UNCHANGED <<in, running, registered, queue, server, published, next, lost>>

Cancel ==
    /\ ~cancelled
    /\ cancelled' = TRUE
    /\ UNCHANGED <<in, running, streams, ticking, published, next, lost>>

-------------------------------------------------------------------------------
Run == HubStarts \/ Take \/ LockClients \/ UnlockClients \/ HubStops \/ \E c \in Clients : SendTo(c)

Handler(c) ==
    \/ Open(c) \/ Stream(c) \/ ClientLeaves(c) \/ Unsubscribe(c) \/ CloseChannel(c)

Next ==
    \/ Request \/ Heartbeat \/ TickerStops \/ Run \/ Cancel
    \/ \E c \in Clients : Handler(c)

\* The hub goes on, and a handler that waits for the mutex gets it in the end: Go's
\* mutex hands itself to one that waited too long.  No client needs to read.
Fairness ==
    /\ WF_vars(Run)
    /\ \A c \in Clients : SF_vars(Unsubscribe(c)) /\ WF_vars(CloseChannel(c))

Spec == Init /\ [][Next]_vars /\ Fairness

-------------------------------------------------------------------------------
TypeOK ==
    /\ in \in Seq(Nat) /\ Len(in) <= InCap
    /\ hub \in {"off", "idle", "took", "sends", "stopped"}
    /\ event \in Nat /\ rest \subseteq Clients /\ registered \subseteq Clients
    /\ queue \in [Clients -> Seq(Nat)] /\ \A c \in Clients : Len(queue[c]) <= ChanCap
    /\ stream \in [Clients -> {"off", "reads", "left", "removed", "refused"}]
    /\ ticking \in BOOLEAN /\ cancelled \in BOOLEAN
    /\ published \in Nat /\ next \in [Clients -> Nat] /\ lost \subseteq Clients

\* The hub never sends on a channel that its handler has closed, however clients
\* come and go while it sends (events.go:46-51, 59-66): that would end the process.
NoSendOnClosed == hub = "sends" => \A c \in rest : stream[c] # "off"

Holds(s) == {s[i] : i \in DOMAIN s}

\* What is still on its way to c.
OnItsWay(c) ==
    Holds(queue[c]) \cup Holds(in)
        \cup {e \in {event} : hub = "took" \/ (hub = "sends" /\ c \in rest)}

\* Every event from when a client subscribed on is given to it or on its way, unless
\* its channel was full (events.go:38-44, 58-66): no subscription slips between the
\* hub's hands and no event is sent to some of the subscribers only.
NothingLostUnlessFull ==
    \A c \in registered \ lost : next[c]..published \subseteq OnItsWay(c)

\* Who asks for the event stream gets it (events.go:110): no request is refused.
NoneRefused == \A c \in Clients : stream[c] # "refused"

\* The stream of every client is the lossy broadcast it was promised.
Promise == INSTANCE LossyBroadcast
KeepsPromise == Promise!Spec

\* A handler whose client has gone ends, also if its channel is full and the hub is
\* about to send on it (events.go:46-51, 61-64).
HandlersEnd == \A c \in Clients : stream[c] = "left" ~> stream[c] = "off"
===============================================================================
