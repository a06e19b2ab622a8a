---------------------------- MODULE EventHubProofs ----------------------------
(* The event stream keeps its promise for any clients and any capacities.    *)
EXTENDS EventHub, Integers, TLAPS

LEMMA AppendFacts ==
    ASSUME NEW s \in Seq(Nat), NEW e \in Nat
    PROVE  /\ Append(s, e) \in Seq(Nat) /\ Len(Append(s, e)) = Len(s) + 1 /\ Len(s) \in Nat
           /\ \A i \in 1..Len(s) : Append(s, e)[i] = s[i]
           /\ Append(s, e)[Len(s) + 1] = e
OBVIOUS

LEMMA TailFacts ==
    ASSUME NEW s \in Seq(Nat), s # <<>>
    PROVE  /\ Len(s) \in Nat \ {0} /\ Head(s) = s[1] /\ Head(s) \in Nat
           /\ Tail(s) \in Seq(Nat) /\ Len(Tail(s)) = Len(s) - 1
           /\ \A i \in 1..Len(s) - 1 : Tail(s)[i] = s[i + 1]
OBVIOUS

LEMMA EmptyFacts == <<>> \in Seq(Nat) /\ Len(<<>>) = 0
OBVIOUS

\* The number of the last event the hub has done with, as far as c is concerned.
Done(c) == IF hub = "took" \/ (hub = "sends" /\ c \in rest)
           THEN published - Len(in) - 1 ELSE published - Len(in)

\* The hub's queue holds the last events, and the hub the one before them.
HubInv ==
    /\ Len(in) <= published
    /\ \A i \in 1..Len(in) : in[i] = published - Len(in) + i
    /\ hub \in {"took", "sends"} => event = published - Len(in) /\ event >= 1

\* Who is registered, and that the hub sends to no one else.
ClientsInv ==
    /\ \A c \in Clients : c \in registered <=> stream[c] \in {"reads", "left"}
    /\ hub = "sends" => rest \subseteq registered

\* The channel of c: ascending, between what c has and what the hub has done, and
\* without a gap unless something was lost.
StreamInv(c) ==
    /\ next[c] <= Done(c) + 1
    /\ \A i \in 1..Len(queue[c]) : next[c] <= queue[c][i] /\ queue[c][i] <= Done(c)
    /\ \A i, j \in 1..Len(queue[c]) : i < j => queue[c][i] < queue[c][j]
    /\ c \in registered \ lost =>
          /\ Len(queue[c]) = Done(c) + 1 - next[c]
          /\ \A i \in 1..Len(queue[c]) : queue[c][i] = next[c] + i - 1

Inv == TypeOK /\ HubInv /\ ClientsInv /\ \A c \in Clients : StreamInv(c)

LEMMA InvInit == Init => Inv
<1> SUFFICES ASSUME Init PROVE Inv
  OBVIOUS
<1>1. TypeOK
  <2>1. in \in Seq(Nat) /\ Len(in) <= InCap
    BY EmptyFacts, CapsAssumption DEF Init
  <2>2. queue \in [Clients -> Seq(Nat)] /\ \A c \in Clients : Len(queue[c]) <= ChanCap
    BY EmptyFacts, CapsAssumption DEF Init
  <2> QED
    BY <2>1, <2>2 DEF Init, TypeOK
<1>2. HubInv /\ ClientsInv
  BY EmptyFacts DEF Init, HubInv, ClientsInv
<1>3. ASSUME NEW c \in Clients PROVE StreamInv(c)
  BY EmptyFacts DEF Init, StreamInv, Done
<1> QED
  BY <1>1, <1>2, <1>3 DEF Inv

LEMMA TypeStep == TypeOK /\ HubInv /\ [Next]_vars => TypeOK'
<1> SUFFICES ASSUME TypeOK, HubInv, [Next]_vars PROVE TypeOK'
  OBVIOUS
<1> USE DEF TypeOK, running, streams, server
<1>a. published + 1 - Len(in) \in Nat
  BY DEF HubInv
<1>1. CASE Publish
  <2>1. CASE Len(in) < InCap
    <3>1. in' \in Seq(Nat) /\ Len(in') = Len(in) + 1 /\ Len(in) \in Nat
      <4>1. in' = Append(in, published + 1) /\ published + 1 \in Nat
        BY <1>1, <2>1 DEF Publish
      <4> QED
        BY <4>1, AppendFacts
    <3>2. Len(in') <= InCap
      BY <2>1, <3>1, CapsAssumption
    <3> QED
      BY <1>1, <2>1, <3>1, <3>2 DEF Publish
  <2>2. CASE ~(Len(in) < InCap)
    BY <1>1, <2>2 DEF Publish
  <2> QED
    BY <2>1, <2>2
<1>2. CASE TickerStops \/ HubStarts \/ LockClients \/ UnlockClients \/ HubStops \/ Cancel
  BY <1>2 DEF TickerStops, HubStarts, LockClients, UnlockClients, HubStops, Cancel
<1>3. CASE Take
  <2>1. in' \in Seq(Nat) /\ Len(in') = Len(in) - 1 /\ Len(in) \in Nat \ {0} /\ event' \in Nat
    BY <1>3, TailFacts DEF Take
  <2>2. Len(in') <= InCap
    BY <2>1, CapsAssumption
  <2> QED
    BY <1>3, <2>1, <2>2 DEF Take
<1>4. ASSUME NEW c \in Clients, SendTo(c)
      PROVE  TypeOK'
  <2>1. CASE Len(queue[c]) < ChanCap
    <3> DEFINE q == Append(queue[c], event)
    <3>1. q \in Seq(Nat) /\ Len(q) = Len(queue[c]) + 1 /\ Len(queue[c]) \in Nat
      BY AppendFacts
    <3>2. Len(q) <= ChanCap
      BY <2>1, <3>1, CapsAssumption
    <3>3. queue' = [queue EXCEPT ![c] = q]
      BY <1>4, <2>1 DEF SendTo
    <3> HIDE DEF q
    <3>4. queue' \in [Clients -> Seq(Nat)] /\ \A d \in Clients : Len(queue'[d]) <= ChanCap
      BY <3>1, <3>2, <3>3
    <3> QED
      BY <1>4, <2>1, <3>4 DEF SendTo
  <2>2. CASE ~(Len(queue[c]) < ChanCap)
    BY <1>4, <2>2 DEF SendTo
  <2> QED
    BY <2>1, <2>2
<1>5. ASSUME NEW c \in Clients, Subscribe(c)
      PROVE  TypeOK'
  <2>1. queue' \in [Clients -> Seq(Nat)] /\ \A d \in Clients : Len(queue'[d]) <= ChanCap
    BY <1>5, EmptyFacts, CapsAssumption DEF Subscribe
  <2>2. next' \in [Clients -> Nat]
    BY <1>5, <1>a DEF Subscribe
  <2> QED
    BY <1>5, <2>1, <2>2 DEF Subscribe
<1>6. ASSUME NEW c \in Clients, Stream(c)
      PROVE  TypeOK'
  <2> DEFINE q == Tail(queue[c])
  <2>1. /\ q \in Seq(Nat) /\ Len(q) = Len(queue[c]) - 1 /\ Len(queue[c]) \in Nat
        /\ Head(queue[c]) \in Nat
    BY <1>6, TailFacts DEF Stream
  <2>2. Len(q) <= ChanCap
    BY <2>1, CapsAssumption
  <2>3. queue' = [queue EXCEPT ![c] = q] /\ next' = [next EXCEPT ![c] = Head(queue[c]) + 1]
    BY <1>6 DEF Stream
  <2> HIDE DEF q
  <2>4. queue' \in [Clients -> Seq(Nat)] /\ \A d \in Clients : Len(queue'[d]) <= ChanCap
    BY <2>1, <2>2, <2>3
  <2>5. next' \in [Clients -> Nat]
    BY <2>1, <2>3
  <2> QED
    BY <1>6, <2>4, <2>5 DEF Stream
<1>7. ASSUME NEW c \in Clients, Refuse(c) \/ ClientLeaves(c) \/ Unsubscribe(c) \/ CloseChannel(c)
      PROVE  TypeOK'
  BY <1>7 DEF Refuse, ClientLeaves, Unsubscribe, CloseChannel
<1>8. CASE UNCHANGED vars
  BY <1>8 DEF vars
<1> QED
  BY <1>1, <1>2, <1>3, <1>4, <1>5, <1>6, <1>7, <1>8 DEF Next, Request, Heartbeat, Run, Handler, Open

LEMMA ClientsStep == TypeOK /\ ClientsInv /\ [Next]_vars => ClientsInv'
<1> SUFFICES ASSUME TypeOK, ClientsInv, [Next]_vars PROVE ClientsInv'
  OBVIOUS
<1>a. stream \in [Clients -> {"off", "reads", "left", "removed", "refused"}] /\ registered \subseteq Clients
  BY DEF TypeOK
<1> USE DEF ClientsInv, running, streams
<1>1. CASE \/ Publish \/ TickerStops \/ HubStarts \/ Take \/ LockClients \/ UnlockClients
           \/ HubStops \/ Cancel \/ UNCHANGED vars
  BY <1>1 DEF Publish, TickerStops, HubStarts, Take, LockClients, UnlockClients, HubStops,
     Cancel, vars
<1>2. ASSUME NEW c \in Clients, SendTo(c)
      PROVE  ClientsInv'
  BY <1>2 DEF SendTo
<1>3. ASSUME NEW c \in Clients, Subscribe(c) \/ Unsubscribe(c)
      PROVE  ClientsInv'
  BY <1>a, <1>3 DEF Subscribe, Unsubscribe, Locked
<1>4. ASSUME NEW c \in Clients, Stream(c) \/ Refuse(c) \/ ClientLeaves(c) \/ CloseChannel(c)
      PROVE  ClientsInv'
  BY <1>a, <1>4 DEF Stream, Refuse, ClientLeaves, CloseChannel
<1> QED
  BY <1>1, <1>2, <1>3, <1>4 DEF Next, Request, Heartbeat, Run, Handler, Open

LEMMA HubStep == TypeOK /\ HubInv /\ [Next]_vars => HubInv'
<1> SUFFICES ASSUME TypeOK, HubInv, [Next]_vars PROVE HubInv'
  OBVIOUS
<1>a. in \in Seq(Nat) /\ published \in Nat /\ event \in Nat
  BY DEF TypeOK
<1> USE DEF HubInv, running
<1>1. CASE Publish
  <2>1. CASE Len(in) < InCap
    <3>1. /\ in' = Append(in, published + 1) /\ published' = published + 1
          /\ UNCHANGED <<hub, event>>
      BY <1>1, <2>1 DEF Publish
    <3>2. /\ Len(in') = Len(in) + 1 /\ Len(in) \in Nat
          /\ \A i \in 1..Len(in) : in'[i] = in[i]
          /\ in'[Len(in) + 1] = published + 1
      BY <1>a, <3>1, AppendFacts
    <3>3. published' - Len(in') = published - Len(in) /\ Len(in') <= published'
      BY <1>a, <3>1, <3>2
    <3>4. ASSUME NEW i \in 1..Len(in') PROVE in'[i] = published' - Len(in') + i
      <4>1. CASE i = Len(in) + 1
        <5>1. published + 1 = published - Len(in) + (Len(in) + 1)
          BY <1>a, <3>2
        <5> QED
          BY <3>2, <3>3, <4>1, <5>1
      <4>2. CASE i # Len(in) + 1
        <5>1. i \in 1..Len(in)
          BY <3>2, <4>2
        <5> QED
          BY <3>2, <3>3, <5>1
      <4> QED
        BY <4>1, <4>2
    <3> QED
      BY <3>1, <3>3, <3>4
  <2>2. CASE ~(Len(in) < InCap)
    BY <1>1, <2>2 DEF Publish
  <2> QED
    BY <2>1, <2>2
<1>2. CASE Take
  <2>1. /\ Len(in') = Len(in) - 1 /\ Len(in) \in Nat \ {0}
        /\ \A i \in 1..Len(in') : in'[i] = in[i + 1]
        /\ event' = in[1] /\ published' = published
    BY <1>a, <1>2, TailFacts DEF Take
  <2>2. event' = published - Len(in) + 1
    BY <2>1
  <2>3. \A i \in 1..Len(in') : in'[i] = published' - Len(in') + i
    <3> SUFFICES ASSUME NEW i \in 1..Len(in')
                 PROVE  in'[i] = published' - Len(in') + i
      OBVIOUS
    <3>1. i + 1 \in 1..Len(in)
      BY <2>1
    <3>2. in[i + 1] = published - Len(in) + (i + 1)
      BY <3>1
    <3> QED
      BY <1>a, <2>1, <3>2
  <2> QED
    BY <1>a, <2>1, <2>2, <2>3
<1>3. CASE \/ TickerStops \/ HubStarts \/ LockClients \/ UnlockClients \/ HubStops \/ Cancel
           \/ UNCHANGED vars
  BY <1>3 DEF TickerStops, HubStarts, LockClients, UnlockClients, HubStops, Cancel, vars
<1>4. ASSUME NEW c \in Clients, SendTo(c) \/ Handler(c)
      PROVE  HubInv'
  BY <1>4 DEF SendTo, Handler, Open, Refuse, Subscribe, Stream, ClientLeaves, Unsubscribe, CloseChannel
<1> QED
  BY <1>1, <1>2, <1>3, <1>4 DEF Next, Request, Heartbeat, Run

-------------------------------------------------------------------------------
\* A client whose channel and place a step leaves alone.
LEMMA Frame ==
    ASSUME NEW c \in Clients, TypeOK, StreamInv(c), Done(c) \in Int,
           queue'[c] = queue[c], next'[c] = next[c],
           c \in registered' \ lost' => c \in registered \ lost,
           \/ Done(c)' = Done(c)
           \/ c \notin registered' /\ Done(c)' = Done(c) + 1
    PROVE  StreamInv(c)'
<1>1. next[c] \in Nat /\ queue[c] \in Seq(Nat)
  BY DEF TypeOK
<1>2. CASE Done(c)' = Done(c)
  BY <1>1, <1>2 DEF StreamInv
<1>3. CASE c \notin registered' /\ Done(c)' = Done(c) + 1
  <2>1. \A i \in 1..Len(queue[c]) : queue[c][i] \in Nat
    BY <1>1
  <2>2. next'[c] <= Done(c)' + 1
    BY <1>1, <1>3 DEF StreamInv
  <2>3. \A i \in 1..Len(queue'[c]) : next'[c] <= queue'[c][i] /\ queue'[c][i] <= Done(c)'
    BY <1>1, <1>3, <2>1 DEF StreamInv
  <2> QED
    BY <1>3, <2>2, <2>3 DEF StreamInv
<1> QED
  BY <1>2, <1>3

LEMMA DoneType ==
    ASSUME TypeOK, HubInv, NEW c \in Clients
    PROVE  Done(c) \in Int /\ published \in Nat /\ Len(in) \in Nat
BY DEF TypeOK, HubInv, Done

LEMMA StreamStep ==
    ASSUME Inv, [Next]_vars, NEW c \in Clients
    PROVE  StreamInv(c)'
<1>a. TypeOK /\ HubInv /\ ClientsInv /\ StreamInv(c)
  BY DEF Inv
<1>b. /\ Done(c) \in Int /\ published \in Nat /\ Len(in) \in Nat
      /\ queue \in [Clients -> Seq(Nat)] /\ next \in [Clients -> Nat]
      /\ in \in Seq(Nat) /\ event \in Nat
  BY <1>a, DoneType DEF TypeOK
<1>1. CASE Publish
  <2>1. UNCHANGED <<hub, event, rest, registered, queue, next, lost>>
    BY <1>1 DEF Publish, running, streams
  <2>2. published' - Len(in') = published - Len(in)
    <3>1. CASE Len(in) < InCap
      <4>1. Len(in') = Len(in) + 1 /\ published' = published + 1
        BY <1>1, <1>b, <3>1, AppendFacts DEF Publish
      <4> QED
        BY <1>b, <4>1
    <3>2. CASE ~(Len(in) < InCap)
      BY <1>1, <3>2 DEF Publish
    <3> QED
      BY <3>1, <3>2
  <2>3. Done(c)' = Done(c)
    BY <2>1, <2>2 DEF Done
  <2> QED
    BY <1>a, <1>b, <2>1, <2>3, Frame
<1>2. CASE Take
  <2>1. UNCHANGED <<rest, registered, queue, next, lost, published>> /\ hub = "idle" /\ hub' = "took"
    BY <1>2 DEF Take, streams
  <2>2. Len(in') = Len(in) - 1
    BY <1>2, <1>b, TailFacts DEF Take
  <2>3. Done(c)' = Done(c)
    BY <1>b, <2>1, <2>2 DEF Done
  <2> QED
    BY <1>a, <1>b, <2>1, <2>3, Frame
<1>3. CASE LockClients
  <2>1. /\ UNCHANGED <<in, registered, queue, next, lost, published>>
        /\ hub = "took" /\ hub' = "sends" /\ rest' = registered
    BY <1>3 DEF LockClients, streams
  <2>2. \/ Done(c)' = Done(c)
        \/ c \notin registered' /\ Done(c)' = Done(c) + 1
    BY <1>b, <2>1 DEF Done
  <2> QED
    BY <1>a, <1>b, <2>1, <2>2, Frame
<1>4. ASSUME NEW d \in Clients, SendTo(d), d # c
      PROVE  StreamInv(c)'
  <2>1. /\ UNCHANGED <<in, hub, registered, next, published>>
        /\ rest' = rest \ {d} /\ queue'[c] = queue[c] /\ lost \subseteq lost'
    BY <1>4, <1>b DEF SendTo
  <2>2. Done(c)' = Done(c)
    BY <1>4, <2>1 DEF Done
  <2> QED
    BY <1>a, <1>b, <2>1, <2>2, Frame
<1>5. CASE SendTo(c)
  <2>1. /\ UNCHANGED <<in, hub, registered, next, published>> /\ hub = "sends"
        /\ rest' = rest \ {c} /\ c \in rest /\ event = published - Len(in)
    BY <1>5, <1>a DEF SendTo, HubInv
  <2>2. Done(c)' = Done(c) + 1 /\ event = Done(c) + 1
    BY <1>b, <2>1 DEF Done
  <2>3. CASE Len(queue[c]) < ChanCap
    <3> DEFINE q == queue[c]
    <3>1. queue'[c] = Append(q, event) /\ lost' = lost
      BY <1>5, <1>b, <2>3 DEF SendTo
    <3>2. /\ Len(queue'[c]) = Len(q) + 1 /\ Len(q) \in Nat
          /\ \A i \in 1..Len(q) : queue'[c][i] = q[i] /\ q[i] \in Nat
          /\ queue'[c][Len(q) + 1] = event
      BY <1>b, <3>1, AppendFacts
    <3>3. /\ next[c] \in Nat /\ next[c] <= event
          /\ \A i \in 1..Len(q) : next[c] <= q[i] /\ q[i] < event
      <4>1. /\ next[c] <= Done(c) + 1
            /\ \A i \in 1..Len(q) : next[c] <= q[i] /\ q[i] <= Done(c)
        BY <1>a DEF StreamInv
      <4>2. /\ next[c] \in Nat /\ Done(c) \in Int /\ event = Done(c) + 1
            /\ \A i \in 1..Len(q) : q[i] \in Nat
        BY <1>b, <2>2, <3>2
      <4> HIDE DEF q
      <4> QED
        BY <4>1, <4>2
    <3> HIDE DEF q
    <3>4. next'[c] <= Done(c)' + 1
      BY <1>b, <2>1, <2>2, <3>3
    <3>5. \A i \in 1..Len(queue'[c]) : next'[c] <= queue'[c][i] /\ queue'[c][i] <= Done(c)'
      <4> SUFFICES ASSUME NEW i \in 1..Len(queue'[c])
                   PROVE  next'[c] <= queue'[c][i] /\ queue'[c][i] <= Done(c)'
        OBVIOUS
      <4>1. CASE i = Len(q) + 1
        BY <1>b, <2>1, <2>2, <3>2, <3>3, <4>1
      <4>2. CASE i # Len(q) + 1
        <5>1. i \in 1..Len(q)
          BY <3>2, <4>2
        <5>2. queue'[c][i] = q[i] /\ q[i] \in Nat /\ next'[c] = next[c] /\ Done(c)' = event
          BY <2>1, <2>2, <3>2, <5>1
        <5>3. next[c] <= q[i] /\ q[i] < event
          BY <3>3, <5>1
        <5> QED
          BY <1>b, <5>2, <5>3
      <4> QED
        BY <4>1, <4>2
    <3>6. \A i, j \in 1..Len(queue'[c]) : i < j => queue'[c][i] < queue'[c][j]
      <4> SUFFICES ASSUME NEW i \in 1..Len(queue'[c]), NEW j \in 1..Len(queue'[c]), i < j
                   PROVE  queue'[c][i] < queue'[c][j]
        OBVIOUS
      <4>1. i \in 1..Len(q)
        BY <3>2
      <4>2. CASE j = Len(q) + 1
        BY <3>2, <3>3, <4>1, <4>2
      <4>3. CASE j # Len(q) + 1
        <5>1. j \in 1..Len(q)
          BY <3>2, <4>3
        <5> QED
          BY <1>a, <3>2, <4>1, <5>1 DEF StreamInv, q
      <4> QED
        BY <4>2, <4>3
    <3>7. c \in registered' \ lost' =>
             /\ Len(queue'[c]) = Done(c)' + 1 - next'[c]
             /\ \A i \in 1..Len(queue'[c]) : queue'[c][i] = next'[c] + i - 1
      <4> SUFFICES ASSUME c \in registered' \ lost'
                   PROVE  /\ Len(queue'[c]) = Done(c)' + 1 - next'[c]
                          /\ \A i \in 1..Len(queue'[c]) : queue'[c][i] = next'[c] + i - 1
        OBVIOUS
      <4>1. /\ Len(q) = Done(c) + 1 - next[c]
            /\ \A i \in 1..Len(q) : q[i] = next[c] + i - 1
        BY <1>a, <2>1, <3>1 DEF StreamInv, q
      <4>2. Len(queue'[c]) = Done(c)' + 1 - next'[c]
        BY <1>b, <2>1, <2>2, <3>2, <3>3, <4>1
      <4>3. event = next[c] + (Len(q) + 1) - 1
        BY <1>b, <2>2, <3>2, <3>3, <4>1
      <4>4. ASSUME NEW i \in 1..Len(queue'[c])
            PROVE  queue'[c][i] = next'[c] + i - 1
        <5>1. CASE i = Len(q) + 1
          BY <2>1, <3>2, <4>3, <5>1
        <5>2. CASE i # Len(q) + 1
          <6>1. i \in 1..Len(q)
            BY <3>2, <5>2
          <6> QED
            BY <2>1, <3>2, <4>1, <6>1
        <5> QED
          BY <5>1, <5>2
      <4> QED
        BY <4>2, <4>4
    <3> QED
      BY <3>4, <3>5, <3>6, <3>7 DEF StreamInv
  <2>4. CASE ~(Len(queue[c]) < ChanCap)
    <3>1. queue' = queue /\ c \in lost'
      BY <1>5, <2>4 DEF SendTo
    <3>2. \A i \in 1..Len(queue[c]) : queue[c][i] \in Nat
      BY <1>b
    <3>3. next[c] \in Nat /\ next'[c] <= Done(c)' + 1
      BY <1>a, <1>b, <2>1, <2>2 DEF StreamInv
    <3>4. \A i \in 1..Len(queue[c]) : next[c] <= queue[c][i] /\ queue[c][i] <= Done(c)'
      <4>1. \A i \in 1..Len(queue[c]) : next[c] <= queue[c][i] /\ queue[c][i] <= Done(c)
        BY <1>a DEF StreamInv
      <4>2. Done(c) \in Int /\ Done(c)' = Done(c) + 1
        BY <1>b, <2>2
      <4> QED
        BY <3>2, <4>1, <4>2
    <3> QED
      BY <1>a, <2>1, <3>1, <3>3, <3>4 DEF StreamInv
  <2> QED
    BY <2>3, <2>4
<1>6. CASE UnlockClients \/ HubStarts \/ HubStops \/ TickerStops \/ Cancel \/ UNCHANGED vars
  <2>1. UNCHANGED <<in, rest, registered, queue, next, lost, published>>
    BY <1>6 DEF UnlockClients, HubStarts, HubStops, TickerStops, Cancel, vars, running, streams
  <2>2. Done(c)' = Done(c)
    BY <1>6, <2>1 DEF Done, UnlockClients, HubStarts, HubStops, TickerStops, Cancel, vars, running
  <2> QED
    BY <1>a, <1>b, <2>1, <2>2, Frame
<1>7. ASSUME NEW d \in Clients, Handler(d), d # c
      PROVE  StreamInv(c)'
  <2>1. /\ UNCHANGED <<in, hub, rest, published>> /\ queue'[c] = queue[c] /\ next'[c] = next[c]
        /\ c \in registered' \ lost' => c \in registered \ lost
    BY <1>7, <1>b DEF Handler, Open, Refuse, Subscribe, Stream, ClientLeaves, Unsubscribe, CloseChannel,
       running, streams
  <2>2. Done(c)' = Done(c)
    BY <2>1 DEF Done
  <2> QED
    BY <1>a, <1>b, <2>1, <2>2, Frame
<1>8. CASE Subscribe(c)
  <2>1. /\ UNCHANGED <<in, hub, rest, published>> /\ hub # "sends"
        /\ queue'[c] = <<>>
        /\ next'[c] = IF hub = "took" THEN event ELSE published + 1 - Len(in)
    BY <1>8, <1>b DEF Subscribe, Locked, running
  <2>2. Done(c)' = Done(c) /\ next'[c] = Done(c) + 1
    BY <1>a, <1>b, <2>1 DEF Done, HubInv
  <2> QED
    <3>a. Len(queue'[c]) = 0
      BY <2>1, EmptyFacts
    <3>b. Done(c)' \in Int /\ next'[c] = Done(c)' + 1
      BY <1>b, <2>2
    <3>1. Len(queue'[c]) = 0 /\ Len(queue'[c]) = Done(c)' + 1 - next'[c] /\ next'[c] <= Done(c)' + 1
      BY <3>a, <3>b
    <3>2. \A i : i \notin 1..Len(queue'[c])
      BY <3>1
    <3> QED
      BY <3>1, <3>2 DEF StreamInv
<1>9. CASE Stream(c)
  <2> DEFINE q == queue[c]
  <2>1. /\ UNCHANGED <<in, hub, rest, published, registered, lost>>
        /\ q # <<>> /\ queue'[c] = Tail(q) /\ next'[c] = Head(q) + 1
    BY <1>9, <1>b DEF Stream, running
  <2>2. Done(c)' = Done(c)
    BY <2>1 DEF Done
  <2>3. /\ Len(q) \in Nat \ {0} /\ next'[c] = q[1] + 1 /\ Len(queue'[c]) = Len(q) - 1
        /\ \A i \in 1..Len(q) - 1 : queue'[c][i] = q[i + 1]
        /\ \A i \in 1..Len(q) : q[i] \in Nat
    <3>1. q \in Seq(Nat)
      BY <1>b
    <3>2. \A i \in 1..Len(q) : q[i] \in Nat
      BY <3>1
    <3> QED
      BY <2>1, <3>1, <3>2, TailFacts
  <2>4. /\ \A i \in 1..Len(q) : q[i] <= Done(c)
        /\ \A i, j \in 1..Len(q) : i < j => q[i] < q[j]
        /\ c \in registered \ lost => /\ Len(q) = Done(c) + 1 - next[c]
                                      /\ \A i \in 1..Len(q) : q[i] = next[c] + i - 1
    BY <1>a DEF StreamInv
  <2> HIDE DEF q
  <2>5. 1 \in 1..Len(q)
    BY <2>3
  <2>6. next'[c] <= Done(c)' + 1
    <3>1. q[1] <= Done(c) /\ q[1] \in Nat
      BY <2>3, <2>4, <2>5
    <3> QED
      BY <1>b, <2>2, <2>3, <3>1
  <2>7. \A i \in 1..Len(queue'[c]) : i + 1 \in 1..Len(q) /\ i \in 1..Len(q) - 1
    BY <2>3
  <2>8. \A i \in 1..Len(queue'[c]) : next'[c] <= queue'[c][i] /\ queue'[c][i] <= Done(c)'
    <3> SUFFICES ASSUME NEW i \in 1..Len(queue'[c])
                 PROVE  next'[c] <= queue'[c][i] /\ queue'[c][i] <= Done(c)'
      OBVIOUS
    <3>1. queue'[c][i] = q[i + 1] /\ i + 1 \in 1..Len(q) /\ 1 < i + 1
      BY <2>3, <2>7
    <3>2. q[1] < q[i + 1] /\ q[1] \in Nat /\ q[i + 1] \in Nat /\ q[i + 1] <= Done(c)
      BY <2>3, <2>4, <2>5, <3>1
    <3> QED
      BY <2>2, <2>3, <3>1, <3>2
  <2>9. \A i, j \in 1..Len(queue'[c]) : i < j => queue'[c][i] < queue'[c][j]
    <3> SUFFICES ASSUME NEW i \in 1..Len(queue'[c]), NEW j \in 1..Len(queue'[c]), i < j
                 PROVE  queue'[c][i] < queue'[c][j]
      OBVIOUS
    <3>1. i + 1 < j + 1 /\ i + 1 \in 1..Len(q) /\ j + 1 \in 1..Len(q)
      BY <2>7
    <3> QED
      BY <2>3, <2>4, <2>7, <3>1
  <2>10. c \in registered' \ lost' =>
            /\ Len(queue'[c]) = Done(c)' + 1 - next'[c]
            /\ \A i \in 1..Len(queue'[c]) : queue'[c][i] = next'[c] + i - 1
    <3> SUFFICES ASSUME c \in registered \ lost
                 PROVE  /\ Len(queue'[c]) = Done(c)' + 1 - next'[c]
                        /\ \A i \in 1..Len(queue'[c]) : queue'[c][i] = next'[c] + i - 1
      BY <2>1
    <3>1. q[1] = next[c] /\ next[c] \in Nat
      BY <1>b, <2>4, <2>5
    <3>2. next'[c] = next[c] + 1
      BY <2>3, <3>1
    <3>3. Len(queue'[c]) = Done(c)' + 1 - next'[c]
      BY <1>b, <2>2, <2>3, <2>4, <3>1, <3>2
    <3>4. ASSUME NEW i \in 1..Len(queue'[c])
          PROVE  queue'[c][i] = next'[c] + i - 1
      <4>1. q[i + 1] = next[c] + (i + 1) - 1
        BY <2>4, <2>7
      <4> QED
        BY <2>3, <2>7, <3>1, <3>2, <4>1
    <3> QED
      BY <3>3, <3>4
  <2> QED
    BY <2>6, <2>8, <2>9, <2>10 DEF StreamInv
<1>10. CASE Refuse(c) \/ ClientLeaves(c) \/ Unsubscribe(c) \/ CloseChannel(c)
  <2>1. /\ UNCHANGED <<in, hub, rest, published, queue, next, lost>>
        /\ registered' \subseteq registered
    BY <1>10 DEF Refuse, ClientLeaves, Unsubscribe, CloseChannel, running, streams
  <2>2. Done(c)' = Done(c)
    BY <2>1 DEF Done
  <2> QED
    BY <1>a, <1>b, <2>1, <2>2, Frame
<1> QED
  BY <1>1, <1>2, <1>3, <1>4, <1>5, <1>6, <1>7, <1>8, <1>9, <1>10
     DEF Next, Request, Heartbeat, Run, Handler, Open

LEMMA InvStep == Inv /\ [Next]_vars => Inv'
BY TypeStep, HubStep, ClientsStep, StreamStep DEF Inv

LEMMA InvAlways == Spec => []Inv
BY InvInit, InvStep, PTL DEF Spec

-------------------------------------------------------------------------------
\* Every variable keeps its type, and no queue outgrows its capacity.
THEOREM HubTypes == Spec => []TypeOK
BY InvAlways, PTL DEF Inv

\* However many clients come and go, the hub sends on no closed channel.
THEOREM NeverSendsOnClosed == Spec => []NoSendOnClosed
<1>1. Inv => NoSendOnClosed
  BY DEF Inv, ClientsInv, TypeOK, NoSendOnClosed
<1> QED
  BY <1>1, InvAlways, PTL

LEMMA Position ==
    ASSUME NEW n \in Int, NEW first \in Int, NEW last \in Int, NEW len \in Int,
           len = last + 1 - first, first <= n, n <= last
    PROVE  \E k \in 1..len : first + k - 1 = n
<1>1. n - first + 1 \in 1..len /\ first + (n - first + 1) - 1 = n
  OBVIOUS
<1> QED
  BY <1>1

\* An event reaches every client that is subscribed when the hub takes it up, or
\* finds its channel full.
THEOREM LosesOnlyWhenFull == Spec => []NothingLostUnlessFull
<1>1. Inv => NothingLostUnlessFull
  <2> SUFFICES ASSUME Inv, NEW c \in registered \ lost, NEW n \in next[c]..published
               PROVE  n \in OnItsWay(c)
    BY DEF NothingLostUnlessFull
  <2>1. /\ c \in Clients /\ published \in Nat /\ next[c] \in Nat /\ Len(in) \in Nat
        /\ Len(queue[c]) \in Nat /\ in \in Seq(Nat) /\ queue[c] \in Seq(Nat) /\ Done(c) \in Int
        /\ n \in Int /\ next[c] <= n /\ n <= published
    BY DoneType DEF Inv, TypeOK
  <2>2. /\ Len(queue[c]) = Done(c) + 1 - next[c]
        /\ \A i \in 1..Len(queue[c]) : queue[c][i] = next[c] + i - 1
    BY <2>1 DEF Inv, StreamInv
  <2>3. CASE n <= Done(c)
    <3>1. PICK k \in 1..Len(queue[c]) : next[c] + k - 1 = n
      <4> DEFINE len == Len(queue[c])
                 first == next[c]
                 last == Done(c)
      <4>1. first \in Int /\ last \in Int /\ len \in Int /\ len = last + 1 - first
        BY <2>1, <2>2
      <4>2. first <= n /\ n <= last
        BY <2>1, <2>3
      <4> HIDE DEF len, first, last
      <4>3. \E k \in 1..len : first + k - 1 = n
        BY <2>1, <4>1, <4>2, Position
      <4> QED
        BY <4>3 DEF len, first
    <3>2. queue[c][k] = n
      BY <2>2, <3>1
    <3>3. n \in Holds(queue[c])
      BY <2>1, <3>1, <3>2 DEF Holds
    <3> QED
      BY <3>3 DEF OnItsWay
  <2>4. CASE n > published - Len(in)
    <3>1. PICK k \in 1..Len(in) : published - Len(in) + k = n
      <4> DEFINE first == published - Len(in) + 1
      <4>1. /\ first \in Int /\ first <= n /\ Len(in) = published + 1 - first
            /\ \A k \in 1..Len(in) : first + k - 1 = published - Len(in) + k
        BY <2>1, <2>4
      <4> HIDE DEF first
      <4> QED
        BY <2>1, <4>1, Position
    <3>2. in[k] = n
      BY <3>1 DEF Inv, HubInv
    <3>3. n \in Holds(in)
      BY <2>1, <3>1, <3>2 DEF Holds
    <3> QED
      BY <3>3 DEF OnItsWay
  <2>5. CASE n > Done(c) /\ n <= published - Len(in)
    <3>1. n = event /\ (hub = "took" \/ (hub = "sends" /\ c \in rest))
      BY <2>1, <2>5 DEF Done, Inv, HubInv
    <3> QED
      BY <3>1 DEF OnItsWay
  <2> QED
    BY <2>1, <2>3, <2>4, <2>5
<1> QED
  BY <1>1, InvAlways, PTL

\* The hub, its queues and the handlers implement the lossy broadcast.
THEOREM ImplementsBroadcast == Spec => KeepsPromise
<1>1. Init => Promise!Init
  BY DEF Init, Promise!Init
<1>2. Inv /\ [Next]_vars => [Promise!Next]_Promise!vars
  <2> SUFFICES ASSUME Inv, [Next]_vars PROVE Promise!Next \/ UNCHANGED <<published, next>>
    BY DEF Promise!vars
  <2>a. /\ TypeOK /\ HubInv /\ published \in Nat /\ next \in [Clients -> Nat] /\ Len(in) \in Nat
        /\ queue \in [Clients -> Seq(Nat)]
    BY DEF Inv, TypeOK
  <2>1. CASE Publish
    BY <2>1 DEF Publish, Promise!Next, Promise!Publish
  <2>2. ASSUME NEW c \in Clients, Stream(c)
        PROVE  Promise!Next
    <3>1. StreamInv(c) /\ Done(c) \in Int
      BY <2>a, DoneType DEF Inv
    <3>2. Head(queue[c]) = queue[c][1] /\ queue[c][1] \in Nat /\ 1 \in 1..Len(queue[c])
      BY <2>2, <2>a, TailFacts DEF Stream
    <3>3. next[c] <= queue[c][1] /\ queue[c][1] <= Done(c) /\ Done(c) <= published
      BY <2>a, <3>1, <3>2 DEF StreamInv, Done
    <3>4. Head(queue[c]) \in next[c]..published
      BY <2>a, <3>1, <3>2, <3>3
    <3>5. Promise!Give(c, Head(queue[c]))
      BY <2>2, <3>4 DEF Stream, Promise!Give
    <3> QED
      BY <3>4, <3>5 DEF Promise!Next
  <2>3. ASSUME NEW c \in Clients, Subscribe(c)
        PROVE  Promise!Next \/ UNCHANGED <<published, next>>
    <3> DEFINE n == Done(c) + 1
    <3>1. StreamInv(c) /\ Done(c) \in Int
      BY <2>a, DoneType DEF Inv
    <3>2. next' = [next EXCEPT ![c] = n] /\ published' = published
      <4>1. /\ next' = [next EXCEPT ![c] = IF hub = "took" THEN event ELSE published + 1 - Len(in)]
            /\ published' = published /\ hub # "sends"
        BY <2>3 DEF Subscribe, Locked
      <4>2. (IF hub = "took" THEN event ELSE published + 1 - Len(in)) = n
        BY <2>a, <4>1 DEF Done, HubInv
      <4> QED
        BY <4>1, <4>2
    <3>3. next[c] <= n /\ n \in Int /\ Done(c) <= published
      BY <2>a, <3>1 DEF StreamInv, Done
    <3>4. CASE n = next[c]
      BY <2>a, <3>2, <3>4
    <3>5. CASE n # next[c]
      <4>1. Done(c) \in next[c]..published
        BY <2>a, <3>1, <3>3, <3>5
      <4>2. Promise!Give(c, Done(c))
        BY <3>2, <4>1 DEF Promise!Give
      <4> QED
        BY <4>1, <4>2 DEF Promise!Next
    <3> QED
      BY <3>4, <3>5
  <2>4. CASE \/ TickerStops \/ HubStarts \/ Take \/ LockClients \/ UnlockClients \/ HubStops
             \/ Cancel \/ UNCHANGED vars
    BY <2>4 DEF TickerStops, HubStarts, Take, LockClients, UnlockClients, HubStops, Cancel, vars
  <2>5. ASSUME NEW c \in Clients,
               SendTo(c) \/ Refuse(c) \/ ClientLeaves(c) \/ Unsubscribe(c) \/ CloseChannel(c)
        PROVE  UNCHANGED <<published, next>>
    BY <2>5 DEF SendTo, Refuse, ClientLeaves, Unsubscribe, CloseChannel
  <2> QED
    BY <2>1, <2>2, <2>3, <2>4, <2>5 DEF Next, Request, Heartbeat, Run, Handler, Open
<1> QED
  BY <1>1, <1>2, InvAlways, PTL DEF Spec, KeepsPromise, Promise!Spec
===============================================================================
