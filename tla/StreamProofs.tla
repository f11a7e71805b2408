----------------------------- MODULE StreamProofs -----------------------------
(***************************************************************************)
(* What the streaming engine guarantees for every network it may be given: *)
(* packets are conserved, "ok" means that all of them were consumed, and   *)
(* in a network without joins back-pressure is never taken for a deadlock. *)
(*                                                                         *)
(* The invariant says                                                      *)
(*   - what is counted: a component has run once for each packet its       *)
(*     target received on each of its connections, a source once when it   *)
(*     is spent (Counted);                                                 *)
(*   - what the loop leaves behind when it answers ok (AtEnd);             *)
(*   - for a sweep without joins: the producers that were found blocked    *)
(*     come before those still to step, and a connection of the latter     *)
(*     that holds a packet leads to a producer (InSweep), so the one that  *)
(*     is blocked is never the last.                                       *)
(***************************************************************************)
EXTENDS Stream, FiniteSetTheorems, SequenceTheorems, TLAPS

Histories ==
    /\ results \in Seq(Comp)
    /\ emitted \in [Conn -> Seq(Packets)]
    /\ taken \in [Conn -> Seq(Packets)]

Working == status \in {"new", "running", "sweeping"}
WithinLimit == Working => activations <= net.limit

Counted ==
    Working \/ status = "ok" =>
        \A c \in Comp :
            IF Incoming(c) = {} THEN Activated(c) = IF c \in spent THEN 1 ELSE 0
            ELSE \A k \in Incoming(c) : Activated(c) = Len(taken[k])

AtEnd ==
    status = "ok" =>
        /\ DOMAIN emitters = {} /\ NoneReady
        /\ \A k \in Conn : is_empty(k)

Before(c, d) ==
    \E i, j \in DOMAIN net.order : i < j /\ net.order[i] = c /\ net.order[j] = d

InSweep ==
    NoJoin /\ status = "sweeping" =>
        /\ todo # {}
        /\ \A c \in DOMAIN emitters \ todo : \A d \in todo : Before(c, d)
        /\ \A k \in Conn : net.edges[k].source \in todo /\ ~is_empty(k) =>
              net.edges[k].target \in DOMAIN emitters

IInv ==
    /\ TypeOK /\ Histories /\ WithinLimit
    /\ PacketsConserved
    /\ Counted /\ AtEnd
    /\ InSweep /\ NoJoinNoDeadlock

-----------------------------------------------------------------------------
(* The network *)

\* What the documents' assumption says of the network being run: its edges are numbered, and
\* lead from a component to a later one.
LEMMA Edges ==
  ASSUME net \in Networks
  PROVE  /\ NetworkOK(net)
         /\ Conn \subseteq Nat \ {0}
         /\ \A k \in Conn :
              /\ net.edges[k] \in SomeEdge(net)
              /\ net.edges[k].capacity \in Nat \ {0}
              /\ net.edges[k].field \in Fields(net, net.edges[k].source)
              /\ net.edges[k].source \in Comp /\ net.edges[k].target \in Comp
              /\ Before(net.edges[k].source, net.edges[k].target)
<1>1. NetworkOK(net)
  BY NetworksOK
<1>2. net.edges \in Seq(SomeEdge(net)) /\ MaxCapacity \in Nat
  BY <1>1, NetworksOK DEF NetworkOK
<1>3. Conn = 1..Len(net.edges) /\ Len(net.edges) \in Nat
  BY <1>2, LenProperties DEF Conn
<1>4. ASSUME NEW k \in Conn
      PROVE  /\ net.edges[k] \in SomeEdge(net)
             /\ net.edges[k].capacity \in Nat \ {0}
             /\ net.edges[k].field \in Fields(net, net.edges[k].source)
             /\ net.edges[k].source \in Comp /\ net.edges[k].target \in Comp
             /\ Before(net.edges[k].source, net.edges[k].target)
  <2>1. net.edges[k] \in SomeEdge(net)
    BY DEF SomeEdge, Conn
  <2>2. net.edges[k].capacity \in Nat \ {0}
    BY <2>1, <1>1, <1>2 DEF NetworkOK
  <2>3. net.edges[k].field \in Fields(net, net.edges[k].source)
    BY <2>1 DEF Fields
  <2>4. Before(net.edges[k].source, net.edges[k].target)
    BY <2>1, <1>1 DEF NetworkOK, Topological, Before
  <2>5. net.edges[k].source \in Comp /\ net.edges[k].target \in Comp
    BY <2>4 DEF Before, Comp, Members
  <2> QED BY <2>1, <2>2, <2>3, <2>4, <2>5
<1> QED BY <1>1, <1>3, <1>4

\* The topological order is one: two components are before one another in exactly one way.
LEMMA OneOrder ==
  ASSUME net \in Networks, NEW c \in Comp, NEW d \in Comp, c # d
  PROVE  Before(c, d) <=> ~Before(d, c)
<1>1. NetworkOK(net) /\ net.order \in Seq(Comp)
  BY NetworksOK DEF NetworkOK, Comp
<1>2. DOMAIN net.order = 1..Len(net.order) /\ Len(net.order) \in Nat
  BY <1>1, LenProperties
<1>3. \A i, j \in DOMAIN net.order : net.order[i] = net.order[j] => i = j
  BY <1>1 DEF NetworkOK, Topological
<1>4. PICK i, j \in DOMAIN net.order : net.order[i] = c /\ net.order[j] = d
  BY DEF Comp, Members
<1>5. \A x \in DOMAIN net.order : x \in Nat
  BY <1>2
<1>6. Before(c, d) <=> i < j
  BY <1>3, <1>4, <1>5 DEF Before
<1>7. Before(d, c) <=> j < i
  BY <1>3, <1>4, <1>5 DEF Before
<1>8. i # j
  BY <1>4
<1> QED BY <1>5, <1>6, <1>7, <1>8

LEMMA NeverBefore ==
  ASSUME net \in Networks, NEW c
  PROVE  ~Before(c, c)
<1>1. NetworkOK(net) /\ net.order \in Seq(Comp)
  BY NetworksOK DEF NetworkOK, Comp
<1>2. DOMAIN net.order = 1..Len(net.order) /\ Len(net.order) \in Nat
  BY <1>1, LenProperties
<1>3. \A i, j \in DOMAIN net.order : net.order[i] = net.order[j] => i = j
  BY <1>1 DEF NetworkOK, Topological
<1> QED BY <1>2, <1>3 DEF Before

\* The sweep is at the first of the producers it has still to step.
LEMMA TurnIsFirst ==
  ASSUME net \in Networks, todo \subseteq Comp, NEW c, Turn(c), NEW d \in todo, d # c
  PROVE  Before(c, d)
<1>1. NetworkOK(net) /\ net.order \in Seq(Comp)
  BY NetworksOK DEF NetworkOK, Comp
<1>2. DOMAIN net.order = 1..Len(net.order) /\ Len(net.order) \in Nat
  BY <1>1, LenProperties
<1>3. PICK i \in DOMAIN net.order : net.order[i] = c /\ \A j \in 1..(i - 1) : net.order[j] \notin todo
  BY DEF Turn
<1>4. PICK j \in DOMAIN net.order : net.order[j] = d
  BY DEF Comp, Members
<1>5. i < j
  BY <1>2, <1>3, <1>4
<1> QED BY <1>3, <1>4, <1>5 DEF Before

\* What the definitions say in the next state of a step that keeps the network.
LEMMA SameNet ==
  ASSUME net' = net
  PROVE  /\ Comp' = Comp /\ Conn' = Conn /\ NoJoin' = NoJoin
         /\ \A c : Incoming(c)' = Incoming(c)
         /\ \A c, p : Connections(c, p)' = Connections(c, p)
         /\ \A c, m : Rest(c, m)' = Rest(c, m)
         /\ \A c, m : EmitterOK(c, m)' = EmitterOK(c, m)
         /\ \A c, d : Before(c, d)' = Before(c, d)
BY DEF Comp, Conn, NoJoin, Incoming, Connections, Rest, EmitterOK, Before

-----------------------------------------------------------------------------
(* Sequences *)

\* A packet moves from the end of a sequence to the front of the rest.
LEMMA Precedes ==
  ASSUME NEW S, NEW a \in Seq(S), NEW w \in Seq(S), NEW v \in S
  PROVE  Append(a, v) \o w = a \o (<<v>> \o w)
<1>1. <<v>> \in Seq(S) /\ Append(a, v) = a \o <<v>>
  OBVIOUS
<1> QED BY <1>1, ConcatAssociative

LEMMA Associates ==
  \A a, b, w \in Seq(Packets) : (a \o b) \o w = a \o (b \o w)
BY ConcatAssociative

LEMMA HeadFirst ==
  ASSUME NEW S, NEW s \in Seq(S), s # <<>>
  PROVE  /\ Head(s) \in S /\ Tail(s) \in Seq(S)
         /\ <<Head(s)>> \o Tail(s) = s
         /\ Len(Tail(s)) = Len(s) - 1
<1>1. Head(s) \in S /\ Tail(s) \in Seq(S)
  BY HeadTailProperties
<1>2. Len(s) \in Nat \ {0}
  BY EmptySeq
<1> DEFINE t == <<Head(s)>> \o Tail(s)
<1>3. t \in Seq(S) /\ Len(t) = Len(s) /\ \A i \in 1..Len(s) : t[i] = s[i]
  BY <1>1, <1>2
<1>4. t = s
  BY <1>3, SeqEqual
<1>5. Len(Tail(s)) = Len(s) - 1
  BY <1>2
<1> QED BY <1>1, <1>4, <1>5

-----------------------------------------------------------------------------
(* Emitters *)

SomeEmitter(c) == [streams : [Fields(net, c) -> Seq(Packets)], pending : Packet \union {None}]

\* What an emitter m of c holds for connection k.
Left(c, m, k) ==
    (IF m.pending # None /\ k \in Rest(c, m.pending) THEN <<m.pending.value>> ELSE <<>>)
        \o m.streams[net.edges[k].field]

LEMMA LeftIs ==
  ASSUME TypeOK, NEW k \in Conn, NEW c, c = net.edges[k].source,
         NEW m \in SomeEmitter(c)
  PROVE  /\ m.streams[net.edges[k].field] \in Seq(Packets)
         /\ Left(c, m, k) \in Seq(Packets)
         /\ m.pending = None => Left(c, m, k) = m.streams[net.edges[k].field]
         /\ m.pending # None /\ k \in Rest(c, m.pending) =>
              /\ m.pending.value \in Packets
              /\ Left(c, m, k) = <<m.pending.value>> \o m.streams[net.edges[k].field]
         /\ m.pending # None /\ k \notin Rest(c, m.pending) =>
              Left(c, m, k) = m.streams[net.edges[k].field]
<1>1. net.edges[k].field \in Fields(net, c)
  BY Edges DEF TypeOK
<1>2. m.streams[net.edges[k].field] \in Seq(Packets)
  BY <1>1 DEF SomeEmitter
<1>3. m.pending # None => m.pending \in Packet /\ m.pending.value \in Packets
  BY DEF SomeEmitter, Packet
<1>4. <<>> \o m.streams[net.edges[k].field] = m.streams[net.edges[k].field]
  BY <1>2, ConcatEmptySeq
<1>5. m.pending # None => <<m.pending.value>> \in Seq(Packets)
  BY <1>3
<1>6. m.pending # None =>
         <<m.pending.value>> \o m.streams[net.edges[k].field] \in Seq(Packets)
  BY <1>2, <1>5, ConcatProperties
<1> QED BY <1>2, <1>3, <1>4, <1>6 DEF Left

LEMMA WaitingIs ==
  ASSUME TypeOK, NEW k \in Conn
  PROVE  /\ Waiting(k) \in Seq(Packets)
         /\ Waiting(k) = IF net.edges[k].source \in DOMAIN emitters
                         THEN Left(net.edges[k].source, emitters[net.edges[k].source], k)
                         ELSE <<>>
<1>1. Waiting(k) = IF net.edges[k].source \in DOMAIN emitters
                   THEN Left(net.edges[k].source, emitters[net.edges[k].source], k)
                   ELSE <<>>
  BY DEF Waiting, Left
<1>2. \A c \in DOMAIN emitters : emitters[c] \in SomeEmitter(c)
  BY DEF TypeOK, EmitterOK, SomeEmitter
<1>3. CASE net.edges[k].source \in DOMAIN emitters
  BY <1>1, <1>2, <1>3, LeftIs
<1>4. CASE net.edges[k].source \notin DOMAIN emitters
  BY <1>1, <1>4
<1> QED BY <1>1, <1>3, <1>4

\* An element is pulled from the first stream that has one, and nothing is lost by it.
LEMMA Pulled ==
  ASSUME TypeOK, NEW c \in DOMAIN emitters, NEW m \in Pull(c)
  PROVE  /\ m \in SomeEmitter(c)
         /\ m.pending \in Packet /\ m.pending # None
         /\ Rest(c, m.pending) # {}
         /\ \A k \in Rest(c, m.pending) : k \in Conn /\ net.edges[k].source = c
         /\ \A k \in Conn : net.edges[k].source = c => Left(c, m, k) = Waiting(k)
<1> DEFINE e == emitters[c]
<1>1. e \in SomeEmitter(c) /\ (e.pending # None => Rest(c, e.pending) # {})
  BY DEF TypeOK, EmitterOK, SomeEmitter
<1>2. \A k \in Conn : net.edges[k].source = c => Waiting(k) = Left(c, e, k)
  BY WaitingIs
<1>3. \A packet : \A k \in Rest(c, packet) : k \in Conn /\ net.edges[k].source = c
  BY DEF Rest, Connections
<1>4. CASE e.pending # None
  <2>1. m = e
    BY <1>4 DEF Pull
  <2>2. m.pending \in Packet
    BY <1>1, <1>4, <2>1 DEF SomeEmitter
  <2> QED BY <1>1, <1>2, <1>3, <1>4, <2>1, <2>2
<1>5. CASE e.pending = None
  <2>1. PICK p \in NextPort(c) :
           m = [streams |-> [e.streams EXCEPT ![p] = Tail(@)],
                pending |-> [value |-> Head(e.streams[p]), port |-> p, from |-> 1]]
    BY <1>5 DEF Pull
  <2>2. p \in Fields(net, c) /\ e.streams[p] # <<>>
    <3>1. c \in Members(net) /\ NetworkOK(net)
      BY NetworksOK DEF TypeOK, Comp
    <3> QED BY <2>1, <3>1 DEF NextPort, NetworkOK
  <2>3. e.streams[p] \in Seq(Packets)
    BY <1>1, <2>2 DEF SomeEmitter
  <2>4. Head(e.streams[p]) \in Packets /\ Tail(e.streams[p]) \in Seq(Packets)
        /\ <<Head(e.streams[p])>> \o Tail(e.streams[p]) = e.streams[p]
    BY <2>2, <2>3, HeadFirst
  <2>5. p \in Port
    BY <2>2 DEF TypeOK, Comp, Port
  <2>6. m.pending = [value |-> Head(e.streams[p]), port |-> p, from |-> 1]
        /\ m.pending \in Packet
    BY <2>1, <2>4, <2>5 DEF Packet
  <2>7. m.pending # None
    BY <2>6, NetworksOK
  <2>8. m.streams = [e.streams EXCEPT ![p] = Tail(@)]
        /\ m.streams \in [Fields(net, c) -> Seq(Packets)]
    BY <1>1, <2>1, <2>2, <2>4 DEF SomeEmitter
  <2>9. m \in SomeEmitter(c)
    BY <2>1, <2>6, <2>8 DEF SomeEmitter
  <2>10. \A k \in Conn : k \in Rest(c, m.pending) <=>
                           net.edges[k].source = c /\ net.edges[k].field = p
    <3>1. \A k \in Conn : k \in Nat /\ 1 <= k
      BY Edges DEF TypeOK
    <3> QED BY <2>6, <3>1 DEF Rest, Connections
  <2>11. Rest(c, m.pending) # {}
    <3>1. PICK d \in SomeEdge(net) : d.source = c /\ d.field = p
      BY <2>2 DEF Fields
    <3>2. PICK k \in Conn : net.edges[k] = d
      BY DEF SomeEdge, Conn
    <3> QED BY <2>10, <3>1, <3>2
  <2>12. ASSUME NEW k \in Conn, net.edges[k].source = c
         PROVE  Left(c, m, k) = Left(c, e, k)
    <3>1. net.edges[k].field \in Fields(net, c)
      BY <2>12, Edges DEF TypeOK
    <3>2. Left(c, e, k) = e.streams[net.edges[k].field]
      BY <1>1, <1>5, <2>12, LeftIs
    <3>3. CASE net.edges[k].field = p
      <4>1. Left(c, m, k) = <<m.pending.value>> \o m.streams[p]
        BY <2>7, <2>9, <2>10, <2>12, <3>3, LeftIs
      <4>2. m.streams[p] = Tail(e.streams[p]) /\ m.pending.value = Head(e.streams[p])
        BY <1>1, <2>2, <2>6, <2>8 DEF SomeEmitter
      <4> QED BY <2>4, <3>2, <3>3, <4>1, <4>2
    <3>4. CASE net.edges[k].field # p
      <4>1. Left(c, m, k) = m.streams[net.edges[k].field]
        BY <2>7, <2>9, <2>10, <2>12, <3>4, LeftIs
      <4>2. m.streams[net.edges[k].field] = e.streams[net.edges[k].field]
        BY <1>1, <2>8, <3>1, <3>4 DEF SomeEmitter
      <4> QED BY <3>2, <4>1, <4>2
    <3> QED BY <3>3, <3>4
  <2> QED BY <1>2, <1>3, <2>6, <2>7, <2>9, <2>11, <2>12
<1> QED BY <1>4, <1>5

LEMMA WaitingNext ==
  ASSUME net' = net, NEW k
  PROVE  Waiting(k)' = IF net.edges[k].source \in DOMAIN emitters'
                       THEN Left(net.edges[k].source, emitters'[net.edges[k].source], k)
                       ELSE <<>>
BY SameNet DEF Waiting, Left

\* What a step of an emitter leaves as it should be: the buffers and the emitters.
Held ==
    /\ buffer \in [Conn -> Seq(Packets)]
    /\ \A k \in Conn : Len(buffer[k]) <= net.edges[k].capacity
    /\ DOMAIN emitters \subseteq Comp /\ \A c \in DOMAIN emitters : EmitterOK(c, emitters[c])

\* An element goes to the connections ks, and the emitter keeps it for the others.
LEMMA Delivered ==
  ASSUME TypeOK, net' = net, NEW c \in DOMAIN emitters, NEW m \in Pull(c),
         NEW ks, ks \subseteq Rest(c, m.pending), \A k \in ks : Accepts(k, m.pending),
         Deliver(ks, m.pending),
         NEW kept \in SomeEmitter(c), emitters' = Put(c, kept),
         kept.streams = m.streams,
         IF kept.pending = None THEN ks = Rest(c, m.pending)
         ELSE /\ kept.pending.value = m.pending.value
              /\ Rest(c, kept.pending) = Rest(c, m.pending) \ ks
              /\ Rest(c, kept.pending) # {}
  PROVE  /\ Held' /\ DOMAIN emitters' = DOMAIN emitters
         /\ \A k \in Conn : buffer'[k] \o Waiting(k)' = buffer[k] \o Waiting(k)
         /\ \A k \in Conn : net.edges[k].source # c => buffer'[k] = buffer[k]
<1>1. /\ m \in SomeEmitter(c) /\ m.pending \in Packet /\ m.pending # None
      /\ \A k \in Rest(c, m.pending) : k \in Conn /\ net.edges[k].source = c
      /\ \A k \in Conn : net.edges[k].source = c => Left(c, m, k) = Waiting(k)
  BY Pulled
<1>2. m.pending.value \in Packets
  BY <1>1 DEF Packet
<1>3. buffer' = [k \in Conn |-> IF k \in ks THEN Append(buffer[k], m.pending.value) ELSE buffer[k]]
  BY DEF Deliver
<1>4. emitters' = [d \in DOMAIN emitters |-> IF d = c THEN kept ELSE emitters[d]]
  BY DEF Put
<1>5. \A k \in Conn : buffer[k] \in Seq(Packets) /\ Len(buffer[k]) \in Nat
                      /\ Len(buffer[k]) <= net.edges[k].capacity /\ net.edges[k].capacity \in Nat
  BY Edges, LenProperties DEF TypeOK
<1>6. ASSUME NEW k \in Conn
      PROVE  /\ buffer'[k] \in Seq(Packets) /\ Len(buffer'[k]) <= net.edges[k].capacity
             /\ buffer'[k] \o Waiting(k)' = buffer[k] \o Waiting(k)
             /\ net.edges[k].source # c => buffer'[k] = buffer[k]
  <2>1. Waiting(k) \in Seq(Packets)
    BY WaitingIs
  <2>2. CASE k \in ks
    <3>1. k \in Rest(c, m.pending) /\ net.edges[k].source = c /\ ~is_full(k)
      BY <1>1, <2>2 DEF Accepts
    <3>2. buffer'[k] = Append(buffer[k], m.pending.value)
      BY <1>3, <2>2
    <3>3. Len(buffer'[k]) = Len(buffer[k]) + 1 /\ buffer'[k] \in Seq(Packets)
      BY <1>2, <1>5, <3>2
    <3>4. Len(buffer[k]) < net.edges[k].capacity
      BY <1>5, <3>1 DEF is_full
    <3>5. Waiting(k)' = Left(c, kept, k)
      BY <1>4, <3>1, WaitingNext
    <3>6. Left(c, kept, k) = kept.streams[net.edges[k].field]
      BY <2>2, <3>1, LeftIs
    <3>7. Waiting(k) = <<m.pending.value>> \o m.streams[net.edges[k].field]
          /\ m.streams[net.edges[k].field] \in Seq(Packets)
      BY <1>1, <3>1, LeftIs
    <3>8. Append(buffer[k], m.pending.value) \o m.streams[net.edges[k].field]
            = buffer[k] \o (<<m.pending.value>> \o m.streams[net.edges[k].field])
      <4> DEFINE b == buffer[k]  v == m.pending.value  w == m.streams[net.edges[k].field]
      <4>1. b \in Seq(Packets) /\ v \in Packets /\ w \in Seq(Packets)
        BY <1>2, <1>5, <3>7
      <4> HIDE DEF b, v, w
      <4>2. Append(b, v) \o w = b \o (<<v>> \o w)
        BY <4>1, Precedes
      <4> QED BY <4>2 DEF b, v, w
    <3>9. buffer'[k] \o Waiting(k)' = buffer[k] \o Waiting(k)
      BY <3>2, <3>5, <3>6, <3>7, <3>8
    <3>10. Len(buffer'[k]) <= net.edges[k].capacity
      BY <1>5, <3>3, <3>4
    <3> QED BY <3>1, <3>3, <3>9, <3>10
  <2>3. CASE k \notin ks
    <3>1. buffer'[k] = buffer[k]
      BY <1>3, <2>3
    <3>2. CASE net.edges[k].source = c
      <4>1. Waiting(k)' = Left(c, kept, k)
        BY <1>4, <3>2, WaitingNext
      <4>2. Left(c, kept, k) = Left(c, m, k)
        <5>1. CASE kept.pending = None
          BY <1>1, <2>3, <3>2, <5>1, LeftIs
        <5>2. CASE kept.pending # None
          BY <1>1, <2>3, <3>2, <5>2 DEF Left
        <5> QED BY <5>1, <5>2
      <4> QED BY <1>1, <1>5, <3>1, <3>2, <4>1, <4>2
    <3>3. CASE net.edges[k].source # c
      <4>1. Waiting(k)' = Waiting(k)
        BY <1>4, <3>3, WaitingNext, WaitingIs
      <4> QED BY <1>5, <3>1, <4>1
    <3> QED BY <3>2, <3>3
  <2> QED BY <2>2, <2>3
<1>7. ASSUME NEW d \in DOMAIN emitters
      PROVE  EmitterOK(d, emitters'[d])
  <2>1. CASE d = c
    BY <1>4, <2>1 DEF EmitterOK, SomeEmitter
  <2>2. CASE d # c
    BY <1>4, <2>2 DEF TypeOK
  <2> QED BY <2>1, <2>2
<1>8. Held'
  <2>1. Conn' = Conn /\ Comp' = Comp
    BY SameNet
  <2>2. buffer' \in [Conn -> Seq(Packets)]
    BY <1>3, <1>6
  <2>3. DOMAIN emitters' \subseteq Comp
    BY <1>4 DEF TypeOK
  <2>4. \A k \in Conn : Len(buffer'[k]) <= net.edges[k].capacity
    BY <1>6
  <2>5. \A d \in DOMAIN emitters' : EmitterOK(d, emitters[d])'
    BY <1>4, <1>7 DEF EmitterOK, Rest, Connections, Conn
  <2> QED BY <2>1, <2>2, <2>3, <2>4, <2>5 DEF Held
<1> QED BY <1>4, <1>6, <1>8

\* An emitter that is suspended, or rejects its element, at k keeps it for k and those after k.
LEMMA Suspended ==
  ASSUME TypeOK, net' = net, NEW c \in DOMAIN emitters, NEW m \in Pull(c), NEW k \in Conn,
         SentBefore(k, c, m), emitters' = Put(c, [m EXCEPT !.pending.from = k])
  PROVE  /\ Held' /\ DOMAIN emitters' = DOMAIN emitters
         /\ net.edges[k].source = c
         /\ \A j \in Conn : buffer'[j] \o Waiting(j)' = buffer[j] \o Waiting(j)
         /\ \A j \in Conn : net.edges[j].source # c => buffer'[j] = buffer[j]
<1> DEFINE ks == {j \in Rest(c, m.pending) : j < k}
           left == [m.pending EXCEPT !.from = k]
           kept == [m EXCEPT !.pending = left]
<1>1. /\ m \in SomeEmitter(c) /\ m.pending \in Packet /\ m.pending # None
      /\ \A j \in Rest(c, m.pending) : j \in Conn /\ net.edges[j].source = c
  BY Pulled
<1>2. Conn \subseteq Nat
  BY Edges DEF TypeOK
<1>3. k \in Rest(c, m.pending) /\ net.edges[k].source = c
  BY <1>1 DEF SentBefore
<1>4. left \in Packet /\ left.value = m.pending.value /\ left.port = m.pending.port /\ left.from = k
  BY <1>1, <1>2 DEF Packet
<1>5. left # None
  BY <1>4, NetworksOK
<1>6. [m EXCEPT !.pending.from = k] = kept
  BY <1>1 DEF SomeEmitter
<1> HIDE DEF left
<1>7. kept \in SomeEmitter(c) /\ kept.streams = m.streams /\ kept.pending = left
  BY <1>1, <1>4 DEF SomeEmitter
<1>8. Rest(c, left) = Rest(c, m.pending) \ ks
  <2>1. \A j \in Rest(c, m.pending) :
           j \in Connections(c, m.pending.port) /\ m.pending.from <= j /\ j \in Nat
    BY <1>1, <1>2 DEF Rest
  <2>2. \A j \in Connections(c, m.pending.port) : j \in Nat
    BY <1>2 DEF Connections
  <2>3. m.pending.from \in Nat /\ m.pending.from <= k /\ k \in Nat
    BY <1>1, <1>2, <1>3, <2>1 DEF Packet
  <2>4. \A j : j \in Rest(c, left) <=> j \in Connections(c, m.pending.port) /\ k <= j
    BY <1>4 DEF Rest
  <2>5. \A j : j \in Rest(c, m.pending) <=>
                 j \in Connections(c, m.pending.port) /\ m.pending.from <= j
    BY DEF Rest
  <2> QED BY <2>2, <2>3, <2>4, <2>5
<1>9. k \in Rest(c, left)
  BY <1>2, <1>3, <1>8
<1>10. ks \subseteq Rest(c, m.pending) /\ \A j \in ks : Accepts(j, m.pending)
  BY DEF SentBefore
<1>11. Deliver(ks, m.pending)
  BY DEF SentBefore
<1>12. emitters' = Put(c, kept)
  BY <1>6
<1> HIDE DEF ks, kept
<1>13. IF kept.pending = None THEN ks = Rest(c, m.pending)
       ELSE /\ kept.pending.value = m.pending.value
            /\ Rest(c, kept.pending) = Rest(c, m.pending) \ ks
            /\ Rest(c, kept.pending) # {}
  BY <1>4, <1>5, <1>7, <1>8, <1>9
<1>14. /\ Held' /\ DOMAIN emitters' = DOMAIN emitters
       /\ \A j \in Conn : buffer'[j] \o Waiting(j)' = buffer[j] \o Waiting(j)
       /\ \A j \in Conn : net.edges[j].source # c => buffer'[j] = buffer[j]
  BY <1>7, <1>10, <1>11, <1>12, <1>13, Delivered
<1> QED BY <1>3, <1>14

LEMMA Sent ==
  ASSUME TypeOK, net' = net, NEW c \in DOMAIN emitters, NEW m \in Pull(c),
         \A k \in Rest(c, m.pending) : Accepts(k, m.pending),
         Deliver(Rest(c, m.pending), m.pending),
         emitters' = Put(c, [m EXCEPT !.pending = None])
  PROVE  /\ Held' /\ DOMAIN emitters' = DOMAIN emitters
         /\ \A k \in Conn : buffer'[k] \o Waiting(k)' = buffer[k] \o Waiting(k)
<1> DEFINE kept == [m EXCEPT !.pending = None]
<1>1. m \in SomeEmitter(c)
  BY Pulled
<1>2. kept \in SomeEmitter(c) /\ kept.streams = m.streams /\ kept.pending = None
  BY <1>1 DEF SomeEmitter
<1>3. emitters' = Put(c, kept)
  OBVIOUS
<1> HIDE DEF kept
<1>4. IF kept.pending = None THEN Rest(c, m.pending) = Rest(c, m.pending)
      ELSE /\ kept.pending.value = m.pending.value
           /\ Rest(c, kept.pending) = Rest(c, m.pending) \ Rest(c, m.pending)
           /\ Rest(c, kept.pending) # {}
  BY <1>2
<1> QED BY <1>2, <1>3, <1>4, Delivered

LEMMA Done ==
  ASSUME TypeOK, net' = net, NEW c \in DOMAIN emitters,
         emitters[c].pending = None, ~HasNext(emitters[c]),
         emitters' = [d \in DOMAIN emitters \ {c} |-> emitters[d]], buffer' = buffer
  PROVE  /\ Held' /\ DOMAIN emitters' = DOMAIN emitters \ {c}
         /\ \A k \in Conn : buffer'[k] \o Waiting(k)' = buffer[k] \o Waiting(k)
<1>1. emitters[c] \in SomeEmitter(c)
  BY DEF TypeOK, EmitterOK, SomeEmitter
<1>2. ASSUME NEW k \in Conn
      PROVE  Waiting(k)' = Waiting(k)
  <2>1. CASE net.edges[k].source = c
    <3>1. Waiting(k) = emitters[c].streams[net.edges[k].field]
      BY <1>1, <2>1, LeftIs, WaitingIs
    <3>2. net.edges[k].field \in DOMAIN emitters[c].streams
      BY <1>1, <2>1, Edges DEF TypeOK, SomeEmitter
    <3>3. Waiting(k) = <<>>
      BY <3>1, <3>2 DEF HasNext
    <3>4. Waiting(k)' = <<>>
      BY <2>1, WaitingNext
    <3> QED BY <3>3, <3>4
  <2>2. CASE net.edges[k].source # c
    BY <2>2, WaitingNext, WaitingIs
  <2> QED BY <2>1, <2>2
<1>3. Conn' = Conn /\ Comp' = Comp
  BY SameNet
<1>4. \A d \in DOMAIN emitters' : EmitterOK(d, emitters[d])'
  BY DEF TypeOK, EmitterOK, Rest, Connections, Conn
<1> QED BY <1>2, <1>3, <1>4 DEF Held, TypeOK

\* What all the steps of an emitter leave alone, and what they keep.
LEMMA EmitterSteps ==
  ASSUME TypeOK, NEW c \in Comp, StepDone(c) \/ StepProgress(c) \/ StepBlocked(c) \/ StepRejected(c)
  PROVE  /\ Held' /\ (StepDone(c) \/ DOMAIN emitters' = DOMAIN emitters)
         /\ \A k \in Conn : buffer'[k] \o Waiting(k)' = buffer[k] \o Waiting(k)
         /\ UNCHANGED <<net, spent, activations, results, history>>
         /\ c \in DOMAIN emitters /\ status = "sweeping"
<1>1. c \in DOMAIN emitters /\ status = "sweeping"
  BY DEF TypeOK, StepDone, StepProgress, StepBlocked, StepRejected, Turn
<1>2. UNCHANGED <<net, spent, activations, results, history>>
  BY DEF StepDone, StepProgress, StepBlocked, StepRejected
<1>3. CASE StepDone(c)
  BY <1>1, <1>2, <1>3, Done DEF StepDone
<1>4. CASE StepProgress(c)
  BY <1>1, <1>2, <1>4, Sent DEF StepProgress
<1>5. CASE StepBlocked(c)
  BY <1>1, <1>2, <1>5, Suspended DEF StepBlocked
<1>6. CASE StepRejected(c)
  BY <1>1, <1>2, <1>6, Suspended DEF StepRejected
<1> QED BY <1>1, <1>2, <1>3, <1>4, <1>5, <1>6

-----------------------------------------------------------------------------
(* Activations *)

\* An activation takes the first packet of each of its connections.
LEMMA Consumed ==
  ASSUME TypeOK, Histories, NEW c \in Comp, Ready(c), Consume(c)
  PROVE  /\ net' = net
         /\ buffer' \in [Conn -> Seq(Packets)] /\ taken' \in [Conn -> Seq(Packets)]
         /\ \A k \in Conn : Len(buffer'[k]) <= net.edges[k].capacity
         /\ \A k \in Conn : taken'[k] \o buffer'[k] = taken[k] \o buffer[k]
         /\ \A k \in Conn : Len(taken'[k]) =
                              IF k \in Incoming(c) THEN Len(taken[k]) + 1 ELSE Len(taken[k])
<1>1. taken' = [k \in Conn |-> IF k \in Incoming(c)
                               THEN Append(taken[k], Head(buffer[k])) ELSE taken[k]]
      /\ buffer' = [k \in Conn |-> IF k \in Incoming(c) THEN Tail(buffer[k]) ELSE buffer[k]]
      /\ net' = net
  BY DEF Consume
<1>2. ASSUME NEW k \in Conn
      PROVE  /\ buffer'[k] \in Seq(Packets) /\ taken'[k] \in Seq(Packets)
             /\ Len(buffer'[k]) <= net.edges[k].capacity
             /\ taken'[k] \o buffer'[k] = taken[k] \o buffer[k]
             /\ Len(taken'[k]) = IF k \in Incoming(c) THEN Len(taken[k]) + 1 ELSE Len(taken[k])
  <2> DEFINE b == buffer[k]  t == taken[k]
  <2>1. b \in Seq(Packets) /\ t \in Seq(Packets) /\ Len(b) <= net.edges[k].capacity
        /\ net.edges[k].capacity \in Nat
    BY Edges DEF TypeOK, Histories
  <2>2. CASE k \in Incoming(c)
    <3>1. b # <<>>
      BY <2>2 DEF Ready, is_empty
    <3>2. buffer'[k] = Tail(b) /\ taken'[k] = Append(t, Head(b))
      BY <1>1, <2>2
    <3> HIDE DEF b, t
    <3>3. Head(b) \in Packets /\ Tail(b) \in Seq(Packets)
          /\ <<Head(b)>> \o Tail(b) = b /\ Len(Tail(b)) = Len(b) - 1
      BY <2>1, <3>1, HeadFirst
    <3>4. Append(t, Head(b)) \o Tail(b) = t \o b
      BY <2>1, <3>3, Precedes
    <3>5. Append(t, Head(b)) \in Seq(Packets) /\ Len(Append(t, Head(b))) = Len(t) + 1
      BY <2>1, <3>3
    <3>6. Len(b) \in Nat
      BY <2>1, LenProperties
    <3>7. Len(Tail(b)) <= net.edges[k].capacity
      BY <2>1, <3>3, <3>6
    <3> QED BY <2>1, <2>2, <3>2, <3>3, <3>4, <3>5, <3>7 DEF b, t
  <2>3. CASE k \notin Incoming(c)
    BY <1>1, <2>1, <2>3
  <2> QED BY <2>2, <2>3
<1> QED BY <1>1, <1>2

\* Activated counts, one more for the component an activation appends.
LEMMA Counts ==
  ASSUME Histories, NEW d
  PROVE  /\ Activated(d) \in Nat
         /\ results = <<>> => Activated(d) = 0
         /\ results' = results => Activated(d)' = Activated(d)
         /\ \A c \in Comp : results' = Append(results, c) =>
              Activated(d)' = IF d = c THEN Activated(d) + 1 ELSE Activated(d)
<1> DEFINE N == {i \in DOMAIN results : results[i] = d}
<1>1. DOMAIN results = 1..Len(results) /\ Len(results) \in Nat
  BY LenProperties DEF Histories
<1>2. IsFiniteSet(1..Len(results))
  BY <1>1, FS_Interval
<1>3. IsFiniteSet(N) /\ Cardinality(N) \in Nat
  BY <1>1, <1>2, FS_Subset, FS_CardinalityType
<1>4. results = <<>> => N = {}
  BY <1>1
<1>5. ASSUME NEW c \in Comp, results' = Append(results, c)
      PROVE  Activated(d)' = IF d = c THEN Activated(d) + 1 ELSE Activated(d)
  <2>1. /\ DOMAIN results' = 1..(Len(results) + 1)
        /\ \A i \in 1..Len(results) : results'[i] = results[i]
        /\ results'[Len(results) + 1] = c
    BY <1>1, <1>5 DEF Histories
  <2> DEFINE n == Len(results)
             M == {i \in DOMAIN results' : results'[i] = d}
  <2>2. \A i : i \in M <=> i \in 1..(n + 1) /\ results'[i] = d
    BY <2>1
  <2>3. \A i : i \in N <=> i \in 1..n /\ results'[i] = d
    BY <1>1, <2>1
  <2>4. \A i : i \in 1..(n + 1) <=> i \in 1..n \/ i = n + 1
    BY <1>1
  <2>5. n + 1 \notin 1..n /\ results'[n + 1] = c
    BY <1>1, <2>1
  <2> HIDE DEF M, N, n
  <2>6. CASE d = c
    <3>1. M = N \union {n + 1}
      BY <2>6, <2>2, <2>3, <2>4, <2>5
    <3>2. n + 1 \notin N
      BY <2>3, <2>5
    <3>3. Cardinality(N \union {n + 1}) = Cardinality(N) + 1
      BY <1>3, <3>2, FS_AddElement
    <3> QED BY <2>6, <3>1, <3>3 DEF Activated, M, N
  <2>7. CASE d # c
    <3>1. M = N
      BY <2>7, <2>2, <2>3, <2>4, <2>5
    <3> QED BY <2>7, <3>1 DEF Activated, M, N
  <2> QED BY <2>6, <2>7
<1>6. results' = results => Activated(d)' = Activated(d)
  BY DEF Activated
<1> QED BY <1>3, <1>4, <1>5, <1>6, FS_EmptySet DEF Activated

\* The packets of a verified output are with the new emitter.
LEMMA Activates ==
  ASSUME TypeOK, Histories, NEW c \in Comp, NEW out \in net.answers[c], Activate(c, out)
  PROVE  /\ Held'
         /\ emitted' \in [Conn -> Seq(Packets)]
         /\ \A k \in Conn : \/ emitted'[k] = emitted[k] /\ Waiting(k)' = Waiting(k)
                            \/ /\ emitted'[k] = emitted[k] \o Waiting(k)'
                               /\ Waiting(k) = <<>> /\ buffer'[k] = buffer[k]
<1>1. Ready(c) /\ Consume(c) /\ net' = net
  BY DEF Activate, FirstReady, Consume
<1>2. c \notin DOMAIN emitters
  BY <1>1 DEF Ready
<1>3. /\ NetworkOK(net)
      /\ out \in [Fields(net, c) -> Seq(Packets)]
      /\ net.wired[c] = <<>> => Fields(net, c) = {}
  <2>1. NetworkOK(net) /\ c \in Members(net)
    BY NetworksOK DEF TypeOK, Comp
  <2> QED BY <2>1 DEF NetworkOK
<1> DEFINE e == Emitter(out)
<1>4. e \in SomeEmitter(c) /\ e.pending = None /\ e.streams = out
  BY <1>3 DEF SomeEmitter, Emitter
<1>5. /\ DOMAIN emitters' \subseteq DOMAIN emitters \union {c}
      /\ \A d \in DOMAIN emitters' : emitters'[d] = IF d = c THEN e ELSE emitters[d]
      /\ net.wired[c] # <<>> => DOMAIN emitters' = DOMAIN emitters \union {c}
      /\ net.wired[c] = <<>> => emitters' = emitters
  BY <1>2 DEF Activate, Put
<1> HIDE DEF e
<1>6. Conn' = Conn /\ Comp' = Comp
  BY <1>1, SameNet
<1>7. Held'
  <2>1. \A d \in DOMAIN emitters' : EmitterOK(d, emitters'[d])
    BY <1>4, <1>5 DEF TypeOK, EmitterOK, SomeEmitter
  <2>2. \A d \in DOMAIN emitters' : EmitterOK(d, emitters[d])'
    BY <1>1, <2>1 DEF EmitterOK, Rest, Connections, Conn
  <2>3. DOMAIN emitters' \subseteq Comp
    BY <1>5 DEF TypeOK
  <2> QED BY <1>1, <1>6, <2>2, <2>3, Consumed DEF Held
<1>8. emitted' = [k \in Conn |-> IF net.edges[k].source = c
                                 THEN emitted[k] \o out[net.edges[k].field] ELSE emitted[k]]
  BY DEF Activate
<1>9. ASSUME NEW k \in Conn, net.edges[k].source = c
      PROVE  /\ emitted'[k] = emitted[k] \o Waiting(k)' /\ emitted'[k] \in Seq(Packets)
             /\ Waiting(k) = <<>> /\ buffer'[k] = buffer[k]
  <2>1. net.edges[k].field \in Fields(net, c) /\ k \notin Incoming(c)
    BY <1>9, Edges, NeverBefore DEF TypeOK, Incoming
  <2>2. c \in DOMAIN emitters' /\ emitters'[c] = e
    BY <1>3, <1>5, <2>1
  <2>3. Waiting(k)' = Left(c, e, k)
    BY <1>1, <1>9, <2>2, WaitingNext
  <2>4. Left(c, e, k) = out[net.edges[k].field]
    BY <1>4, <1>9, LeftIs
  <2>5. Waiting(k) = <<>>
    BY <1>2, <1>9, WaitingIs
  <2>6. buffer'[k] = buffer[k]
    BY <1>1, <2>1 DEF Consume
  <2>7. emitted[k] \in Seq(Packets) /\ out[net.edges[k].field] \in Seq(Packets)
    BY <1>3, <2>1 DEF Histories
  <2>8. emitted[k] \o out[net.edges[k].field] \in Seq(Packets)
    BY <2>7, ConcatProperties
  <2> QED BY <1>8, <1>9, <2>3, <2>4, <2>5, <2>6, <2>8
<1>10. ASSUME NEW k \in Conn, net.edges[k].source # c
       PROVE  /\ emitted'[k] = emitted[k] /\ emitted'[k] \in Seq(Packets)
              /\ Waiting(k)' = Waiting(k)
  <2>1. net.edges[k].source \in DOMAIN emitters' <=> net.edges[k].source \in DOMAIN emitters
    BY <1>5, <1>10
  <2>2. Waiting(k)' = Waiting(k)
    BY <1>1, <1>5, <1>10, <2>1, WaitingNext, WaitingIs
  <2> QED BY <1>8, <1>10, <2>2 DEF Histories
<1>11. emitted' \in [Conn -> Seq(Packets)]
  BY <1>8, <1>9, <1>10
<1> QED BY <1>7, <1>9, <1>10, <1>11

-----------------------------------------------------------------------------
(* The invariant *)

\* The steps by what they do: nothing to the packets, a step of an emitter, an activation.
Quiet ==
    /\ Start \/ Finish \/ Sweep \/ AllBlocked \/ UNCHANGED vars
    /\ UNCHANGED <<net, buffer, emitters, spent, activations, sends, results, history>>
EmitterStep(c) == StepDone(c) \/ StepProgress(c) \/ StepBlocked(c) \/ StepRejected(c)
Failing(c) ==
    OverBudget(c) \/ \E why \in {"raised", "unverified", "bad output"} : ActivationFails(c, why)

LEMMA Kinds ==
  ASSUME [Next]_vars
  PROVE  \/ Quiet
         \/ \E c \in Comp : EmitterStep(c) \/ Failing(c)
         \/ \E c \in Comp : \E out \in net.answers[c] : Activate(c, out)
<1>1. Start \/ Finish \/ Sweep \/ AllBlocked \/ Returned \/ UNCHANGED vars => Quiet
  BY DEF Start, Finish, Sweep, AllBlocked, Returned, Quiet, vars, history
<1> QED BY <1>1 DEF Next, EmitterStep, Failing

\* An activation that fails, or is one too many.
LEMMA Fails ==
  ASSUME NEW c, Failing(c)
  PROVE  /\ Ready(c) /\ Consume(c) /\ status = "running" /\ todo' = todo
         /\ status' \in {"activation limit", "raised", "unverified", "bad output"}
         /\ activations' = activations + 1 /\ sends' = sends
         /\ UNCHANGED <<net, emitters, emitted>>
         /\ \/ results' = results
            \/ results' = Append(results, c)
BY DEF Failing, OverBudget, ActivationFails, FirstReady, AtLoop, Fail, Consume

LEMMA TypesKept ==
  ASSUME TypeOK, Histories, WithinLimit, [Next]_vars
  PROVE  TypeOK' /\ Histories' /\ WithinLimit'
<1>1. net.limit \in Nat
  BY Edges DEF TypeOK, NetworkOK
<1>2. Held
  BY DEF TypeOK, Held
<1>3. net' = net => Comp' = Comp /\ Conn' = Conn
  BY SameNet
<1>4. CASE Quiet
  <2>1. /\ UNCHANGED <<net, buffer, emitters, spent, activations, sends, results, history>>
        /\ Comp' = Comp /\ Conn' = Conn
    BY <1>3, <1>4 DEF Quiet
  <2>2. Held'
    BY <1>2, <2>1 DEF Held, EmitterOK, Rest, Connections, Conn
  <2>3. todo' \subseteq DOMAIN emitters'
    BY <1>4, <2>1 DEF Quiet, Start, Finish, Sweep, AllBlocked, vars, TypeOK
  <2>4. status' \in {"new", "running", "sweeping", "ok"} \union Failures
    BY <1>4 DEF Quiet, Start, Finish, Sweep, AllBlocked, vars, TypeOK, Failures, Fail
  <2>5. Working' => Working
    BY <1>4 DEF Quiet, Start, Finish, Sweep, AllBlocked, vars, Fail, AtLoop, Working
  <2> QED BY <2>1, <2>2, <2>3, <2>4, <2>5 DEF TypeOK, Held, Histories, WithinLimit, history
<1>5. ASSUME NEW c \in Comp, EmitterStep(c)
      PROVE  TypeOK' /\ Histories' /\ WithinLimit'
  <2>1. /\ Held' /\ (StepDone(c) \/ DOMAIN emitters' = DOMAIN emitters)
        /\ UNCHANGED <<net, spent, activations, results, history>>
        /\ c \in DOMAIN emitters /\ status = "sweeping"
    BY <1>5, EmitterSteps DEF EmitterStep
  <2>2. Comp' = Comp /\ Conn' = Conn
    BY <1>3, <2>1
  <2>3. todo' \subseteq DOMAIN emitters'
    <3>1. StepDone(c) => todo' = {}
      BY DEF StepDone
    <3>2. EmitterStep(c) => todo' \subseteq todo
      BY DEF EmitterStep, StepDone, StepProgress, StepBlocked, StepRejected
    <3> QED BY <1>5, <2>1, <3>1, <3>2 DEF TypeOK
  <2>4. status' \in {"running", "sweeping"} \union Failures
    BY <1>5, <2>1 DEF EmitterStep, StepDone, StepProgress, StepBlocked, StepRejected, Failures, Fail
  <2>5. sends' \in Nat
    <3>1. sends' = sends \/ sends' = sends + 1
      BY <1>5 DEF EmitterStep, StepDone, StepProgress, StepBlocked, StepRejected
    <3> QED BY <3>1 DEF TypeOK
  <2> QED
    BY <2>1, <2>2, <2>3, <2>4, <2>5 DEF TypeOK, Held, Histories, WithinLimit, Working, history
<1>6. ASSUME NEW c \in Comp, Failing(c)
      PROVE  TypeOK' /\ Histories' /\ WithinLimit'
  <2>1. /\ Ready(c) /\ Consume(c) /\ status = "running" /\ todo' = todo
        /\ status' \in {"activation limit", "raised", "unverified", "bad output"}
        /\ activations' = activations + 1 /\ sends' = sends
        /\ UNCHANGED <<net, emitters, emitted>>
        /\ \/ results' = results
           \/ results' = Append(results, c)
    BY <1>6, Fails
  <2>2. Comp' = Comp /\ Conn' = Conn
    BY <1>3, <2>1
  <2>3. Held' /\ taken' \in [Conn -> Seq(Packets)]
    <3>1. /\ buffer' \in [Conn -> Seq(Packets)] /\ taken' \in [Conn -> Seq(Packets)]
          /\ \A k \in Conn : Len(buffer'[k]) <= net.edges[k].capacity
      BY <2>1, Consumed
    <3> QED BY <1>2, <2>1, <2>2, <3>1 DEF Held, EmitterOK, Rest, Connections, Conn
  <2>4. activations' \in 0..(net.limit + 1)
    <3>1. activations \in 0..(net.limit + 1) /\ activations <= net.limit
      BY <2>1 DEF TypeOK, WithinLimit, Working
    <3>2. activations' = activations + 1
      BY <2>1
    <3> QED BY <1>1, <3>1, <3>2
  <2>5. spent' \subseteq Comp
    BY <2>1 DEF Consume, TypeOK
  <2>6. results' \in Seq(Comp)
    <3>1. results \in Seq(Comp)
      BY DEF Histories
    <3>2. \/ results' = results
          \/ results' = Append(results, c)
      BY <2>1
    <3> QED BY <3>1, <3>2
  <2>7. status' \in Failures /\ ~Working'
    BY <2>1 DEF Failures, Working
  <2> QED
    BY <2>1, <2>2, <2>3, <2>4, <2>5, <2>6, <2>7 DEF TypeOK, Held, Histories, WithinLimit
<1>7. ASSUME NEW c \in Comp, NEW out \in net.answers[c], Activate(c, out)
      PROVE  TypeOK' /\ Histories' /\ WithinLimit'
  <2>1. /\ Ready(c) /\ Consume(c) /\ status = "running" /\ status' = status
        /\ todo' = todo /\ net' = net /\ sends' = sends
        /\ activations' = activations + 1 /\ ~Exhausted
        /\ results' = Append(results, c)
    BY <1>7 DEF Activate, FirstReady, AtLoop, Consume
  <2>2. Comp' = Comp /\ Conn' = Conn
    BY <1>3, <2>1
  <2>3. Held' /\ emitted' \in [Conn -> Seq(Packets)] /\ taken' \in [Conn -> Seq(Packets)]
    BY <1>7, <2>1, Activates, Consumed
  <2>4. activations' \in 0..(net.limit + 1) /\ activations' <= net.limit
    BY <1>1, <2>1 DEF TypeOK, Exhausted
  <2>5. spent' \subseteq Comp
    BY <2>1 DEF Consume, TypeOK
  <2>6. results' \in Seq(Comp)
    BY <2>1 DEF Histories
  <2>7. todo' \subseteq DOMAIN emitters'
    <3>1. DOMAIN emitters \subseteq DOMAIN emitters'
      BY <1>7 DEF Activate, Put
    <3> QED BY <2>1, <3>1 DEF TypeOK
  <2> QED
    BY <2>1, <2>2, <2>3, <2>4, <2>5, <2>6, <2>7 DEF TypeOK, Held, Histories, WithinLimit
<1> QED BY <1>4, <1>5, <1>6, <1>7, Kinds

LEMMA ConservedKept ==
  ASSUME TypeOK, Histories, PacketsConserved, [Next]_vars, TypeOK', Histories'
  PROVE  PacketsConserved'
<1>1. \A k \in Conn : /\ taken[k] \in Seq(Packets) /\ buffer[k] \in Seq(Packets)
                      /\ emitted[k] = (taken[k] \o buffer[k]) \o Waiting(k)
                      /\ Waiting(k) \in Seq(Packets)
  BY WaitingIs DEF TypeOK, Histories, PacketsConserved
<1>2. SUFFICES ASSUME NEW k \in Conn
               PROVE  net' = net /\ emitted'[k] = (taken'[k] \o buffer'[k]) \o Waiting(k)'
  <2>1. net' = net
    BY DEF Next, vars, Start, OverBudget, ActivationFails, Activate, Consume, Finish, Sweep,
           StepDone, StepProgress, StepBlocked, StepRejected, AllBlocked, Returned
  <2> QED BY <2>1, SameNet DEF PacketsConserved
<1>3. CASE Quiet
  <2>1. UNCHANGED <<net, buffer, emitters, taken, emitted>>
    BY <1>3 DEF Quiet, history
  <2>2. Waiting(k)' = Waiting(k)
    BY <2>1, WaitingNext, WaitingIs
  <2> QED BY <1>1, <2>1, <2>2
<1>4. ASSUME NEW c \in Comp, EmitterStep(c)
      PROVE  net' = net /\ emitted'[k] = (taken'[k] \o buffer'[k]) \o Waiting(k)'
  <2>1. /\ buffer'[k] \o Waiting(k)' = buffer[k] \o Waiting(k)
        /\ UNCHANGED <<net, taken, emitted>>
    BY <1>4, EmitterSteps DEF EmitterStep, history
  <2>2. buffer'[k] \in Seq(Packets) /\ Waiting(k)' \in Seq(Packets)
    <3>1. Conn' = Conn
      BY <2>1, SameNet
    <3>2. buffer'[k] \in Seq(Packets)
      BY <3>1 DEF TypeOK
    <3>3. \A d \in DOMAIN emitters' : emitters'[d] \in SomeEmitter(d)
      BY <2>1 DEF TypeOK, EmitterOK, SomeEmitter
    <3>4. Waiting(k)' \in Seq(Packets)
      <4>1. CASE net.edges[k].source \in DOMAIN emitters'
        BY <2>1, <3>3, <4>1, LeftIs, WaitingNext
      <4>2. CASE net.edges[k].source \notin DOMAIN emitters'
        <5>1. Waiting(k)' = <<>>
          BY <2>1, <4>2, WaitingNext
        <5> QED BY <5>1, EmptySeq
      <4> QED BY <4>1, <4>2
    <3> QED BY <3>2, <3>4
  <2>3. taken'[k] = taken[k] /\ emitted'[k] = emitted[k] /\ net' = net
    BY <2>1
  <2>4. (taken[k] \o buffer'[k]) \o Waiting(k)' = taken[k] \o (buffer'[k] \o Waiting(k)')
    BY <1>1, <2>2, Associates
  <2>5. (taken[k] \o buffer[k]) \o Waiting(k) = taken[k] \o (buffer[k] \o Waiting(k))
    BY <1>1, Associates
  <2> QED BY <1>1, <2>1, <2>3, <2>4, <2>5
<1>5. ASSUME NEW c \in Comp, Failing(c)
      PROVE  net' = net /\ emitted'[k] = (taken'[k] \o buffer'[k]) \o Waiting(k)'
  <2>1. Ready(c) /\ Consume(c) /\ UNCHANGED <<net, emitters, emitted>>
    BY <1>5, Fails
  <2>2. taken'[k] \o buffer'[k] = taken[k] \o buffer[k]
    BY <2>1, Consumed
  <2>3. Waiting(k)' = Waiting(k)
    BY <2>1, WaitingNext, WaitingIs
  <2> QED BY <1>1, <2>1, <2>2, <2>3
<1>6. ASSUME NEW c \in Comp, NEW out \in net.answers[c], Activate(c, out)
      PROVE  net' = net /\ emitted'[k] = (taken'[k] \o buffer'[k]) \o Waiting(k)'
  <2>1. Ready(c) /\ Consume(c)
    BY <1>6 DEF Activate, FirstReady
  <2>2. taken'[k] \o buffer'[k] = taken[k] \o buffer[k] /\ net' = net
    BY <2>1, Consumed
  <2>3. \/ emitted'[k] = emitted[k] /\ Waiting(k)' = Waiting(k)
        \/ emitted'[k] = emitted[k] \o Waiting(k)' /\ Waiting(k) = <<>>
    BY <1>6, Activates
  <2>4. Waiting(k) = <<>> => emitted[k] = taken[k] \o buffer[k]
    <3>1. taken[k] \o buffer[k] \in Seq(Packets)
      BY <1>1, ConcatProperties
    <3> QED BY <1>1, <3>1, ConcatEmptySeq
  <2> QED BY <1>1, <2>2, <2>3, <2>4
<1> QED BY <1>3, <1>4, <1>5, <1>6, Kinds

LEMMA CountedKept ==
  ASSUME TypeOK, Histories, Counted, [Next]_vars
  PROVE  Counted'
<1>1. CASE Quiet
  <2>1. UNCHANGED <<net, spent, results, taken>>
    BY <1>1 DEF Quiet, history
  <2>2. (Working \/ status = "ok")' => Working \/ status = "ok"
    BY <1>1 DEF Quiet, Start, Finish, Sweep, AllBlocked, vars, Fail, AtLoop, Working
  <2> QED BY <2>1, <2>2, SameNet, Counts DEF Counted
<1>2. ASSUME NEW c \in Comp, EmitterStep(c)
      PROVE  Counted'
  <2>1. UNCHANGED <<net, spent, results, taken>> /\ Working
    BY <1>2, EmitterSteps DEF EmitterStep, history, Working
  <2> QED BY <2>1, SameNet, Counts DEF Counted
<1>3. ASSUME NEW c \in Comp, Failing(c)
      PROVE  Counted'
  <2>1. status' \in {"activation limit", "raised", "unverified", "bad output"}
    BY <1>3, Fails
  <2> QED BY <2>1 DEF Counted, Working
<1>4. ASSUME NEW c \in Comp, NEW out \in net.answers[c], Activate(c, out)
      PROVE  Counted'
  <2>1. /\ Ready(c) /\ Consume(c) /\ status = "running" /\ net' = net
        /\ results' = Append(results, c)
    BY <1>4 DEF Activate, FirstReady, AtLoop, Consume
  <2>2. SUFFICES ASSUME NEW d \in Comp
                 PROVE  IF Incoming(d) = {} THEN Activated(d)' = IF d \in spent' THEN 1 ELSE 0
                        ELSE \A k \in Incoming(d) : Activated(d)' = Len(taken'[k])
    BY <2>1, SameNet DEF Counted
  <2>3. IF Incoming(d) = {} THEN Activated(d) = IF d \in spent THEN 1 ELSE 0
        ELSE \A k \in Incoming(d) : Activated(d) = Len(taken[k])
    BY <2>1 DEF Counted, Working
  <2>4. /\ Activated(d) \in Nat
        /\ Activated(d)' = IF d = c THEN Activated(d) + 1 ELSE Activated(d)
    BY <2>1, Counts
  <2>5. \A k \in Incoming(d) : k \in Conn /\ (d # c => k \notin Incoming(c)) 
    BY DEF Incoming
  <2>6. \A k \in Conn : Len(taken'[k]) =
                          IF k \in Incoming(c) THEN Len(taken[k]) + 1 ELSE Len(taken[k])
    BY <2>1, Consumed
  <2>7. CASE Incoming(d) = {}
    <3>1. d = c => d \notin spent /\ d \in spent'
      BY <2>1, <2>7 DEF Ready, Consume
    <3>2. d # c => (d \in spent <=> d \in spent')
      BY <2>1 DEF Consume
    <3> QED BY <2>3, <2>4, <2>7, <3>1, <3>2
  <2>8. CASE Incoming(d) # {}
    BY <2>3, <2>4, <2>5, <2>6, <2>8
  <2> QED BY <2>7, <2>8
<1> QED BY <1>1, <1>2, <1>3, <1>4, Kinds

LEMMA AtEndKept ==
  ASSUME TypeOK, AtEnd, [Next]_vars
  PROVE  AtEnd'
<1>1. CASE Finish
  BY <1>1, SameNet DEF Finish, AtEnd, NoneReady, Ready, is_empty, Conn
<1>2. CASE ~Finish /\ Quiet
  <2>1. status' = "ok" => UNCHANGED vars
    BY <1>2 DEF Quiet, Start, Sweep, AllBlocked, Fail
  <2>2. UNCHANGED vars => AtEnd'
    BY DEF vars, AtEnd, NoneReady, Ready, is_empty, Conn, Comp, Incoming
  <2>3. status' # "ok" => AtEnd'
    BY DEF AtEnd
  <2> QED BY <2>1, <2>2, <2>3
<1>3. ASSUME NEW c \in Comp, EmitterStep(c) \/ Failing(c)
      PROVE  status' # "ok"
  <2>1. CASE EmitterStep(c)
    BY <2>1 DEF EmitterStep, StepDone, StepProgress, StepBlocked, StepRejected, Fail, Turn
  <2>2. CASE Failing(c)
    BY <2>2, Fails
  <2> QED BY <1>3, <2>1, <2>2
<1>4. ASSUME NEW c \in Comp, NEW out \in net.answers[c], Activate(c, out)
      PROVE  status' # "ok"
  BY <1>4 DEF Activate, AtLoop
<1> QED BY <1>1, <1>2, <1>3, <1>4, Kinds DEF AtEnd

\* When no component is ready and none joins two connections, a connection that holds a
\* packet leads to a producer.
LEMMA Held1 ==
  ASSUME TypeOK, NoJoin, NoneReady, NEW k \in Conn, ~is_empty(k)
  PROVE  net.edges[k].target \in DOMAIN emitters
<1> DEFINE t == net.edges[k].target
<1>1. t \in Comp /\ k \in Incoming(t)
  BY Edges DEF TypeOK, Incoming
<1>2. \A j \in Incoming(t) : ~is_empty(j)
  BY <1>1 DEF NoJoin
<1>3. ~Ready(t)
  BY <1>1 DEF NoneReady
<1> QED BY <1>1, <1>2, <1>3 DEF Ready

\* A blocked producer is not the last: the target of the full connection is one, and later.
LEMMA BlockedGoesOn ==
  ASSUME TypeOK, InSweep, NoJoin, NEW c \in Comp, StepBlocked(c)
  PROVE  InSweep'
<1>1. /\ c \in DOMAIN emitters /\ status = "sweeping" /\ Turn(c) /\ c \in todo
      /\ net' = net /\ status' = status /\ todo' = todo \ {c}
  BY DEF StepBlocked, Turn, TypeOK
<1>2. PICK m \in Pull(c), k \in Conn :
         SentBefore(k, c, m) /\ is_full(k) /\ emitters' = Put(c, [m EXCEPT !.pending.from = k])
  BY DEF StepBlocked
<1>3. /\ DOMAIN emitters' = DOMAIN emitters
      /\ net.edges[k].source = c
      /\ \A j \in Conn : net.edges[j].source # c => buffer'[j] = buffer[j]
  BY <1>1, <1>2, Suspended
<1>4. todo \subseteq Comp /\ DOMAIN emitters \subseteq Comp
  BY DEF TypeOK
<1>5. \A d \in todo : d # c => Before(c, d)
  BY <1>1, <1>4, TurnIsFirst DEF TypeOK
<1>6. ~is_empty(k)
  <2>1. buffer[k] \in Seq(Packets) /\ net.edges[k].capacity \in Nat \ {0}
    BY Edges DEF TypeOK
  <2> QED BY <1>2, <2>1 DEF is_full, is_empty
<1> DEFINE t == net.edges[k].target
<1>7. t \in DOMAIN emitters
  BY <1>1, <1>3, <1>6 DEF InSweep
<1>8. Before(c, t) /\ t # c
  BY <1>3, Edges, NeverBefore DEF TypeOK
<1>9. t \in todo
  <2>1. t \notin todo => Before(t, c)
    BY <1>1, <1>7 DEF InSweep
  <2>2. ~Before(t, c)
    BY <1>4, <1>7, <1>8, OneOrder DEF TypeOK
  <2> QED BY <2>1, <2>2
<1>10. todo' # {}
  BY <1>1, <1>8, <1>9
<1>11. \A d \in DOMAIN emitters' \ todo' : \A e \in todo' : Before(d, e)
  BY <1>1, <1>3, <1>5 DEF InSweep
<1>12. \A j \in Conn : net.edges[j].source \in todo' /\ buffer'[j] # <<>> =>
          net.edges[j].target \in DOMAIN emitters'
  BY <1>1, <1>3 DEF InSweep, is_empty
<1>13. /\ \A d, e : Before(d, e)' = Before(d, e)
       /\ Conn' = Conn
  BY <1>1, SameNet
<1> QED BY <1>1, <1>10, <1>11, <1>12, <1>13 DEF InSweep, is_empty

LEMMA SweepKept ==
  ASSUME TypeOK, InSweep, NoJoinNoDeadlock, [Next]_vars
  PROVE  InSweep' /\ NoJoinNoDeadlock'
<1>1. net' = net
  BY DEF Next, vars, Start, OverBudget, ActivationFails, Activate, Consume, Finish, Sweep,
         StepDone, StepProgress, StepBlocked, StepRejected, AllBlocked, Returned
<1>2. NoJoin' = NoJoin /\ Conn' = Conn /\ \A c, d : Before(c, d)' = Before(c, d)
  BY <1>1, SameNet
<1>3. CASE ~NoJoin
  BY <1>2, <1>3 DEF InSweep, NoJoinNoDeadlock
<1>4. CASE NoJoin /\ Quiet
  <2>1. CASE Start
    BY <2>1 DEF Start, InSweep, NoJoinNoDeadlock
  <2>2. CASE Finish
    <3>1. DOMAIN emitters = {} /\ NoneReady
      BY <2>2 DEF Finish
    <3>2. \A k \in Conn : is_empty(k)
      BY <1>4, <3>1, Held1
    <3> QED BY <2>2, <3>2 DEF Finish, InSweep, NoJoinNoDeadlock
  <2>3. CASE Sweep
    <3>1. /\ todo' = DOMAIN emitters /\ DOMAIN emitters # {} /\ NoneReady
          /\ emitters' = emitters /\ buffer' = buffer /\ status' = "sweeping"
      BY <2>3 DEF Sweep
    <3>2. \A k \in Conn : buffer[k] # <<>> => net.edges[k].target \in DOMAIN emitters
      BY <1>4, <3>1, Held1 DEF is_empty
    <3> QED BY <1>1, <1>2, <3>1, <3>2 DEF InSweep, NoJoinNoDeadlock, is_empty
  <2>4. CASE AllBlocked
    BY <1>4, <2>4 DEF AllBlocked, InSweep
  <2>5. CASE UNCHANGED vars
    BY <1>2, <2>5 DEF vars, InSweep, NoJoinNoDeadlock, is_empty
  <2> QED BY <1>4, <2>1, <2>2, <2>3, <2>4, <2>5 DEF Quiet
<1>5. ASSUME NEW c \in Comp, NoJoin, EmitterStep(c)
      PROVE  InSweep' /\ NoJoinNoDeadlock'
  <2>1. CASE StepBlocked(c)
    <3>1. status' = "sweeping"
      BY <2>1 DEF StepBlocked, Turn
    <3> QED BY <1>5, <2>1, <3>1, BlockedGoesOn DEF NoJoinNoDeadlock
  <2>2. CASE ~StepBlocked(c)
    <3>1. status' \in {"running", "send limit", "type mismatch"}
      BY <1>5, <2>2 DEF EmitterStep, StepDone, StepProgress, StepRejected, Fail
    <3> QED BY <3>1 DEF InSweep, NoJoinNoDeadlock
  <2> QED BY <2>1, <2>2
<1>6. ASSUME NEW c \in Comp, Failing(c)
      PROVE  InSweep' /\ NoJoinNoDeadlock'
  <2>1. status' \in {"activation limit", "raised", "unverified", "bad output"}
    BY <1>6, Fails
  <2> QED BY <2>1 DEF InSweep, NoJoinNoDeadlock
<1>7. ASSUME NEW c \in Comp, NEW out \in net.answers[c], Activate(c, out)
      PROVE  InSweep' /\ NoJoinNoDeadlock'
  <2>1. status' = "running"
    BY <1>7 DEF Activate, AtLoop
  <2> QED BY <2>1 DEF InSweep, NoJoinNoDeadlock
<1> QED BY <1>3, <1>4, <1>5, <1>6, <1>7, Kinds

LEMMA InitIInv == Init => IInv
<1> SUFFICES ASSUME Init PROVE IInv
  OBVIOUS
<1>1. /\ net \in Networks /\ status = "new" /\ buffer = [k \in Conn |-> <<>>]
      /\ DOMAIN emitters = {} /\ spent = {} /\ activations = 0 /\ sends = 0
      /\ results = <<>> /\ todo = {}
      /\ emitted = [k \in Conn |-> <<>>] /\ taken = [k \in Conn |-> <<>>]
  BY DEF Init
<1>2. NetworkOK(net) /\ net.limit \in Nat /\ \A k \in Conn : net.edges[k].capacity \in Nat
  BY <1>1, Edges DEF NetworkOK
<1>3. <<>> \in Seq(Packets) /\ <<>> \in Seq(Comp) /\ Len(<<>>) = 0
  BY EmptySeq
<1>4. TypeOK
  <2>1. activations \in 0..(net.limit + 1)
    BY <1>1, <1>2
  <2>2. \A k \in Conn : buffer[k] = <<>> /\ Len(buffer[k]) <= net.edges[k].capacity
    BY <1>1, <1>2, <1>3
  <2>3. buffer \in [Conn -> Seq(Packets)]
    BY <1>1, <1>3
  <2> QED BY <1>1, <2>1, <2>2, <2>3 DEF TypeOK
<1>5. Histories
  BY <1>1, <1>3 DEF Histories
<1>6. WithinLimit
  BY <1>1, <1>2 DEF WithinLimit
<1>7. PacketsConserved
  <2>1. \A k \in Conn : Waiting(k) = <<>>
    BY <1>1 DEF Waiting
  <2>2. <<>> \o <<>> \o <<>> = <<>>
    BY <1>3, ConcatEmptySeq
  <2> QED BY <1>1, <2>1, <2>2 DEF PacketsConserved
<1>8. Counted
  <2>1. \A c : Activated(c) = 0
    BY <1>1, <1>5, Counts
  <2>2. \A c \in Comp : \A k \in Incoming(c) : Len(taken[k]) = 0
    BY <1>1, <1>3 DEF Incoming
  <2> QED BY <1>1, <2>1, <2>2 DEF Counted
<1>9. AtEnd /\ InSweep /\ NoJoinNoDeadlock
  BY <1>1 DEF AtEnd, InSweep, NoJoinNoDeadlock
<1> QED BY <1>4, <1>5, <1>6, <1>7, <1>8, <1>9 DEF IInv

LEMMA NextIInv == IInv /\ [Next]_vars => IInv'
<1> SUFFICES ASSUME IInv, [Next]_vars PROVE IInv'
  OBVIOUS
<1>1. TypeOK' /\ Histories' /\ WithinLimit'
  BY TypesKept DEF IInv
<1>2. PacketsConserved'
  BY <1>1, ConservedKept DEF IInv
<1>3. Counted' /\ AtEnd'
  BY CountedKept, AtEndKept DEF IInv
<1>4. InSweep' /\ NoJoinNoDeadlock'
  BY SweepKept DEF IInv
<1> QED BY <1>1, <1>2, <1>3, <1>4 DEF IInv

LEMMA OkIsComplete == IInv => SuccessIsComplete
<1> SUFFICES ASSUME IInv, status = "ok", NEW c \in Comp
             PROVE  IF Incoming(c) = {} THEN Activated(c) = 1
                    ELSE \A k \in Incoming(c) : Activated(c) = Len(emitted[k])
  BY DEF SuccessIsComplete
<1>1. DOMAIN emitters = {} /\ ~Ready(c) /\ \A k \in Conn : is_empty(k)
  BY DEF IInv, AtEnd, NoneReady
<1>2. IF Incoming(c) = {} THEN Activated(c) = IF c \in spent THEN 1 ELSE 0
      ELSE \A k \in Incoming(c) : Activated(c) = Len(taken[k])
  BY DEF IInv, Counted
<1>3. CASE Incoming(c) = {}
  BY <1>1, <1>2, <1>3 DEF Ready
<1>4. ASSUME NEW k \in Incoming(c)
      PROVE  emitted[k] = taken[k]
  <2>1. k \in Conn /\ buffer[k] = <<>> /\ Waiting(k) = <<>>
    BY <1>1 DEF Incoming, is_empty, Waiting
  <2>2. taken[k] \in Seq(Packets)
    BY <2>1 DEF IInv, Histories
  <2>3. emitted[k] = (taken[k] \o <<>>) \o <<>>
    BY <2>1 DEF IInv, PacketsConserved
  <2> QED BY <2>2, <2>3, ConcatEmptySeq
<1> QED BY <1>2, <1>3, <1>4

-----------------------------------------------------------------------------
(* The theorems *)

\* Whatever the network, however its producers are suspended and resumed and wherever a run
\* fails: every packet of a verified output is received, buffered or still with its emitter,
\* once and in order; no connection holds more than its capacity; and run_stream answers ok
\* only when every packet was consumed (the loop and _Emitter of cbp/stream.py).
THEOREM PacketsAreConsumed == Spec => []PacketsConsumed
<1>1. Init => IInv
  BY InitIInv
<1>2. IInv /\ [Next]_vars => IInv'
  BY NextIInv
<1>3. IInv => PacketsConsumed
  BY OkIsComplete DEF IInv, PacketsConsumed
<1> QED BY <1>1, <1>2, <1>3, PTL DEF Spec

\* In a network of any size in which no component joins two connections, run_stream never
\* reports a deadlock: a producer that is found blocked has a consumer that is a producer
\* later in the sweep, and no packet is left without a component to take it.
THEOREM TreesNeverDeadlock == Spec => []NoJoinNoDeadlock
<1>1. Init => IInv
  BY InitIInv
<1>2. IInv /\ [Next]_vars => IInv'
  BY NextIInv
<1>3. IInv => NoJoinNoDeadlock
  BY DEF IInv
<1> QED BY <1>1, <1>2, <1>3, PTL DEF Spec
=============================================================================
