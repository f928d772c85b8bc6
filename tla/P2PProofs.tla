----------------------------- MODULE P2PProofs ------------------------------
(***************************************************************************)
(* Proofs about the peers, for any set of them, whoever is whose neighbour,*)
(* and any number of processes that are killed: PeerInv is inductive, and  *)
(* what follows from it.                                                   *)
(***************************************************************************)
EXTENDS P2PExchange, FiniteSetTheorems, TLAPS

\* What is left of a sequence without its head: the elements behind it.
LEMMA TailElements ==
  ASSUME NEW S, NEW s \in Seq(S), s # <<>>
  PROVE  /\ Tail(s) \in Seq(S)
         /\ Len(s) \in Nat \ {0} /\ Len(Tail(s)) = Len(s) - 1
         /\ \A j \in 1 .. Len(s) - 1 : Tail(s)[j] = s[j + 1]
         /\ Head(s) = s[1] /\ Head(s) \in S
         /\ Tail(s) \o <<>> = Tail(s)
OBVIOUS

\* A sequence with one element more: it, and the elements there were.
LEMMA AppendElements ==
  ASSUME NEW S, NEW s \in Seq(S), NEW x \in S
  PROVE  /\ Append(s, x) \in Seq(S) /\ Append(s, x) # <<>>
         /\ s \o <<x>> = Append(s, x)
         /\ Len(s) \in Nat /\ Len(Append(s, x)) = Len(s) + 1
         /\ \A j \in 1 .. Len(s) : Append(s, x)[j] = s[j]
         /\ Append(s, x)[Len(s) + 1] = x
OBVIOUS

\* Completions of connection l among those of e.
Has(e, l) == \E i \in DOMAIN e : e[i].conn = l
Unique(e, l) == \A i, j \in DOMAIN e : e[i].conn = l /\ e[j].conn = l => i = j

\* The connections that have completions, when one is marked seen...
LEMMA TailHas ==
  ASSUME NEW e \in Seq(Events), e # <<>>, NEW l
  PROVE  /\ Has(Tail(e), l) => Has(e, l)
         /\ Head(e).conn = l => Has(e, l)
         /\ Unique(e, l) => Unique(Tail(e), l)
         /\ Unique(e, l) /\ Head(e).conn = l => ~Has(Tail(e), l)
<1>1. /\ Tail(e) \in Seq(Events)
      /\ Len(e) \in Nat \ {0} /\ Len(Tail(e)) = Len(e) - 1
      /\ \A j \in 1 .. Len(e) - 1 : Tail(e)[j] = e[j + 1]
      /\ Head(e) = e[1]
  BY TailElements, Zenon
<1>2. DOMAIN e = 1 .. Len(e) /\ DOMAIN Tail(e) = 1 .. Len(e) - 1
  BY <1>1
<1>3. \A j \in 1 .. Len(e) - 1 : j + 1 \in 1 .. Len(e) /\ j + 1 # 1
  BY <1>1
<1>4. 1 \in 1 .. Len(e)
  BY <1>1
<1>5. Has(Tail(e), l) => Has(e, l)
  BY <1>1, <1>2, <1>3, Zenon DEF Has
<1>6. Head(e).conn = l => Has(e, l)
  BY <1>1, <1>2, <1>4, Zenon DEF Has
<1>7. ASSUME Unique(e, l)
      PROVE  Unique(Tail(e), l)
  <2>1. SUFFICES ASSUME NEW i \in 1 .. Len(e) - 1, NEW j \in 1 .. Len(e) - 1,
                        Tail(e)[i].conn = l, Tail(e)[j].conn = l
                 PROVE  i = j
    BY <1>2 DEF Unique
  <2>2. i + 1 = j + 1
    BY <1>1, <1>2, <1>3, <1>7, <2>1 DEF Unique
  <2>. QED  BY <1>1, <2>2
<1>8. ASSUME Unique(e, l), Head(e).conn = l, Has(Tail(e), l)
      PROVE  FALSE
  <2>1. PICK j \in 1 .. Len(e) - 1 : Tail(e)[j].conn = l
    BY <1>2, <1>8, Zenon DEF Has
  <2>2. e[j + 1].conn = l /\ e[1].conn = l
    BY <1>1, <1>8, <2>1
  <2>. QED  BY <1>2, <1>3, <1>4, <1>8, <2>2, Zenon DEF Unique
<1>. QED  BY <1>5, <1>6, <1>7, <1>8

\* ... and when one is added, the connection's first or that of another.
LEMMA AppendHas ==
  ASSUME NEW e \in Seq(Events), NEW x \in Events, NEW l
  PROVE  /\ Has(Append(e, x), l) => Has(e, l) \/ x.conn = l
         /\ Unique(e, l) /\ (x.conn = l => ~Has(e, l)) => Unique(Append(e, x), l)
<1>1. /\ Append(e, x) \in Seq(Events)
      /\ Len(e) \in Nat /\ Len(Append(e, x)) = Len(e) + 1
      /\ \A j \in 1 .. Len(e) : Append(e, x)[j] = e[j]
      /\ Append(e, x)[Len(e) + 1] = x
  OBVIOUS
<1>2. DOMAIN e = 1 .. Len(e) /\ DOMAIN Append(e, x) = 1 .. Len(e) + 1
  BY <1>1
<1>3. \A j \in 1 .. Len(e) + 1 : j \in 1 .. Len(e) \/ j = Len(e) + 1
  BY <1>1
<1>4. ASSUME NEW i \in DOMAIN Append(e, x), Append(e, x)[i].conn = l
      PROVE  Has(e, l) \/ x.conn = l
  <2>1. CASE i \in 1 .. Len(e)
    BY <1>1, <1>2, <1>4, <2>1, Zenon DEF Has
  <2>2. CASE i = Len(e) + 1
    BY <1>1, <1>4, <2>2, Zenon
  <2>. QED  BY <1>2, <1>3, <1>4, <2>1, <2>2
<1>5. ASSUME Unique(e, l), x.conn = l => ~Has(e, l),
             NEW i \in DOMAIN Append(e, x), NEW j \in DOMAIN Append(e, x),
             Append(e, x)[i].conn = l, Append(e, x)[j].conn = l
      PROVE  i = j
  <2>1. \A k \in 1 .. Len(e) : e[k].conn = l => x.conn # l
    BY <1>2, <1>5, Zenon DEF Has
  <2>2. CASE i \in 1 .. Len(e) /\ j \in 1 .. Len(e)
    BY <1>1, <1>2, <1>5, <2>2, Zenon DEF Unique
  <2>3. CASE i = Len(e) + 1 /\ j \in 1 .. Len(e)
    BY <1>1, <1>5, <2>1, <2>3, Zenon
  <2>4. CASE i \in 1 .. Len(e) /\ j = Len(e) + 1
    BY <1>1, <1>5, <2>1, <2>4, Zenon
  <2>5. CASE i = Len(e) + 1 /\ j = Len(e) + 1
    BY <2>5
  <2>. QED  BY <1>2, <1>3, <1>5, <2>2, <2>3, <2>4, <2>5
<1>6. Has(Append(e, x), l) => Has(e, l) \/ x.conn = l
  BY <1>4, Zenon DEF Has
<1>7. Unique(e, l) /\ (x.conn = l => ~Has(e, l)) => Unique(Append(e, x), l)
  BY <1>5, Zenon DEF Unique
<1>. QED  BY <1>6, <1>7

-----------------------------------------------------------------------------
\* What one turn of the P2P server's loop does to the completions and to the
\* connection of the one it handles: it marks that seen and submits a send or
\* a recv on the same connection, or neither.
Shape(p) ==
  \/ /\ events' = events /\ armed' = armed /\ toListener' = toListener
     /\ events[p] # <<>>
     /\ \E step \in {"handle", "copy"} : turn' = [turn EXCEPT ![p] = step]
  \/ /\ events[p] # <<>>
     /\ events' = [events EXCEPT ![p] = Tail(@)]
     /\ armed' \in {armed, armed \cup {conn(p)}}
     /\ toListener' = toListener
     /\ turn' = [turn EXCEPT ![p] = "wait"]
  \/ /\ events[p] # <<>>
     /\ \E x \in Events :
          /\ x.conn = conn(p)
          /\ events' = [events EXCEPT ![p] = Append(Tail(@), x)]
     /\ armed' = armed
     /\ \/ toListener' = toListener
        \/ \E st \in ListenerStatus \ {"GARBLED"} :
             /\ st = "BLOCK" => block_written_size[p]
             /\ toListener' = [toListener EXCEPT ![conn(p)] = Append(@, st)]
     /\ turn' = [turn EXCEPT ![p] = "wait"]

\* A send, as part of a turn.
LEMMA SendShape ==
  ASSUME PeerInv, NEW p \in Peers, events[p] # <<>>,
         NEW st \in ListenerStatus \ {"GARBLED"}, st = "BLOCK" => block_written_size[p],
         NEW flag \in {"FLAG_WAIT_PONG", "FLAG_BLOCK_SENDED", "FLAG_READ_RESPONSE"},
         P2Pser_send_STATUS(p, st, flag), turn' = [turn EXCEPT ![p] = "wait"]
  PROVE  Shape(p) /\ UNCHANGED <<alive, killed, processVars, toServer>>
<1>1. events[p] \in Seq(Events) /\ events \in [Peers -> Seq(Events)]
  BY Zenon DEF PeerInv, TypeOK, P2PServerTypeOK
<1>2. Tail(events[p]) \in Seq(Events) /\ Head(events[p]) \in Events
  BY <1>1, TailElements, Zenon
<1>3. conn(p) \in Peers
  BY <1>2 DEF conn, Events
<1>4. Event(flag, conn(p), "none") \in Events /\ Event(flag, conn(p), "none").conn = conn(p)
  BY <1>3 DEF Event, Events
<1>5. Tail(events[p]) \o <<Event(flag, conn(p), "none")>>
        = Append(Tail(events[p]), Event(flag, conn(p), "none"))
  BY <1>2, <1>4, AppendElements
<1>6. events' = [events EXCEPT ![p] = Append(Tail(@), Event(flag, conn(p), "none"))]
  BY <1>5 DEF P2Pser_send_STATUS, Seen
<1>7. armed' = armed /\ UNCHANGED <<alive, killed, processVars, toServer>>
  BY Zenon DEF P2Pser_send_STATUS
<1>8. \/ toListener' = toListener
      \/ toListener' = [toListener EXCEPT ![conn(p)] = Append(@, st)]
  BY Zenon DEF P2Pser_send_STATUS
<1>. QED  BY <1>4, <1>6, <1>7, <1>8, Zenon DEF Shape

\* Every turn of the loop has that shape, and leaves the processes as they are.
LEMMA TurnShape ==
  ASSUME PeerInv, NEW p \in Peers, EventLoopP2P(p)
  PROVE  Shape(p) /\ UNCHANGED <<alive, killed, processVars, toServer>>
<1>1. turn[p] # "wait" => events[p] # <<>>
  BY Zenon DEF PeerInv, ConnectionInv
<1>2. events[p] \in Seq(Events) /\ events \in [Peers -> Seq(Events)]
  BY Zenon DEF PeerInv, TypeOK, P2PServerTypeOK
<1>3. events[p] # <<>> => Tail(events[p]) \o <<>> = Tail(events[p])
  BY <1>2, TailElements, Zenon
<1>4. CASE TryMutex(p)
  BY <1>4, Zenon DEF TryMutex, Shape, linkVars, processVars
<1>5. CASE ReadBlockSize(p)
  <2>1. events[p] # <<>>
    BY <1>1, <1>5 DEF ReadBlockSize
  <2>. QED  BY <1>5, <2>1, Zenon DEF ReadBlockSize, Shape, linkVars, processVars
<1>6. ASSUME Seen(p, <<>>), events[p] # <<>>, turn' = [turn EXCEPT ![p] = "wait"],
             armed' \in {armed, armed \cup {conn(p)}}, UNCHANGED linkVars
      PROVE  Shape(p) /\ UNCHANGED <<alive, killed, processVars, toServer>>
  <2>1. events' = [events EXCEPT ![p] = Tail(@)]
    BY <1>3, <1>6 DEF Seen
  <2>. QED  BY <1>6, <2>1, Zenon DEF Shape, linkVars
<1>7. \A flag : Handles(p, flag) => events[p] # <<>> /\ turn' = [turn EXCEPT ![p] = "wait"]
  BY <1>1 DEF Handles
<1>8. CASE OnReadResponse(p)
  BY <1>6, <1>7, <1>8 DEF OnReadResponse
<1>9. CASE OnNoResponse(p)
  BY <1>6, <1>7, <1>9 DEF OnNoResponse, HandlesStatus
<1>10. CASE OnAccept(p)
  BY <1>7, <1>10, SendShape DEF OnAccept, ListenerStatus
<1>11. CASE OnPong(p)
  BY <1>7, <1>11, SendShape DEF OnPong, HandlesStatus, ListenerStatus
<1>12. CASE OnAskNotReady(p)
  BY <1>7, <1>12, SendShape DEF OnAskNotReady, HandlesStatus, ListenerStatus
<1>13. CASE OnBlockSended(p)
  BY <1>7, <1>13, SendShape DEF OnBlockSended, ListenerStatus
<1>14. CASE P2Pser_send_block(p)
  <2>1. events[p] # <<>> /\ turn' = [turn EXCEPT ![p] = "wait"] /\ turn[p] = "copy"
    BY <1>1, <1>14 DEF P2Pser_send_block
  <2>2. CASE buffer_lengths[p]
    <3>1. block_written_size[p] /\ buffer_BLOCK_DATA[p] = "whole"
      BY <2>1, <2>2, Zenon DEF PeerInv, BlockInv
    <3>2. P2Pser_send_STATUS(p, "BLOCK", "FLAG_BLOCK_SENDED")
      BY <1>14, <2>2, <3>1 DEF P2Pser_send_block
    <3>. QED  BY <2>1, <3>1, <3>2, SendShape DEF ListenerStatus
  <2>3. CASE ~buffer_lengths[p]
    <3>1. /\ Seen(p, <<Event("FLAG_BLOCK_SENDED", conn(p), "none")>>)
          /\ UNCHANGED <<linkVars, armed>>
      BY <1>14, <2>3 DEF P2Pser_send_block
    <3>2. Tail(events[p]) \in Seq(Events) /\ Head(events[p]) \in Events
      BY <1>2, <2>1, TailElements, Zenon
    <3>3. /\ Event("FLAG_BLOCK_SENDED", conn(p), "none") \in Events
          /\ Event("FLAG_BLOCK_SENDED", conn(p), "none").conn = conn(p)
      BY <3>2 DEF conn, Event, Events
    <3>4. Tail(events[p]) \o <<Event("FLAG_BLOCK_SENDED", conn(p), "none")>>
            = Append(Tail(events[p]), Event("FLAG_BLOCK_SENDED", conn(p), "none"))
      BY <3>2, <3>3
    <3>5. events' = [events EXCEPT ![p] =
                       Append(Tail(@), Event("FLAG_BLOCK_SENDED", conn(p), "none"))]
      BY <3>1, <3>4 DEF Seen
    <3>. QED  BY <2>1, <3>1, <3>3, <3>5, Zenon DEF Shape, linkVars
  <2>. QED  BY <2>2, <2>3
<1>. QED  BY <1>4, <1>5, <1>8, <1>9, <1>10, <1>11, <1>12, <1>13, <1>14 DEF EventLoopP2P

-----------------------------------------------------------------------------
\* The message thread changes its own place and what it shares with the other
\* threads of its process, step by step.
LEMMA ThreadShape ==
  ASSUME PeerInv, NEW p \in Peers, MessageThreadStep(p)
  PROVE  /\ UNCHANGED <<alive, killed, toListener, toServer, p2pServerVars, listenerVars>>
         /\ LinkTypeOK' /\ (thread \in [Peers -> {"connecting", "receiving", "packing",
                             "packed", "sized", "created", "filled"}])'
         /\ BlockInv'
         /\ \A q \in Peers : block_written_size[q] => block_written_size'[q]
<1>. USE DEF PeerInv, TypeOK, LinkTypeOK, BlockInv
<1>1. CASE LockMutex(p)
  BY <1>1 DEF LockMutex, p2pServerVars, listenerVars
<1>2. CASE BeginSerialize(p)
  BY <1>2 DEF BeginSerialize, p2pServerVars, listenerVars
<1>3. CASE EndSerialize(p)
  BY <1>3 DEF EndSerialize, p2pServerVars, listenerVars
<1>4. CASE SetBlockSize(p)
  BY <1>4 DEF SetBlockSize, p2pServerVars, listenerVars
<1>5. CASE UnlockMutex(p)
  BY <1>5 DEF UnlockMutex, p2pServerVars, listenerVars
<1>6. CASE StopFilled(p)
  BY <1>6 DEF StopFilled, linkVars, processVars, p2pServerVars, listenerVars
<1>. QED  BY <1>1, <1>2, <1>3, <1>4, <1>5, <1>6 DEF MessageThreadStep

\* A turn of the loop keeps the types of what it changes.
LEMMA TurnType ==
  ASSUME PeerInv, NEW p \in Peers, EventLoopP2P(p)
  PROVE  LinkTypeOK' /\ P2PServerTypeOK'
<1>1. Shape(p) /\ UNCHANGED <<alive, killed, processVars, toServer>>
  BY TurnShape
<1>2. /\ events \in [Peers -> Seq(Events)] /\ armed \subseteq Peers
      /\ turn \in [Peers -> {"wait", "handle", "copy"}]
      /\ flag_block_ready \in [Peers -> BOOLEAN] /\ buffer_lengths \in [Peers -> BOOLEAN]
      /\ toListener \in [Peers -> Seq(ListenerStatus)]
      /\ block_created_mtx \in [Peers -> BOOLEAN] /\ block_written_size \in [Peers -> BOOLEAN]
  BY Zenon DEF PeerInv, TypeOK, P2PServerTypeOK, LinkTypeOK
<1>3. events[p] # <<>> => Tail(events[p]) \in Seq(Events) /\ conn(p) \in Peers
  <2>. SUFFICES ASSUME events[p] # <<>>
                PROVE  Tail(events[p]) \in Seq(Events) /\ conn(p) \in Peers
    OBVIOUS
  <2>1. Tail(events[p]) \in Seq(Events) /\ Head(events[p]) \in Events
    BY <1>2, TailElements, Zenon
  <2>. QED  BY <2>1 DEF conn, Events
<1>4. events' \in [Peers -> Seq(Events)]
  <2>1. \A x \in Events : events[p] # <<>> => Append(Tail(events[p]), x) \in Seq(Events)
    BY <1>3, AppendElements, Zenon
  <2>2. \A e \in Seq(Events) : [events EXCEPT ![p] = e] \in [Peers -> Seq(Events)]
    BY <1>2
  <2>3. \/ events' = events
        \/ \E e \in Seq(Events) : events' = [events EXCEPT ![p] = e]
    BY <1>1, <1>3, <2>1, Zenon DEF Shape
  <2>. QED  BY <1>2, <2>2, <2>3, Zenon
<1>5. armed' \subseteq Peers
  BY <1>1, <1>2, <1>3 DEF Shape
<1>6. turn' \in [Peers -> {"wait", "handle", "copy"}]
  BY <1>1, <1>2 DEF Shape
<1>7. toListener' \in [Peers -> Seq(ListenerStatus)]
  <2>1. \A l \in Peers, st \in ListenerStatus : Append(toListener[l], st) \in Seq(ListenerStatus)
    BY <1>2
  <2>2. \A l \in Peers, s \in Seq(ListenerStatus) :
          [toListener EXCEPT ![l] = s] \in [Peers -> Seq(ListenerStatus)]
    BY <1>2
  <2>3. CASE toListener' = toListener
    BY <1>2, <2>3
  <2>4. CASE \E l \in Peers, st \in ListenerStatus :
               toListener' = [toListener EXCEPT ![l] = Append(@, st)]
    <3>1. PICK l \in Peers, st \in ListenerStatus :
                 toListener' = [toListener EXCEPT ![l] = Append(@, st)]
      BY <2>4, Zenon
    <3>2. toListener' = [toListener EXCEPT ![l] = Append(toListener[l], st)]
      BY <3>1
    <3>. QED  BY <2>1, <2>2, <3>2, Zenon
  <2>. QED  BY <1>1, <1>3, <2>3, <2>4, Zenon DEF Shape
<1>8. flag_block_ready' \in [Peers -> BOOLEAN] /\ buffer_lengths' \in [Peers -> BOOLEAN]
  BY <1>2 DEF EventLoopP2P, TryMutex, OnAccept, OnReadResponse, OnPong, OnAskNotReady,
              ReadBlockSize, P2Pser_send_block, OnBlockSended, OnNoResponse, HandlesStatus,
              Handles
<1>9. LinkTypeOK'
  BY <1>1, <1>7, Zenon DEF LinkTypeOK, processVars, PeerInv, TypeOK
<1>. QED  BY <1>4, <1>5, <1>6, <1>8, <1>9, Zenon DEF P2PServerTypeOK

\* A listener changes its own state, consumes what was sent to it and sends at
\* most one status; or it ends its process.
LEMMA ListenerShape ==
  ASSUME PeerInv, NEW l \in Peers, ListenerThread(l)
  PROVE  /\ UNCHANGED <<killed, processVars>>
         /\ listener[l] = "waiting"
         /\ listener' \in {listener, [listener EXCEPT ![l] = "idle"]}
         /\ toListener' \in {toListener, [toListener EXCEPT ![l] = <<>>]}
         /\ LinkTypeOK' /\ ListenerTypeOK'
         /\ \/ accepted' = accepted
            \/ /\ accepted' = [accepted EXCEPT ![l] = TRUE]
               /\ listener' = [listener EXCEPT ![l] = "idle"]
               /\ toListener[l] # <<>> /\ Last(toListener[l]) = "BLOCK"
<1>. USE DEF PeerInv, TypeOK, LinkTypeOK, ListenerTypeOK
<1>1. Neighbour \in [Peers -> Peers]
  BY PeerAssumption
<1>2. ASSUME NEW st \in ServerStatus, cl_p2p_send_STATUS(l, st)
      PROVE  toServer' \in [Peers -> Seq(ServerStatus)]
  <2>1. Append(toServer[l], st) \in Seq(ServerStatus)
    BY <1>2
  <2>. QED  BY <1>2, <2>1 DEF cl_p2p_send_STATUS
<1>3. ASSUME NEW st, Receives(l, st)
      PROVE  /\ UNCHANGED <<alive, killed, processVars>> /\ listener[l] = "waiting"
             /\ toListener' = [toListener EXCEPT ![l] = <<>>]
             /\ toListener' \in [Peers -> Seq(ListenerStatus)]
             /\ toListener[l] # <<>> /\ Last(toListener[l]) = st
  BY <1>3 DEF Receives
<1>4. CASE OnPing(l)
  BY <1>2, <1>3, <1>4 DEF OnPing, listenerVars, ServerStatus, processVars
<1>5. CASE OnOkOrNotReady(l)
  BY <1>2, <1>3, <1>5 DEF OnOkOrNotReady, listenerVars, ServerStatus, processVars
<1>6. CASE OnBlock(l)
  BY <1>3, <1>6 DEF OnBlock, processVars
<1>7. CASE OnFinish(l)
  BY <1>3, <1>7 DEF OnFinish, processVars
<1>8. CASE OnNeighbourGone(l)
  BY <1>8 DEF OnNeighbourGone, Ends, listenerVars, processVars
<1>. QED  BY <1>4, <1>5, <1>6, <1>7, <1>8, Zenon DEF ListenerThread

-----------------------------------------------------------------------------
\* ConnectionInv and BufferServesOne, said of the connections that have
\* completions rather than of the completions.
Connections(ev, arm, lis) ==
  /\ \A q \in Peers, l \in Peers : Has(ev[q], l) => Neighbour[l] = q /\ lis[l] # "connecting"
  /\ \A l \in arm : lis[l] # "connecting"
  /\ \A l \in Peers :
       Unique(ev[Neighbour[l]], l) /\ (Has(ev[Neighbour[l]], l) => l \notin arm)

Completions(ev, arm, lis) ==
  /\ \A p \in Peers : \A i \in DOMAIN ev[p] :
       Neighbour[ev[p][i].conn] = p /\ lis[ev[p][i].conn] # "connecting"
  /\ \A l \in arm : lis[l] # "connecting"
  /\ \A l \in Peers : \A i \in DOMAIN ev[Neighbour[l]] :
       ev[Neighbour[l]][i].conn = l =>
         /\ l \notin arm
         /\ \A j \in DOMAIN ev[Neighbour[l]] : ev[Neighbour[l]][j].conn = l => i = j

LEMMA ConnectionsForm ==
  ASSUME NEW ev \in [Peers -> Seq(Events)], NEW arm, NEW lis
  PROVE  Connections(ev, arm, lis) <=> Completions(ev, arm, lis)
<1>1. ASSUME NEW p \in Peers, NEW i \in DOMAIN ev[p]
      PROVE  ev[p][i].conn \in Peers
  <2>1. ev[p] \in Seq(Events)
    OBVIOUS
  <2>2. ev[p][i] \in Events
    BY <2>1
  <2>. QED  BY <2>2 DEF Events
<1>2. (\A q \in Peers, l \in Peers : Has(ev[q], l) => Neighbour[l] = q /\ lis[l] # "connecting")
      <=> \A p \in Peers : \A i \in DOMAIN ev[p] :
            Neighbour[ev[p][i].conn] = p /\ lis[ev[p][i].conn] # "connecting"
  <2>1. ASSUME \A q \in Peers, l \in Peers : Has(ev[q], l) =>
                 Neighbour[l] = q /\ lis[l] # "connecting",
               NEW p \in Peers, NEW i \in DOMAIN ev[p]
        PROVE  Neighbour[ev[p][i].conn] = p /\ lis[ev[p][i].conn] # "connecting"
    <3>1. Has(ev[p], ev[p][i].conn)
      BY Zenon DEF Has
    <3>. QED  BY <1>1, <2>1, <3>1, Zenon
  <2>2. ASSUME \A p \in Peers : \A i \in DOMAIN ev[p] :
                 Neighbour[ev[p][i].conn] = p /\ lis[ev[p][i].conn] # "connecting",
               NEW q \in Peers, NEW l \in Peers, Has(ev[q], l)
        PROVE  Neighbour[l] = q /\ lis[l] # "connecting"
    <3>1. PICK i \in DOMAIN ev[q] : ev[q][i].conn = l
      BY <2>2, Zenon DEF Has
    <3>. QED  BY <2>2, <3>1
  <2>. QED  BY <2>1, <2>2, Zenon
<1>3. ASSUME NEW l \in Peers
      PROVE  (Unique(ev[Neighbour[l]], l) /\ (Has(ev[Neighbour[l]], l) => l \notin arm)) <=>
             \A i \in DOMAIN ev[Neighbour[l]] :
                ev[Neighbour[l]][i].conn = l =>
                  /\ l \notin arm
                  /\ \A j \in DOMAIN ev[Neighbour[l]] : ev[Neighbour[l]][j].conn = l => i = j
  BY Zenon DEF Unique, Has
<1>. QED  BY <1>2, <1>3, Zenon DEF Connections, Completions

\* A turn of the loop leaves a connection with one operation at most.
LEMMA TurnConnections ==
  ASSUME PeerInv, NEW p \in Peers, EventLoopP2P(p)
  PROVE  /\ Connections(events', armed', listener)
         /\ \A q \in Peers : turn'[q] # "wait" => events'[q] # <<>>
<1>1. Shape(p)
  BY TurnShape
<1>2. /\ events \in [Peers -> Seq(Events)] /\ events[p] \in Seq(Events)
      /\ turn \in [Peers -> {"wait", "handle", "copy"}]
      /\ Neighbour \in [Peers -> Peers]
  BY PeerAssumption, Zenon DEF PeerInv, TypeOK, P2PServerTypeOK
<1>3. Connections(events, armed, listener)
  BY <1>2, ConnectionsForm, Zenon DEF Completions, PeerInv, ConnectionInv, BufferServesOne
<1>4. \A q \in Peers : turn[q] # "wait" => events[q] # <<>>
  BY Zenon DEF PeerInv, ConnectionInv
<1>5. CASE events' = events /\ armed' = armed
  <2>1. \A q \in Peers : q # p => turn'[q] = turn[q]
    BY <1>1, <1>2 DEF Shape
  <2>2. events[p] # <<>>
    BY <1>1, Zenon DEF Shape
  <2>. QED  BY <1>3, <1>4, <1>5, <2>1, <2>2, Zenon
<1>6. ASSUME events[p] # <<>>, NEW e \in Seq(Events),
             events' = [events EXCEPT ![p] = e], turn' = [turn EXCEPT ![p] = "wait"],
             armed' \in {armed, armed \cup {conn(p)}},
             \A l \in Peers : Has(e, l) => Has(events[p], l),
             \A l \in Peers : Unique(events[p], l) => Unique(e, l),
             conn(p) \in armed' => conn(p) \in armed \/ ~Has(e, conn(p))
      PROVE  /\ Connections(events', armed', listener)
             /\ \A q \in Peers : turn'[q] # "wait" => events'[q] # <<>>
  <2>1. Has(events[p], conn(p)) /\ conn(p) \in Peers
    <3>1. Head(events[p]) \in Events
      BY <1>2, <1>6, TailElements, Zenon
    <3>. QED  BY <1>2, <1>6, <3>1, TailHas DEF conn, Events
  <2>2. events'[p] = e /\ \A q \in Peers : q # p => events'[q] = events[q]
    BY <1>2, <1>6
  <2>3. ASSUME NEW q \in Peers, NEW l \in Peers, Has(events'[q], l)
        PROVE  Has(events[q], l)
    BY <1>6, <2>2, <2>3, Zenon
  <2>4. Neighbour[conn(p)] = p /\ listener[conn(p)] # "connecting"
    BY <1>3, <2>1, Zenon DEF Connections
  <2>5. \A l \in armed' : listener[l] # "connecting"
    BY <1>3, <1>6, <2>4 DEF Connections
  <2>6. ASSUME NEW l \in Peers
        PROVE  Unique(events'[Neighbour[l]], l)
    BY <1>2, <1>3, <1>6, <2>2 DEF Connections
  <2>7. ASSUME NEW l \in Peers, Has(events'[Neighbour[l]], l)
        PROVE  l \notin armed'
    <3>1. Has(events[Neighbour[l]], l) /\ l \notin armed
      BY <1>2, <1>3, <2>3, <2>7 DEF Connections
    <3>2. l = conn(p) => Has(e, conn(p))
      BY <2>2, <2>4, <2>7
    <3>. QED  BY <1>6, <3>1, <3>2
  <2>8. \A q \in Peers : turn'[q] # "wait" => events'[q] # <<>>
    BY <1>2, <1>4, <1>6, <2>2
  <2>9. \A q \in Peers, l \in Peers : Has(events'[q], l) =>
          Neighbour[l] = q /\ listener[l] # "connecting"
    BY <1>3, <2>3, Zenon DEF Connections
  <2>. QED  BY <2>5, <2>6, <2>7, <2>8, <2>9, Zenon DEF Connections
<1>7. CASE /\ events[p] # <<>>
           /\ events' = [events EXCEPT ![p] = Tail(@)]
           /\ armed' \in {armed, armed \cup {conn(p)}}
           /\ turn' = [turn EXCEPT ![p] = "wait"]
  <2>1. Tail(events[p]) \in Seq(Events)
    BY <1>2, <1>7, TailElements, Zenon
  <2>2. \A l \in Peers : /\ Has(Tail(events[p]), l) => Has(events[p], l)
                         /\ Unique(events[p], l) => Unique(Tail(events[p]), l)
    BY <1>2, <1>7, TailHas
  <2>3. ~Has(Tail(events[p]), conn(p))
    <3>1. Head(events[p]) \in Events
      BY <1>2, <1>7, TailElements, Zenon
    <3>2. conn(p) \in Peers /\ Head(events[p]).conn = conn(p)
      BY <3>1 DEF conn, Events
    <3>3. Has(events[p], conn(p))
      BY <1>2, <1>7, <3>2, TailHas
    <3>4. Unique(events[p], conn(p))
      BY <1>3, <3>2, <3>3, Zenon DEF Connections
    <3>. QED  BY <1>2, <1>7, <3>2, <3>4, TailHas
  <2>. QED  BY <1>6, <1>7, <2>1, <2>2, <2>3
<1>8. CASE /\ events[p] # <<>>
           /\ \E x \in Events :
                /\ x.conn = conn(p)
                /\ events' = [events EXCEPT ![p] = Append(Tail(@), x)]
           /\ armed' = armed
           /\ turn' = [turn EXCEPT ![p] = "wait"]
  <2>1. PICK x \in Events : /\ x.conn = conn(p)
                            /\ events' = [events EXCEPT ![p] = Append(Tail(@), x)]
    BY <1>8, Zenon
  <2>2. Tail(events[p]) \in Seq(Events)
    BY <1>2, <1>8, TailElements, Zenon
  <2>3. Append(Tail(events[p]), x) \in Seq(Events)
    BY <2>2, AppendElements, Zenon
  <2>4. Head(events[p]).conn = conn(p)
    BY DEF conn
  <2>5. ASSUME NEW l \in Peers
        PROVE  /\ Has(Append(Tail(events[p]), x), l) => Has(events[p], l)
               /\ Unique(events[p], l) => Unique(Append(Tail(events[p]), x), l)
    <3>1. /\ Has(Tail(events[p]), l) => Has(events[p], l)
          /\ Head(events[p]).conn = l => Has(events[p], l)
          /\ Unique(events[p], l) => Unique(Tail(events[p]), l)
          /\ Unique(events[p], l) /\ Head(events[p]).conn = l => ~Has(Tail(events[p]), l)
      BY <1>2, <1>8, TailHas, Zenon
    <3>2. /\ Has(Append(Tail(events[p]), x), l) => Has(Tail(events[p]), l) \/ x.conn = l
          /\ Unique(Tail(events[p]), l) /\ (x.conn = l => ~Has(Tail(events[p]), l))
               => Unique(Append(Tail(events[p]), x), l)
      BY <2>2, AppendHas, Zenon
    <3>. QED  BY <2>1, <2>4, <3>1, <3>2, Zenon
  <2>. QED  BY <1>6, <1>8, <2>1, <2>3, <2>5
<1>. QED  BY <1>1, <1>5, <1>7, <1>8, Zenon DEF Shape

\* A recv that completes, and a listener's connection that is accepted, give
\* the connection its one operation.
LEMMA KernelConnections ==
  ASSUME PeerInv, NEW l \in Peers,
         (RecvDone(l) /\ UNCHANGED listenerVars) \/ (ConnectToPeer(l) /\ Accepted(l))
  PROVE  /\ Connections(events', armed', listener')
         /\ \A q \in Peers : turn'[q] # "wait" => events'[q] # <<>>
         /\ P2PServerTypeOK' /\ LinkTypeOK' /\ ListenerTypeOK'
<1>1. /\ events \in [Peers -> Seq(Events)] /\ armed \subseteq Peers
      /\ toServer \in [Peers -> Seq(ServerStatus)]
      /\ listener \in [Peers -> {"connecting", "waiting", "idle"}]
      /\ Neighbour \in [Peers -> Peers] /\ Neighbour[l] \in Peers
  BY PeerAssumption, Zenon DEF PeerInv, TypeOK, P2PServerTypeOK, LinkTypeOK, ListenerTypeOK
<1>2. Connections(events, armed, listener)
  BY <1>1, ConnectionsForm, Zenon DEF Completions, PeerInv, ConnectionInv, BufferServesOne
<1>3. \A q \in Peers : turn[q] # "wait" => events[q] # <<>>
  BY Zenon DEF PeerInv, ConnectionInv
<1>4. PICK x \in Events : /\ x.conn = l
                          /\ events' = [events EXCEPT ![Neighbour[l]] = Append(@, x)]
  <2>1. CASE RecvDone(l)
    <3>1. PICK st \in ServerStatus \cup {"none"} :
            events' = [events EXCEPT ![Neighbour[l]] =
                         Append(@, Event("FLAG_TEST_RESPONSE", l, st))]
      <4>1. toServer[l] # <<>> => Last(toServer[l]) \in ServerStatus
        BY <1>1 DEF Last
      <4>. QED  BY <2>1, <4>1 DEF RecvDone
    <3>2. /\ Event("FLAG_TEST_RESPONSE", l, st) \in Events
          /\ Event("FLAG_TEST_RESPONSE", l, st).conn = l
      BY DEF Event, Events
    <3>. QED  BY <3>1, <3>2, Zenon
  <2>2. CASE Accepted(l)
    <3>1. events' = [events EXCEPT ![Neighbour[l]] =
                       Append(@, Event("FLAG_ACCEPT", l, "none"))]
      BY <2>2 DEF Accepted
    <3>2. /\ Event("FLAG_ACCEPT", l, "none") \in Events
          /\ Event("FLAG_ACCEPT", l, "none").conn = l
      BY DEF Event, Events
    <3>. QED  BY <3>1, <3>2, Zenon
  <2>. QED  BY <2>1, <2>2
<1>5. /\ turn' = turn /\ armed' \subseteq armed /\ l \notin armed'
      /\ listener'[l] # "connecting"
      /\ \A m \in Peers : m # l => listener'[m] = listener[m]
      /\ ~Has(events[Neighbour[l]], l)
  <2>1. CASE RecvDone(l) /\ UNCHANGED listenerVars
    <3>1. l \in armed /\ armed' = armed \ {l} /\ turn' = turn /\ listener' = listener
      BY <2>1, Zenon DEF RecvDone, listenerVars
    <3>. QED  BY <1>2, <3>1 DEF Connections
  <2>2. CASE ConnectToPeer(l) /\ Accepted(l)
    <3>1. /\ listener[l] = "connecting" /\ listener' = [listener EXCEPT ![l] = "waiting"]
          /\ armed' = armed /\ turn' = turn
      BY <2>2, Zenon DEF ConnectToPeer, Accepted
    <3>. QED  BY <1>1, <1>2, <3>1 DEF Connections
  <2>. QED  BY <2>1, <2>2
<1>6. /\ events' \in [Peers -> Seq(Events)] /\ events'[Neighbour[l]] # <<>>
      /\ events'[Neighbour[l]] = Append(events[Neighbour[l]], x)
      /\ \A q \in Peers : q # Neighbour[l] => events'[q] = events[q]
  <2>1. Append(events[Neighbour[l]], x) \in Seq(Events) /\ Append(events[Neighbour[l]], x) # <<>>
    BY <1>1, AppendElements
  <2>. QED  BY <1>1, <1>4, <2>1
<1>7. ASSUME NEW m \in Peers
      PROVE  /\ Has(Append(events[Neighbour[l]], x), m) => Has(events[Neighbour[l]], m) \/ m = l
             /\ Unique(events[Neighbour[l]], m) => Unique(Append(events[Neighbour[l]], x), m)
  BY <1>1, <1>4, <1>5, AppendHas
<1>8. ASSUME NEW q \in Peers, NEW m \in Peers, Has(events'[q], m)
      PROVE  Has(events[q], m) \/ (m = l /\ q = Neighbour[l])
  BY <1>6, <1>7, <1>8, Zenon
<1>9. \A q \in Peers, m \in Peers : Has(events'[q], m) =>
        Neighbour[m] = q /\ listener'[m] # "connecting"
  <2>. SUFFICES ASSUME NEW q \in Peers, NEW m \in Peers, Has(events'[q], m)
                PROVE  Neighbour[m] = q /\ listener'[m] # "connecting"
    BY Zenon
  <2>1. CASE Has(events[q], m)
    <3>1. Neighbour[m] = q /\ listener[m] # "connecting"
      BY <1>2, <2>1, Zenon DEF Connections
    <3>. QED  BY <1>5, <3>1, Zenon
  <2>2. CASE m = l /\ q = Neighbour[l]
    BY <1>5, <2>2, Zenon
  <2>. QED  BY <1>8, <2>1, <2>2, Zenon
<1>10. \A m \in armed' : listener'[m] # "connecting"
  BY <1>1, <1>2, <1>5 DEF Connections
<1>11. \A m \in Peers : Unique(events'[Neighbour[m]], m)
  BY <1>1, <1>2, <1>6, <1>7 DEF Connections
<1>12. \A m \in Peers : Has(events'[Neighbour[m]], m) => m \notin armed'
  <2>. SUFFICES ASSUME NEW m \in Peers, Has(events'[Neighbour[m]], m), m \in armed'
                PROVE  FALSE
    BY Zenon
  <2>1. Neighbour[m] \in Peers /\ m # l /\ m \in armed
    BY <1>1, <1>5
  <2>2. Has(events[Neighbour[m]], m)
    BY <1>8, <2>1, Zenon
  <2>. QED  BY <1>2, <2>1, <2>2, Zenon DEF Connections
<1>13. Connections(events', armed', listener')
  BY <1>9, <1>10, <1>11, <1>12, Zenon DEF Connections
<1>14. \A q \in Peers : turn'[q] # "wait" => events'[q] # <<>>
  BY <1>3, <1>5, <1>6, Zenon
<1>15. P2PServerTypeOK'
  <2>1. flag_block_ready' = flag_block_ready /\ buffer_lengths' = buffer_lengths
    BY Zenon DEF RecvDone, Accepted
  <2>. QED  BY <1>1, <1>5, <1>6, <2>1 DEF PeerInv, TypeOK, P2PServerTypeOK
<1>16. LinkTypeOK' /\ ListenerTypeOK'
  <2>. USE DEF PeerInv, TypeOK, LinkTypeOK, ListenerTypeOK
  <2>1. CASE RecvDone(l) /\ UNCHANGED listenerVars
    <3>1. toServer' \in [Peers -> Seq(ServerStatus)]
      BY <1>1, <2>1 DEF RecvDone
    <3>. QED  BY <2>1, <3>1, Zenon DEF RecvDone, listenerVars, processVars
  <2>2. CASE ConnectToPeer(l)
    <3>1. listener' \in [Peers -> {"connecting", "waiting", "idle"}]
      BY <1>1, <2>2 DEF ConnectToPeer
    <3>. QED  BY <2>2, <3>1, Zenon DEF ConnectToPeer, linkVars, processVars
  <2>. QED  BY <2>1, <2>2
<1>. QED  BY <1>13, <1>14, <1>15, <1>16

-----------------------------------------------------------------------------
\* PeerInv is inductive.

\* PeerInv holds at the start: nothing is on its way and no thread has begun.
LEMMA InitPeerInv == Init => PeerInv
<1>. SUFFICES ASSUME Init PROVE PeerInv
  OBVIOUS
<1>. USE DEF Init, LinkInit, P2PServerInit, ListenerInit
<1>1. TypeOK
  BY DEF TypeOK, LinkTypeOK, P2PServerTypeOK, ListenerTypeOK, ListenerStatus
<1>2. BlockInv
  BY DEF BlockInv
<1>3. Neighbour \in [Peers -> Peers]
  BY PeerAssumption
<1>4. ConnectionInv /\ BufferServesOne
  BY <1>3 DEF ConnectionInv, BufferServesOne
<1>5. DeliveryInv /\ SentIsWhole
  BY DEF DeliveryInv, SentIsWhole
<1>6. TurnsInv
  BY <1>3 DEF TurnsInv, LinkInv, Of
<1>. QED  BY <1>1, <1>2, <1>4, <1>5, <1>6 DEF PeerInv

\* Every step keeps the types.
LEMMA TypeStep ==
  ASSUME PeerInv, [Next]_vars
  PROVE  TypeOK'
<1>. DEFINE ThreadOK == thread \in [Peers -> {"connecting", "receiving", "packing",
                             "packed", "sized", "created", "filled"}]
<1>1. LinkTypeOK /\ P2PServerTypeOK /\ ListenerTypeOK /\ ThreadOK
  BY DEF PeerInv, TypeOK
<1>2. /\ UNCHANGED p2pServerVars => P2PServerTypeOK'
      /\ UNCHANGED listenerVars => ListenerTypeOK'
      /\ UNCHANGED thread => ThreadOK'
  <2>1. UNCHANGED p2pServerVars => P2PServerTypeOK'
    BY <1>1, Zenon DEF P2PServerTypeOK, p2pServerVars
  <2>2. UNCHANGED listenerVars => ListenerTypeOK'
    BY <1>1, Zenon DEF ListenerTypeOK, listenerVars
  <2>. QED  BY <1>1, <2>1, <2>2
<1>3. CASE UNCHANGED vars
  <2>1. LinkTypeOK'
    BY <1>1, <1>3, Zenon DEF vars, linkVars, processVars, LinkTypeOK
  <2>. QED  BY <1>2, <1>3, <2>1, Zenon DEF vars, TypeOK
<1>4. ASSUME NEW p \in Peers, MessageThreadStep(p)
      PROVE  TypeOK'
  <2>1. LinkTypeOK' /\ ThreadOK' /\ UNCHANGED <<p2pServerVars, listenerVars>>
    BY <1>4, ThreadShape, Zenon
  <2>. QED  BY <1>2, <2>1, Zenon DEF TypeOK
<1>5. ASSUME NEW p \in Peers, Kill(p)
      PROVE  TypeOK'
  <2>1. LinkTypeOK'
    BY <1>1, <1>5 DEF Kill, Ends, LinkTypeOK, processVars
  <2>. QED  BY <1>2, <1>5, <2>1, Zenon DEF TypeOK, Kill
<1>6. ASSUME NEW p \in Peers, ServerStep(p)
      PROVE  TypeOK'
  <2>1. LinkTypeOK' /\ P2PServerTypeOK'
    BY <1>6, TurnType DEF ServerStep
  <2>. QED  BY <1>2, <1>6, <2>1, Zenon DEF TypeOK, ServerStep
<1>7. ASSUME NEW l \in Peers, KernelStep(l) \/ ConnectStep(l)
      PROVE  TypeOK'
  <2>1. /\ (RecvDone(l) /\ UNCHANGED listenerVars) \/ (ConnectToPeer(l) /\ Accepted(l))
        /\ UNCHANGED thread
    BY <1>7, Zenon DEF KernelStep, ConnectStep
  <2>2. LinkTypeOK' /\ P2PServerTypeOK' /\ ListenerTypeOK'
    BY <2>1, KernelConnections, Zenon
  <2>. QED  BY <1>2, <2>1, <2>2, Zenon DEF TypeOK
<1>8. ASSUME NEW l \in Peers, ListenerStep(l)
      PROVE  TypeOK'
  <2>1. LinkTypeOK' /\ ListenerTypeOK'
    BY <1>8, ListenerShape DEF ListenerStep
  <2>. QED  BY <1>2, <1>8, <2>1, Zenon DEF TypeOK, ListenerStep
<1>. QED  BY <1>3, <1>4, <1>5, <1>6, <1>7, <1>8 DEF Next

\* Every step leaves a connection with one operation at most.
LEMMA ConnectionStep ==
  ASSUME PeerInv, [Next]_vars
  PROVE  ConnectionInv' /\ BufferServesOne'
<1>1. TypeOK' /\ TypeOK
  BY TypeStep, Zenon DEF PeerInv
<1>2. events \in [Peers -> Seq(Events)] /\ events' \in [Peers -> Seq(Events)]
      /\ armed \subseteq Peers /\ listener \in [Peers -> {"connecting", "waiting", "idle"}]
  BY <1>1, Zenon DEF TypeOK, P2PServerTypeOK, ListenerTypeOK
<1>3. Connections(events, armed, listener)
  BY <1>2, ConnectionsForm, Zenon DEF Completions, PeerInv, ConnectionInv, BufferServesOne
<1>4. \A q \in Peers : turn[q] # "wait" => events[q] # <<>>
  BY Zenon DEF PeerInv, ConnectionInv
<1>. DEFINE Goal == /\ Connections(events', armed', listener')
                    /\ \A q \in Peers : turn'[q] # "wait" => events'[q] # <<>>
<1>5. Goal => ConnectionInv' /\ BufferServesOne'
  <2>. SUFFICES ASSUME Goal PROVE ConnectionInv' /\ BufferServesOne'
    OBVIOUS
  <2>1. Completions(events', armed', listener')
    BY <1>2, ConnectionsForm, Zenon
  <2>. QED  BY <2>1, Zenon DEF Completions, ConnectionInv, BufferServesOne
<1>6. UNCHANGED <<p2pServerVars, listenerVars>> => Goal
  BY <1>3, <1>4, Zenon DEF p2pServerVars, listenerVars
<1>7. ASSUME NEW p \in Peers, ServerStep(p)
      PROVE  Goal
  <2>1. EventLoopP2P(p) /\ listener' = listener
    BY <1>7 DEF ServerStep, listenerVars
  <2>. QED  BY <2>1, TurnConnections, Zenon
<1>8. ASSUME NEW l \in Peers, ListenerStep(l)
      PROVE  Goal
  <2>1. listener' \in {listener, [listener EXCEPT ![l] = "idle"]}
    BY <1>8, ListenerShape DEF ListenerStep
  <2>2. \A m \in Peers : listener[m] # "connecting" => listener'[m] # "connecting"
    BY <1>2, <2>1
  <2>3. events' = events /\ armed' = armed /\ turn' = turn
    BY <1>8, Zenon DEF ListenerStep, p2pServerVars
  <2>4. Connections(events, armed, listener')
    BY <1>2, <1>3, <2>2 DEF Connections
  <2>. QED  BY <1>4, <2>3, <2>4, Zenon
<1>9. ASSUME NEW l \in Peers, KernelStep(l) \/ ConnectStep(l)
      PROVE  Goal
  <2>1. (RecvDone(l) /\ UNCHANGED listenerVars) \/ (ConnectToPeer(l) /\ Accepted(l))
    BY <1>9, Zenon DEF KernelStep, ConnectStep
  <2>. QED  BY <2>1, KernelConnections, Zenon
<1>10. ASSUME NEW p \in Peers, MessageThreadStep(p)
       PROVE  Goal
  BY <1>6, <1>10, ThreadShape, Zenon
<1>11. ASSUME NEW p \in Peers, Kill(p)
       PROVE  Goal
  BY <1>6, <1>11, Zenon DEF Kill
<1>12. UNCHANGED vars => Goal
  BY <1>6, Zenon DEF vars
<1>. HIDE DEF Goal
<1>13. Goal
  BY <1>7, <1>8, <1>9, <1>10, <1>11, <1>12 DEF Next
<1>. QED  BY <1>5, <1>13

\* A send copies the block only when it has read the size of a whole one.
LEMMA BlockStep ==
  ASSUME PeerInv, [Next]_vars
  PROVE  BlockInv'
<1>1. BlockInv /\ turn \in [Peers -> {"wait", "handle", "copy"}]
      /\ buffer_lengths \in [Peers -> BOOLEAN]
  BY Zenon DEF PeerInv, TypeOK, P2PServerTypeOK
<1>2. UNCHANGED <<processVars, thread, turn, buffer_lengths>> => BlockInv'
  BY <1>1 DEF BlockInv, processVars
<1>3. ASSUME NEW p \in Peers, ServerStep(p)
      PROVE  BlockInv'
  <2>1. UNCHANGED <<processVars, thread>>
    BY <1>3, TurnShape, Zenon DEF ServerStep
  <2>2. CASE ReadBlockSize(p)
    <3>1. buffer_lengths' = [buffer_lengths EXCEPT ![p] = block_written_size[p]]
          /\ turn' = [turn EXCEPT ![p] = "copy"]
      BY <2>2, Zenon DEF ReadBlockSize
    <3>. QED  BY <1>1, <2>1, <3>1 DEF BlockInv, processVars
  <2>3. CASE \E t \in {"wait", "handle"} : turn' = [turn EXCEPT ![p] = t]
             /\ buffer_lengths' = buffer_lengths
    BY <1>1, <2>1, <2>3 DEF BlockInv, processVars
  <2>4. ReadBlockSize(p) \/ \E t \in {"wait", "handle"} : turn' = [turn EXCEPT ![p] = t]
                               /\ buffer_lengths' = buffer_lengths
    BY <1>3 DEF ServerStep, EventLoopP2P, TryMutex, OnAccept, OnReadResponse, OnPong,
                HandlesStatus, Handles, OnAskNotReady, P2Pser_send_block, OnBlockSended,
                OnNoResponse
  <2>. QED  BY <2>2, <2>3, <2>4
<1>4. ASSUME NEW l \in Peers, KernelStep(l) \/ ConnectStep(l)
      PROVE  UNCHANGED <<processVars, thread, turn, buffer_lengths>>
  BY <1>4 DEF KernelStep, ConnectStep, RecvDone, ConnectToPeer, Accepted, linkVars
<1>5. ASSUME NEW l \in Peers, ListenerStep(l)
      PROVE  UNCHANGED <<processVars, thread, turn, buffer_lengths>>
  BY <1>5, ListenerShape, Zenon DEF ListenerStep, p2pServerVars
<1>6. ASSUME NEW p \in Peers, Kill(p)
      PROVE  UNCHANGED <<processVars, thread, turn, buffer_lengths>>
  BY <1>6, Zenon DEF Kill, Ends, p2pServerVars
<1>7. UNCHANGED vars => UNCHANGED <<processVars, thread, turn, buffer_lengths>>
  BY Zenon DEF vars, linkVars, p2pServerVars
<1>8. ASSUME NEW p \in Peers, MessageThreadStep(p)
      PROVE  BlockInv'
  BY <1>8, ThreadShape, Zenon
<1>9. BlockInv' \/ UNCHANGED <<processVars, thread, turn, buffer_lengths>>
  BY <1>3, <1>4, <1>5, <1>6, <1>7, <1>8, Zenon DEF Next
<1>. QED  BY <1>2, <1>9, Zenon

\* What is on its way to a listener stays a status, a published block at most.
LEMMA DeliveryStep ==
  ASSUME PeerInv, [Next]_vars
  PROVE  DeliveryInv' /\ SentIsWhole'
<1>1. /\ DeliveryInv /\ SentIsWhole
      /\ toListener \in [Peers -> Seq(ListenerStatus)]
      /\ block_written_size \in [Peers -> BOOLEAN]
      /\ listener \in [Peers -> {"connecting", "waiting", "idle"}]
      /\ accepted \in [Peers -> BOOLEAN]
      /\ events \in [Peers -> Seq(Events)]
      /\ Neighbour \in [Peers -> Peers]
  BY PeerAssumption, Zenon
     DEF PeerInv, TypeOK, LinkTypeOK, ListenerTypeOK, P2PServerTypeOK
<1>. DEFINE Goal == DeliveryInv' /\ SentIsWhole'
            Sizes == \A q \in Peers : block_written_size[q] => block_written_size'[q]
<1>2. ASSUME UNCHANGED <<toListener, listenerVars>>, Sizes
      PROVE  Goal
  <2>1. toListener' = toListener /\ listener' = listener /\ accepted' = accepted
    BY <1>2, Zenon DEF listenerVars
  <2>2. SentIsWhole'
    BY <1>1, <2>1, Zenon DEF SentIsWhole
  <2>3. ASSUME NEW l \in Peers
        PROVE  /\ \A i \in DOMAIN toListener[l] :
                    toListener[l][i] = "BLOCK" => block_written_size'[Neighbour[l]]
               /\ accepted[l] => block_written_size'[Neighbour[l]] /\ listener[l] = "idle"
    <3>1. Neighbour[l] \in Peers
      BY <1>1
    <3>. QED  BY <1>1, <1>2, <3>1, Zenon DEF DeliveryInv
  <2>4. DeliveryInv'
    BY <2>1, <2>3, Zenon DEF DeliveryInv
  <2>. QED  BY <2>2, <2>4
<1>3. ASSUME NEW p \in Peers, ServerStep(p)
      PROVE  Goal
  <2>1. /\ Shape(p) /\ block_written_size' = block_written_size
        /\ listener' = listener /\ accepted' = accepted
    BY <1>3, TurnShape, Zenon DEF ServerStep, processVars, listenerVars
  <2>2. CASE toListener' = toListener
    BY <1>2, <2>1, <2>2 DEF listenerVars
  <2>3. ASSUME events[p] # <<>>, NEW st \in ListenerStatus \ {"GARBLED"},
               st = "BLOCK" => block_written_size[p],
               toListener' = [toListener EXCEPT ![conn(p)] = Append(@, st)]
        PROVE  Goal
    <3>1. Head(events[p]) \in Events /\ 1 \in DOMAIN events[p]
          /\ Head(events[p]) = events[p][1]
      BY <1>1, <2>3
    <3>2. Neighbour[conn(p)] = p
      <4>1. \A i \in DOMAIN events[p] : Neighbour[events[p][i].conn] = p
        BY Zenon DEF PeerInv, ConnectionInv
      <4>. QED  BY <3>1, <4>1 DEF conn
    <3>3. conn(p) \in Peers /\ toListener[conn(p)] \in Seq(ListenerStatus)
      BY <1>1, <3>1 DEF Events, conn
    <3>. DEFINE s == toListener[conn(p)]
    <3>4. /\ Len(s) \in Nat /\ DOMAIN Append(s, st) = 1 .. Len(s) + 1
          /\ DOMAIN s = 1 .. Len(s)
          /\ \A i \in 1 .. Len(s) : Append(s, st)[i] = s[i]
          /\ Append(s, st)[Len(s) + 1] = st
      BY <3>3
    <3>5. toListener'[conn(p)] = Append(s, st)
          /\ \A m \in Peers : m # conn(p) => toListener'[m] = toListener[m]
      BY <1>1, <2>3, <3>3
    <3>6. \A i \in DOMAIN Append(s, st) : \/ i \in DOMAIN s /\ Append(s, st)[i] = s[i]
                                          \/ Append(s, st)[i] = st
      BY <3>4
    <3>. HIDE DEF s
    <3>7. \A m \in Peers : \A i \in DOMAIN toListener'[m] :
            \/ i \in DOMAIN toListener[m] /\ toListener'[m][i] = toListener[m][i]
            \/ m = conn(p) /\ toListener'[m][i] = st
      BY <3>5, <3>6, Zenon DEF s
    <3>8. DeliveryInv'
      <4>1. ASSUME NEW m \in Peers, NEW i \in DOMAIN toListener'[m],
                   toListener'[m][i] = "BLOCK"
            PROVE  block_written_size[Neighbour[m]]
        <5>1. CASE i \in DOMAIN toListener[m] /\ toListener'[m][i] = toListener[m][i]
          BY <1>1, <4>1, <5>1 DEF DeliveryInv
        <5>2. CASE m = conn(p) /\ toListener'[m][i] = st
          BY <2>3, <3>2, <4>1, <5>2
        <5>. QED  BY <3>7, <5>1, <5>2
      <4>. QED  BY <1>1, <2>1, <4>1, Zenon DEF DeliveryInv
    <3>9. SentIsWhole'
      BY <1>1, <3>7 DEF SentIsWhole
    <3>. QED  BY <3>8, <3>9
  <2>. HIDE DEF Goal
  <2>. QED  BY <2>1, <2>2, <2>3, Zenon DEF Shape
<1>4. ASSUME NEW l \in Peers, ListenerStep(l)
      PROVE  Goal
  <2>1. /\ block_written_size' = block_written_size /\ listener[l] = "waiting"
        /\ listener' \in {listener, [listener EXCEPT ![l] = "idle"]}
        /\ toListener' \in {toListener, [toListener EXCEPT ![l] = <<>>]}
        /\ \/ accepted' = accepted
           \/ /\ accepted' = [accepted EXCEPT ![l] = TRUE]
              /\ listener' = [listener EXCEPT ![l] = "idle"]
              /\ toListener[l] # <<>> /\ Last(toListener[l]) = "BLOCK"
    BY <1>4, ListenerShape, Zenon DEF ListenerStep, processVars
  <2>2. \A m \in Peers : \A i \in DOMAIN toListener'[m] :
          i \in DOMAIN toListener[m] /\ toListener'[m][i] = toListener[m][i]
    <3>1. CASE toListener' = toListener
      BY <3>1
    <3>2. CASE toListener' = [toListener EXCEPT ![l] = <<>>]
      <4>1. toListener'[l] = <<>> /\ \A m \in Peers : m # l => toListener'[m] = toListener[m]
        BY <1>1, <3>2
      <4>2. DOMAIN toListener'[l] = {}
        BY <4>1
      <4>. QED  BY <4>1, <4>2
    <3>. QED  BY <2>1, <3>1, <3>2
  <2>3. \A m \in Peers : listener[m] = "idle" => listener'[m] = "idle"
    BY <1>1, <2>1
  <2>4. \A m \in Peers : accepted'[m] => block_written_size[Neighbour[m]] /\ listener'[m] = "idle"
    <3>1. CASE accepted' = accepted
      BY <1>1, <2>3, <3>1, Zenon DEF DeliveryInv
    <3>2. CASE /\ accepted' = [accepted EXCEPT ![l] = TRUE]
               /\ listener' = [listener EXCEPT ![l] = "idle"]
               /\ toListener[l] # <<>> /\ Last(toListener[l]) = "BLOCK"
      <4>1. Len(toListener[l]) \in DOMAIN toListener[l]
        BY <1>1, <3>2
      <4>2. block_written_size[Neighbour[l]]
        BY <1>1, <3>2, <4>1, Zenon DEF DeliveryInv, Last
      <4>. QED  BY <1>1, <2>3, <3>2, <4>2 DEF DeliveryInv
    <3>. QED  BY <2>1, <3>1, <3>2
  <2>5. DeliveryInv'
    <3>1. \A m \in Peers : \A i \in DOMAIN toListener'[m] :
            toListener'[m][i] = "BLOCK" => block_written_size[Neighbour[m]]
      BY <1>1, <2>2, Zenon DEF DeliveryInv
    <3>. QED  BY <2>1, <2>4, <3>1, Zenon DEF DeliveryInv
  <2>6. SentIsWhole'
    BY <1>1, <2>2, Zenon DEF SentIsWhole
  <2>. QED  BY <2>5, <2>6
<1>5. ASSUME NEW l \in Peers, KernelStep(l)
      PROVE  Goal
  BY <1>2, <1>5, Zenon DEF KernelStep, RecvDone, processVars
<1>6. ASSUME NEW l \in Peers, ConnectStep(l)
      PROVE  Goal
  <2>1. /\ UNCHANGED <<toListener, accepted, block_written_size>>
        /\ listener[l] = "connecting" /\ listener' = [listener EXCEPT ![l] = "waiting"]
    BY <1>6, Zenon DEF ConnectStep, ConnectToPeer, linkVars, processVars
  <2>. QED  BY <1>1, <2>1 DEF DeliveryInv, SentIsWhole
<1>7. ASSUME NEW p \in Peers, MessageThreadStep(p)
      PROVE  Goal
  BY <1>2, <1>7, ThreadShape, Zenon
<1>8. ASSUME NEW p \in Peers, Kill(p)
      PROVE  Goal
  BY <1>2, <1>8, Zenon DEF Kill, Ends, processVars
<1>9. UNCHANGED vars => Goal
  BY <1>2, Zenon DEF vars, linkVars, processVars
<1>. HIDE DEF Goal
<1>10. Goal
  BY <1>3, <1>4, <1>5, <1>6, <1>7, <1>8, <1>9, Zenon DEF Next
<1>. QED  BY <1>10 DEF Goal

-----------------------------------------------------------------------------
\* The two ends of a connection take turns.

\* The completions of a connection, when one is marked seen...
LEMMA OfTail ==
  ASSUME NEW e \in Seq(Events), e # <<>>, NEW l
  PROVE  /\ Of(Tail(e), l) \subseteq Of(e, l)
         /\ Head(e).conn = l => Head(e) \in Of(e, l)
         /\ Unique(e, l) /\ Head(e).conn = l => Of(Tail(e), l) = {}
<1>1. /\ Tail(e) \in Seq(Events)
      /\ Len(e) \in Nat \ {0} /\ Len(Tail(e)) = Len(e) - 1
      /\ \A j \in 1 .. Len(e) - 1 : Tail(e)[j] = e[j + 1]
      /\ Head(e) = e[1]
  BY TailElements, Zenon
<1>2. DOMAIN e = 1 .. Len(e) /\ DOMAIN Tail(e) = 1 .. Len(e) - 1 /\ 1 \in 1 .. Len(e)
  BY <1>1
<1>3. \A j \in 1 .. Len(e) - 1 : j + 1 \in 1 .. Len(e)
  BY <1>1
<1>4. Of(Tail(e), l) \subseteq Of(e, l)
  BY Zenon, <1>1, <1>2, <1>3 DEF Of
<1>5. Head(e).conn = l => Head(e) \in Of(e, l)
  BY Zenon, <1>1, <1>2 DEF Of
<1>6. Of(Tail(e), l) # {} => Has(Tail(e), l)
  BY Zenon DEF Of, Has
<1>. QED  BY Zenon, <1>4, <1>5, <1>6, TailHas

\* ... and when one is added.
LEMMA OfAppend ==
  ASSUME NEW e \in Seq(Events), NEW x \in Events, NEW l
  PROVE  /\ Of(Append(e, x), l) \subseteq Of(e, l) \cup {x}
         /\ x.conn # l => Of(Append(e, x), l) \subseteq Of(e, l)
<1>1. /\ Append(e, x) \in Seq(Events)
      /\ Len(e) \in Nat /\ Len(Append(e, x)) = Len(e) + 1
      /\ \A j \in 1 .. Len(e) : Append(e, x)[j] = e[j]
      /\ Append(e, x)[Len(e) + 1] = x
  OBVIOUS
<1>2. DOMAIN e = 1 .. Len(e) /\ DOMAIN Append(e, x) = 1 .. Len(e) + 1
  BY <1>1
<1>3. \A j \in 1 .. Len(e) + 1 : j \in 1 .. Len(e) \/ j = Len(e) + 1
  BY <1>1
<1>4. ASSUME NEW y \in Of(Append(e, x), l)
      PROVE  y.conn = l /\ (y \in Of(e, l) \/ y = x)
  <2>1. PICK j \in 1 .. Len(e) + 1 : y = Append(e, x)[j] /\ Append(e, x)[j].conn = l
    BY Zenon, <1>2 DEF Of
  <2>2. CASE j \in 1 .. Len(e)
    BY Zenon, <1>1, <1>2, <2>1, <2>2 DEF Of
  <2>3. CASE j = Len(e) + 1
    BY Zenon, <1>1, <2>1, <2>3
  <2>. QED  BY Zenon, <1>3, <2>2, <2>3
<1>. QED  BY Zenon, <1>4

\* A step that leaves connection l as it is, and adds no completion of it, keeps
\* its turn.
LEMMA LinkKept ==
  ASSUME NEW l \in Peers, LinkInv(l),
         Of(events'[Neighbour[l]], l) \subseteq Of(events[Neighbour[l]], l),
         listener'[l] = listener[l] \/ listener'[l] = "idle",
         listener'[l] # "idle" => toListener'[l] = toListener[l] /\ toServer'[l] = toServer[l]
  PROVE  LinkInv(l)'
<1>1. /\ listener'[l] = "connecting" =>
           listener[l] = "connecting" /\ toListener'[l] = toListener[l] /\ toServer'[l] = toServer[l]
      /\ listener'[l] = "waiting" =>
           listener[l] = "waiting" /\ toListener'[l] = toListener[l] /\ toServer'[l] = toServer[l]
  OBVIOUS
<1>. QED  BY Zenon, <1>1 DEF LinkInv, LetsSend

\* A completion behind the others.
LEMMA Behind == \A s \in Seq(Events) : \A x \in Events : s \o <<x>> = Append(s, x)
OBVIOUS

\* What is behind nothing, and behind a block.
LEMMA NothingBut ==
  ASSUME NEW st
  PROVE  Append(<<>>, st) = <<st>>
OBVIOUS

LEMMA BehindTheBlock == Append(<<"BLOCK">>, "FINISH") = <<"BLOCK", "FINISH">>
<1>. DEFINE s == Append(<<"BLOCK">>, "FINISH")
            u == <<"BLOCK", "FINISH">>
<1>1. /\ s \in Seq({"BLOCK", "FINISH"}) /\ Len(s) = 2 /\ s[1] = "BLOCK" /\ s[2] = "FINISH"
      /\ u \in Seq({"BLOCK", "FINISH"}) /\ Len(u) = 2 /\ u[1] = "BLOCK" /\ u[2] = "FINISH"
  OBVIOUS
<1>2. \A i \in 1 .. 2 : s[i] = u[i]
  BY <1>1
<1>. HIDE DEF s, u
<1>3. s = u
  BY <1>1, <1>2
<1>. QED  BY <1>3 DEF s, u

\* What a turn of the loop may send on the connection whose completion it handles,
\* with the completion that the send will have.
Sends(p, flag, st) ==
  /\ events' = [events EXCEPT ![p] = Append(Tail(@), Event(flag, conn(p), "none"))]
  /\ toListener' \in {toListener, [toListener EXCEPT ![conn(p)] = Append(@, st)]}

\* The turns of the loop, by what lets them send.
TurnKind(p) ==
  \/ UNCHANGED <<events, toListener>>
  \/ events' = [events EXCEPT ![p] = Tail(@)] /\ UNCHANGED toListener
  \/ /\ LetsSend(Head(events[p]))
     /\ \E flag \in {"FLAG_WAIT_PONG", "FLAG_READ_RESPONSE"} : \E st : Sends(p, flag, st)
  \/ LetsSend(Head(events[p])) /\ Sends(p, "FLAG_BLOCK_SENDED", "BLOCK")
  \/ Head(events[p]).flag = "FLAG_BLOCK_SENDED" /\ Sends(p, "FLAG_WAIT_PONG", "FINISH")

\* Every turn of the loop is of one of these kinds.
LEMMA TurnKinds ==
  ASSUME PeerInv, NEW p \in Peers, EventLoopP2P(p)
  PROVE  TurnKind(p)
<1>1. turn[p] # "wait" => events[p] # <<>>
  BY Zenon DEF PeerInv, ConnectionInv
<1>2. events[p] \in Seq(Events) /\ events \in [Peers -> Seq(Events)]
  BY Zenon DEF PeerInv, TypeOK, P2PServerTypeOK
<1>3. events[p] # <<>> => /\ Tail(events[p]) \o <<>> = Tail(events[p])
                          /\ Tail(events[p]) \in Seq(Events) /\ Head(events[p]) \in Events
  BY <1>2, TailElements, Zenon
<1>4. ASSUME events[p] # <<>>, NEW flag \in {"FLAG_WAIT_PONG", "FLAG_BLOCK_SENDED",
                                             "FLAG_READ_RESPONSE"},
             Seen(p, <<Event(flag, conn(p), "none")>>)
      PROVE  events' = [events EXCEPT ![p] = Append(Tail(@), Event(flag, conn(p), "none"))]
  <2>1. PICK x \in Events : x = Event(flag, conn(p), "none")
    BY <1>3, <1>4 DEF Event, Events, conn
  <2>2. PICK s \in Seq(Events) : s = Tail(events[p])
    BY Zenon, <1>3, <1>4
  <2>3. s \o <<x>> = Append(s, x)
    BY Zenon, Behind
  <2>4. Tail(events[p]) \o <<Event(flag, conn(p), "none")>>
          = Append(Tail(events[p]), Event(flag, conn(p), "none"))
    BY Zenon, <2>1, <2>2, <2>3
  <2>. QED  BY <1>4, <2>4 DEF Seen
<1>5. ASSUME events[p] # <<>>, NEW flag \in {"FLAG_WAIT_PONG", "FLAG_BLOCK_SENDED",
                                             "FLAG_READ_RESPONSE"},
             NEW st, P2Pser_send_STATUS(p, st, flag)
      PROVE  Sends(p, flag, st)
  <2>1. toListener' \in {toListener, [toListener EXCEPT ![conn(p)] = Append(@, st)]}
    BY <1>5, Zenon DEF P2Pser_send_STATUS
  <2>. QED  BY <1>4, <1>5, <2>1, Zenon DEF P2Pser_send_STATUS, Sends
<1>6. ASSUME events[p] # <<>>, Seen(p, <<>>), UNCHANGED linkVars
      PROVE  TurnKind(p)
  <2>1. events' = [events EXCEPT ![p] = Tail(@)]
    BY <1>3, <1>6 DEF Seen
  <2>. QED  BY <1>6, <2>1, Zenon DEF TurnKind, linkVars
<1>7. \A flag : Handles(p, flag) => events[p] # <<>> /\ Head(events[p]).flag = flag
  BY <1>1 DEF Handles
<1>8. CASE TryMutex(p) \/ ReadBlockSize(p)
  BY <1>8, Zenon DEF TryMutex, ReadBlockSize, TurnKind, linkVars
<1>9. CASE OnReadResponse(p)
  BY <1>6, <1>7, <1>9, Zenon DEF OnReadResponse
<1>10. CASE OnNoResponse(p)
  BY <1>6, <1>7, <1>10, Zenon DEF OnNoResponse, HandlesStatus
<1>11. CASE OnAccept(p)
  BY <1>5, <1>7, <1>11, Zenon DEF OnAccept, TurnKind, LetsSend
<1>12. CASE OnPong(p) \/ OnAskNotReady(p)
  <2>1. /\ events[p] # <<>> /\ Head(events[p]).flag = "FLAG_TEST_RESPONSE"
        /\ Head(events[p]).status \in {"PONG", "ASK_IF_BLOCK_READY"}
    BY <1>7, <1>12, Zenon DEF OnPong, OnAskNotReady, HandlesStatus
  <2>2. LetsSend(Head(events[p]))
    BY <2>1 DEF LetsSend
  <2>3. \E st : P2Pser_send_STATUS(p, st, "FLAG_READ_RESPONSE")
    BY <1>12, Zenon DEF OnPong, OnAskNotReady
  <2>. QED  BY <1>5, <2>1, <2>2, <2>3, Zenon DEF TurnKind
<1>13. CASE P2Pser_send_block(p)
  <2>1. turn[p] = "copy"
    BY <1>13, Zenon DEF P2Pser_send_block
  <2>2. events[p] # <<>>
    BY <1>1, <2>1
  <2>3. LetsSend(Head(events[p]))
    BY <2>1 DEF LetsSend, PeerInv, TurnsInv
  <2>4. CASE buffer_lengths[p]
    <3>1. buffer_BLOCK_DATA[p] = "whole"
      BY <2>1, <2>4, Zenon DEF PeerInv, BlockInv
    <3>2. P2Pser_send_STATUS(p, "BLOCK", "FLAG_BLOCK_SENDED")
      BY <1>13, <2>4, <3>1 DEF P2Pser_send_block
    <3>. QED  BY <1>5, <2>2, <2>3, <3>2, Zenon DEF TurnKind
  <2>5. CASE ~buffer_lengths[p]
    <3>1. /\ Seen(p, <<Event("FLAG_BLOCK_SENDED", conn(p), "none")>>)
          /\ UNCHANGED <<linkVars, armed>>
      BY <1>13, <2>5, Zenon DEF P2Pser_send_block
    <3>. QED  BY <1>4, <2>2, <2>3, <3>1, Zenon DEF TurnKind, Sends, linkVars
  <2>. QED  BY <2>4, <2>5
<1>14. CASE OnBlockSended(p)
  BY <1>5, <1>7, <1>14, Zenon DEF OnBlockSended, TurnKind
<1>. QED  BY <1>8, <1>9, <1>10, <1>11, <1>12, <1>13, <1>14, Zenon DEF EventLoopP2P

\* A turn of the loop keeps every connection's turn.
LEMMA TurnLinks ==
  ASSUME PeerInv, NEW p \in Peers, EventLoopP2P(p), UNCHANGED listenerVars,
         NEW l \in Peers
  PROVE  LinkInv(l)'
<1>1. TurnKind(p) /\ Shape(p) /\ toServer' = toServer /\ listener' = listener
  BY TurnKinds, TurnShape, Zenon DEF listenerVars
<1>2. /\ LinkInv(l) /\ Neighbour \in [Peers -> Peers]
      /\ events \in [Peers -> Seq(Events)] /\ toListener \in [Peers -> Seq(ListenerStatus)]
  BY PeerAssumption, Zenon DEF PeerInv, TurnsInv, TypeOK, LinkTypeOK, P2PServerTypeOK
<1>3. Connections(events, armed, listener)
  BY <1>2, ConnectionsForm, Zenon DEF Completions, PeerInv, ConnectionInv, BufferServesOne
<1>4. Neighbour[l] \in Peers /\ events[p] \in Seq(Events) /\ toListener[l] \in Seq(ListenerStatus)
  BY <1>2
<1>5. CASE UNCHANGED <<events, toListener>>
  BY <1>1, <1>2, <1>5, LinkKept, Zenon
<1>6. CASE ~ UNCHANGED <<events, toListener>>
  <2>1. events[p] # <<>>
    BY <1>1, <1>6, Zenon DEF Shape
  <2>2. PICK s \in Seq(Events) : s = Tail(events[p])
    BY <1>4, <2>1, TailElements, Zenon
  <2>3. PICK h \in Events : h = Head(events[p])
    BY <1>4, <2>1, TailElements, Zenon
  <2>4. PICK c \in Peers : c = h.conn /\ c = conn(p)
    BY <2>3 DEF Events, conn
  <2>5. /\ Of(s, l) \subseteq Of(events[p], l)
        /\ c = l => h \in Of(events[p], l)
        /\ Unique(events[p], l) /\ c = l => Of(s, l) = {}
    BY <1>4, <2>1, <2>2, <2>3, <2>4, OfTail, Zenon
  <2>6. c = l => Neighbour[l] = p /\ Unique(events[p], l) /\ listener[l] # "connecting"
    BY <1>3, <1>4, <2>1, <2>3, <2>4, TailHas, Zenon DEF Connections
  <2>7. ASSUME events' = [events EXCEPT ![p] = Tail(@)], UNCHANGED toListener
        PROVE  LinkInv(l)'
    <3>1. events'[p] = s /\ \A q \in Peers : q # p => events'[q] = events[q]
      BY <1>2, <2>2, <2>7
    <3>2. Of(events'[Neighbour[l]], l) \subseteq Of(events[Neighbour[l]], l)
      BY <1>4, <2>5, <3>1, Zenon
    <3>. QED  BY <1>1, <1>2, <2>7, <3>2, LinkKept, Zenon
  <2>8. ASSUME NEW flag \in {"FLAG_WAIT_PONG", "FLAG_READ_RESPONSE", "FLAG_BLOCK_SENDED"},
               NEW st, Sends(p, flag, st),
               \/ flag # "FLAG_BLOCK_SENDED" /\ LetsSend(h)
               \/ st = "BLOCK" /\ LetsSend(h)
               \/ flag # "FLAG_BLOCK_SENDED" /\ h.flag = "FLAG_BLOCK_SENDED" /\ st = "FINISH"
        PROVE  LinkInv(l)'
    <3>1. PICK x \in Events : x = Event(flag, c, "none")
      BY <2>4 DEF Events, Event
    <3>2. /\ x.conn = c /\ x.status = "none" /\ x.flag = flag /\ ~LetsSend(x)
      BY <3>1 DEF Event, LetsSend
    <3>3. /\ events'[p] = Append(s, x) /\ \A q \in Peers : q # p => events'[q] = events[q]
      BY <1>2, <2>2, <2>4, <2>8, <3>1 DEF Sends
    <3>4. /\ Of(events'[p], l) \subseteq Of(s, l) \cup {x}
          /\ c # l => Of(events'[p], l) \subseteq Of(s, l)
      BY <2>2, <3>2, <3>3, OfAppend, Zenon
    <3>5. CASE c # l
      <4>1. Of(events'[Neighbour[l]], l) \subseteq Of(events[Neighbour[l]], l)
        BY <1>4, <2>5, <3>3, <3>4, <3>5, Zenon
      <4>2. toListener'[l] = toListener[l]
        BY <1>2, <2>4, <2>8, <3>5 DEF Sends
      <4>. QED  BY <1>1, <1>2, <4>1, <4>2, LinkKept, Zenon
    <3>6. CASE c = l
      <4>1. Of(events'[Neighbour[l]], l) \subseteq {x} /\ listener'[l] # "connecting"
        BY <1>1, <2>5, <2>6, <3>4, <3>6, Zenon
      <4>2. h \in Of(events[Neighbour[l]], l)
        BY <2>5, <2>6, <3>6, Zenon
      <4>3. \/ toListener'[l] = toListener[l]
            \/ toListener'[l] = Append(toListener[l], st)
        BY <1>2, <2>4, <2>8, <3>6 DEF Sends
      <4>4. ASSUME listener'[l] = "waiting"
            PROVE  /\ toServer'[l] = <<>>
                   /\ Len(toListener'[l]) <= 1 \/ toListener'[l] = <<"BLOCK", "FINISH">>
                   /\ flag = "FLAG_BLOCK_SENDED" => toListener'[l] \in {<<>>, <<"BLOCK">>}
        <5>1. /\ LetsSend(h) => toListener[l] = <<>> /\ toServer[l] = <<>>
              /\ h.flag = "FLAG_BLOCK_SENDED" =>
                   toListener[l] \in {<<>>, <<"BLOCK">>} /\ toServer[l] = <<>>
          BY <1>1, <1>2, <4>2, <4>4, Zenon DEF LinkInv
        <5>2. CASE LetsSend(h)
          <6>1. toListener'[l] \in {<<>>, <<st>>} /\ toServer'[l] = <<>>
            BY <1>1, <4>3, <5>1, <5>2, NothingBut
          <6>2. flag = "FLAG_BLOCK_SENDED" => st = "BLOCK"
            BY <2>8, <5>2
          <6>3. Len(<<>>) <= 1 /\ Len(<<st>>) <= 1
            OBVIOUS
          <6>. QED  BY <6>1, <6>2, <6>3, Zenon
        <5>3. CASE ~LetsSend(h)
          <6>1. flag # "FLAG_BLOCK_SENDED" /\ h.flag = "FLAG_BLOCK_SENDED" /\ st = "FINISH"
            BY <2>8, <5>3, Zenon
          <6>2. toListener[l] \in {<<>>, <<"BLOCK">>} /\ toServer'[l] = <<>>
            BY <1>1, <5>1, <6>1, Zenon
          <6>3. toListener'[l] \in {<<>>, <<"BLOCK">>, <<"FINISH">>, <<"BLOCK", "FINISH">>}
            BY <4>3, <6>1, <6>2, NothingBut, BehindTheBlock, Zenon
          <6>4. Len(<<>>) <= 1 /\ Len(<<"BLOCK">>) <= 1 /\ Len(<<"FINISH">>) <= 1
            OBVIOUS
          <6>. QED  BY <6>1, <6>2, <6>3, <6>4, Zenon
        <5>. QED  BY <5>2, <5>3
      <4>. QED  BY <3>2, <4>1, <4>4, Zenon DEF LinkInv, LetsSend
    <3>. QED  BY <3>5, <3>6
  <2>. QED  BY <1>1, <1>6, <2>3, <2>7, <2>8, Zenon DEF TurnKind
<1>. QED  BY <1>5, <1>6

\* A turn that copies the block is one that a request for it began.
LEMMA TurnCopies ==
  ASSUME PeerInv, NEW p \in Peers, EventLoopP2P(p), NEW q \in Peers, turn'[q] = "copy"
  PROVE  /\ Head(events'[q]).flag = "FLAG_TEST_RESPONSE"
         /\ Head(events'[q]).status = "ASK_IF_BLOCK_READY"
<1>1. /\ Shape(p) /\ events \in [Peers -> Seq(Events)]
      /\ turn \in [Peers -> {"wait", "handle", "copy"}]
  BY TurnShape, Zenon DEF PeerInv, TypeOK, P2PServerTypeOK
<1>2. CASE q # p
  <2>1. events'[q] = events[q] /\ turn'[q] = turn[q]
    BY <1>1, <1>2 DEF Shape
  <2>. QED  BY <2>1, Zenon DEF PeerInv, TurnsInv
<1>3. CASE q = p
  <2>1. turn' # [turn EXCEPT ![p] = "wait"] /\ turn' # [turn EXCEPT ![p] = "handle"]
    BY <1>1, <1>3
  <2>2. ReadBlockSize(p)
    BY <2>1, Zenon DEF EventLoopP2P, TryMutex, OnAccept, OnReadResponse, OnPong, OnAskNotReady,
                       P2Pser_send_block, OnBlockSended, OnNoResponse, HandlesStatus, Handles
  <2>. QED  BY <1>3, <2>2, Zenon DEF ReadBlockSize
<1>. QED  BY <1>2, <1>3

\* A completion that the kernel adds keeps every connection's turn: of a recv when
\* what was sent has all been read, of an accept when nothing was sent yet.
LEMMA KernelLinks ==
  ASSUME PeerInv, NEW c \in Peers,
         (RecvDone(c) /\ UNCHANGED listenerVars) \/ (ConnectToPeer(c) /\ Accepted(c))
  PROVE  TurnsInv'
<1>1. /\ Neighbour \in [Peers -> Peers] /\ Neighbour[c] \in Peers
      /\ events \in [Peers -> Seq(Events)] /\ toListener \in [Peers -> Seq(ListenerStatus)]
      /\ toServer \in [Peers -> Seq(ServerStatus)] /\ toServer[c] \in Seq(ServerStatus)
      /\ listener \in [Peers -> {"connecting", "waiting", "idle"}]
      /\ events[Neighbour[c]] \in Seq(Events)
  <2>1. /\ Neighbour \in [Peers -> Peers]
        /\ events \in [Peers -> Seq(Events)] /\ toListener \in [Peers -> Seq(ListenerStatus)]
        /\ toServer \in [Peers -> Seq(ServerStatus)]
        /\ listener \in [Peers -> {"connecting", "waiting", "idle"}]
    BY PeerAssumption, Zenon DEF PeerInv, TypeOK, LinkTypeOK, P2PServerTypeOK, ListenerTypeOK
  <2>. QED  BY <2>1
<1>2. /\ Connections(events, armed, listener)
      /\ \A q \in Peers : turn[q] # "wait" => events[q] # <<>>
  BY <1>1, ConnectionsForm, Zenon DEF Completions, PeerInv, ConnectionInv, BufferServesOne
<1>3. /\ \A l \in Peers : LinkInv(l)
      /\ \A q \in Peers : turn[q] = "copy" =>
           /\ Head(events[q]).flag = "FLAG_TEST_RESPONSE"
           /\ Head(events[q]).status = "ASK_IF_BLOCK_READY"
  BY Zenon DEF PeerInv, TurnsInv
<1>4. ~Has(events[Neighbour[c]], c)
  BY <1>1, <1>2, Zenon DEF Connections, RecvDone, ConnectToPeer
<1>5. Of(events[Neighbour[c]], c) = {}
  BY <1>4, Zenon DEF Of, Has
<1>6. \E x \in Events :
        /\ events' = [events EXCEPT ![Neighbour[c]] = Append(@, x)]
        /\ x.conn = c /\ x.flag # "FLAG_BLOCK_SENDED"
        /\ x.status # "none" => x.flag = "FLAG_TEST_RESPONSE"
        /\ listener'[c] # "connecting"
        /\ listener'[c] = "waiting" => toServer'[c] = <<>>
        /\ listener'[c] = "waiting" /\ LetsSend(x) => toListener'[c] = <<>>
        /\ listener'[c] = "waiting" =>
             Len(toListener'[c]) <= 1 \/ toListener'[c] = <<"BLOCK", "FINISH">>
  <2>1. CASE RecvDone(c) /\ UNCHANGED listenerVars
    <3>1. /\ c \in armed /\ toServer' = [toServer EXCEPT ![c] = <<>>]
          /\ toListener' = toListener /\ listener' = listener
      BY <2>1, Zenon DEF RecvDone, listenerVars
    <3>2. listener[c] # "connecting"
      BY <1>2, <3>1, Zenon DEF Connections
    <3>3. \E st \in ServerStatus \cup {"none"} :
             /\ events' = [events EXCEPT ![Neighbour[c]] =
                             Append(@, Event("FLAG_TEST_RESPONSE", c, st))]
             /\ st # "none" => toServer[c] # <<>>
      <4>1. toServer[c] # <<>> => Last(toServer[c]) \in ServerStatus
        BY <1>1 DEF Last
      <4>. QED  BY <2>1, <4>1 DEF RecvDone
    <3>4. PICK st \in ServerStatus \cup {"none"} :
             /\ events' = [events EXCEPT ![Neighbour[c]] =
                             Append(@, Event("FLAG_TEST_RESPONSE", c, st))]
             /\ st # "none" => toServer[c] # <<>>
      BY <3>3, Zenon
    <3>5. PICK x \in Events : x = Event("FLAG_TEST_RESPONSE", c, st)
      BY DEF Event, Events
    <3>6. x.conn = c /\ x.flag = "FLAG_TEST_RESPONSE" /\ x.status = st
      BY <3>5 DEF Event
    <3>7. toServer'[c] = <<>>
      BY <1>1, <3>1
    <3>8. LetsSend(x) => toServer[c] # <<>>
      BY <3>4, <3>6 DEF LetsSend
    <3>9. listener[c] = "waiting" =>
            /\ toServer[c] # <<>> => toListener[c] = <<>>
            /\ Len(toListener[c]) <= 1 \/ toListener[c] = <<"BLOCK", "FINISH">>
      BY <1>3, Zenon DEF LinkInv
    <3>10. x.flag # "FLAG_BLOCK_SENDED"
      BY <3>6
    <3>. QED  BY <3>1, <3>2, <3>4, <3>5, <3>6, <3>7, <3>8, <3>9, <3>10, Zenon
  <2>2. CASE ConnectToPeer(c) /\ Accepted(c)
    <3>1. /\ listener[c] = "connecting" /\ listener' = [listener EXCEPT ![c] = "waiting"]
          /\ toListener' = toListener /\ toServer' = toServer
          /\ events' = [events EXCEPT ![Neighbour[c]] =
                          Append(@, Event("FLAG_ACCEPT", c, "none"))]
      BY <2>2, Zenon DEF ConnectToPeer, Accepted, linkVars
    <3>2. toListener[c] = <<>> /\ toServer[c] = <<>>
      BY <1>3, <3>1, Zenon DEF LinkInv
    <3>3. PICK x \in Events : x = Event("FLAG_ACCEPT", c, "none")
      BY DEF Event, Events
    <3>4. x.conn = c /\ x.flag = "FLAG_ACCEPT" /\ x.status = "none"
      BY <3>3 DEF Event
    <3>5. listener'[c] # "connecting"
      BY <1>1, <3>1
    <3>6. Len(toListener'[c]) <= 1
      <4>1. Len(<<>>) <= 1
        OBVIOUS
      <4>. QED  BY Zenon, <3>1, <3>2, <4>1
    <3>7. x.flag # "FLAG_BLOCK_SENDED"
      BY <3>4
    <3>. QED  BY <3>1, <3>2, <3>3, <3>4, <3>5, <3>6, <3>7, Zenon
  <2>. QED  BY <2>1, <2>2
<1>7. PICK x \in Events :
        /\ events' = [events EXCEPT ![Neighbour[c]] = Append(@, x)]
        /\ x.conn = c /\ x.flag # "FLAG_BLOCK_SENDED"
        /\ x.status # "none" => x.flag = "FLAG_TEST_RESPONSE"
        /\ listener'[c] # "connecting"
        /\ listener'[c] = "waiting" => toServer'[c] = <<>>
        /\ listener'[c] = "waiting" /\ LetsSend(x) => toListener'[c] = <<>>
        /\ listener'[c] = "waiting" =>
             Len(toListener'[c]) <= 1 \/ toListener'[c] = <<"BLOCK", "FINISH">>
  BY <1>6, Zenon
<1>8. /\ events'[Neighbour[c]] = Append(events[Neighbour[c]], x)
      /\ \A q \in Peers : q # Neighbour[c] => events'[q] = events[q]
  BY <1>1, <1>7
<1>9. ASSUME NEW l \in Peers
      PROVE  LinkInv(l)'
  <2>1. /\ Of(events'[Neighbour[c]], l) \subseteq Of(events[Neighbour[c]], l) \cup {x}
        /\ c # l => Of(events'[Neighbour[c]], l) \subseteq Of(events[Neighbour[c]], l)
    BY <1>1, <1>7, <1>8, OfAppend, Zenon
  <2>2. CASE l = c
    <3>1. Of(events'[Neighbour[l]], l) \subseteq {x}
      BY <1>5, <2>1, <2>2, Zenon
    <3>. QED  BY <1>7, <2>2, <3>1, Zenon DEF LinkInv, LetsSend
  <2>3. CASE l # c
    <3>1. Neighbour[l] \in Peers
      BY <1>1
    <3>2. Of(events'[Neighbour[l]], l) \subseteq Of(events[Neighbour[l]], l)
      BY <1>8, <2>1, <2>3, <3>1, Zenon
    <3>3. /\ toListener'[l] = toListener[l] /\ toServer'[l] = toServer[l]
          /\ listener'[l] = listener[l]
      BY <1>1, <2>3 DEF RecvDone, ConnectToPeer, linkVars, listenerVars
    <3>. QED  BY <1>3, <3>2, <3>3, LinkKept, Zenon
  <2>. QED  BY <2>2, <2>3
<1>10. ASSUME NEW q \in Peers, turn'[q] = "copy"
       PROVE  /\ Head(events'[q]).flag = "FLAG_TEST_RESPONSE"
              /\ Head(events'[q]).status = "ASK_IF_BLOCK_READY"
  <2>1. turn[q] = "copy" /\ events[q] # <<>>
    <3>1. turn' = turn
      BY Zenon DEF RecvDone, Accepted
    <3>2. turn[q] = "copy" /\ turn[q] # "wait"
      BY <1>10, <3>1
    <3>. QED  BY <1>2, <3>2, Zenon
  <2>2. events'[q] = events[q] \/ events'[q] = Append(events[q], x)
    BY <1>8, Zenon
  <2>3. events[q] \in Seq(Events)
    BY <1>1
  <2>4. Head(Append(events[q], x)) = Head(events[q])
    BY <2>1, <2>3
  <2>. QED  BY <1>3, <2>1, <2>2, <2>4, Zenon
<1>. QED  BY <1>9, <1>10, Zenon DEF TurnsInv

\* A listener answers what it has read, which the server then waits for, or
\* reads no more.
LEMMA ListenerLinks ==
  ASSUME PeerInv, NEW c \in Peers, ListenerThread(c), UNCHANGED p2pServerVars,
         NEW l \in Peers
  PROVE  LinkInv(l)'
<1>1. /\ toListener \in [Peers -> Seq(ListenerStatus)] /\ toServer \in [Peers -> Seq(ServerStatus)]
      /\ listener \in [Peers -> {"connecting", "waiting", "idle"}]
      /\ LinkInv(l) /\ events' = events
  BY Zenon DEF PeerInv, TurnsInv, TypeOK, LinkTypeOK, ListenerTypeOK, p2pServerVars
<1>2. /\ listener[c] = "waiting"
      /\ listener' \in {listener, [listener EXCEPT ![c] = "idle"]}
      /\ toListener' \in {toListener, [toListener EXCEPT ![c] = <<>>]}
  BY ListenerShape, Zenon
<1>3. CASE l # c
  <2>1. \/ toServer' = toServer
        \/ \E st : toServer' = [toServer EXCEPT ![c] = Append(@, st)]
    BY Zenon DEF ListenerThread, OnPing, OnOkOrNotReady, OnBlock, OnFinish, OnNeighbourGone, Ends,
                 cl_p2p_send_STATUS
  <2>2. listener'[l] = listener[l] /\ toListener'[l] = toListener[l] /\ toServer'[l] = toServer[l]
    BY <1>1, <1>2, <1>3, <2>1
  <2>. QED  BY <1>1, <2>2, LinkKept, Zenon
<1>4. CASE l = c /\ (OnBlock(c) \/ OnFinish(c))
  <2>1. listener'[l] = "idle"
    BY <1>1, <1>4 DEF OnBlock, OnFinish
  <2>. QED  BY <1>1, <2>1, LinkKept, Zenon
<1>5. CASE OnNeighbourGone(c)
  <2>1. listener' = listener /\ toListener' = toListener /\ toServer' = toServer
    BY <1>5, Zenon DEF OnNeighbourGone, Ends, listenerVars
  <2>. QED  BY <1>1, <2>1, LinkKept, Zenon
<1>6. CASE l = c /\ (OnPing(c) \/ OnOkOrNotReady(c))
  <2>1. /\ \E st \in {"PING", "OK", "BLOCK_NOT_READY"} : Receives(c, st)
        /\ \E st \in ServerStatus : cl_p2p_send_STATUS(c, st)
        /\ listener' = listener
    BY <1>6 DEF OnPing, OnOkOrNotReady, listenerVars, ServerStatus
  <2>2. PICK st \in ServerStatus : cl_p2p_send_STATUS(c, st)
    BY <2>1, Zenon
  <2>3. /\ toListener[l] # <<>> /\ Last(toListener[l]) # "BLOCK"
        /\ toListener'[l] = <<>>
    BY <1>1, <1>6, <2>1 DEF Receives
  <2>4. toServer[l] = <<>>
    BY <1>1, <1>2, <1>6, <2>3, Zenon DEF LinkInv
  <2>5. toListener[l] # <<"BLOCK">>
    BY <2>3 DEF Last
  <2>6. \A e \in Of(events[Neighbour[l]], l) : ~LetsSend(e) /\ e.flag # "FLAG_BLOCK_SENDED"
    BY <1>1, <1>2, <1>6, <2>3, <2>5, Zenon DEF LinkInv
  <2>7. toServer'[l] = toServer[l] \/ toServer'[l] = Append(toServer[l], st)
    BY <1>1, <1>6, <2>2 DEF cl_p2p_send_STATUS
  <2>8. toServer'[l] # <<>> => Len(toServer'[l]) = 1
    <3>1. Len(<<st>>) = 1
      OBVIOUS
    <3>. QED  BY <2>4, <2>7, <3>1, NothingBut, Zenon
  <2>9. Len(toListener'[l]) <= 1 /\ listener'[l] = listener[l] /\ listener'[l] # "connecting"
    BY <1>2, <1>6, <2>1, <2>3
  <2>. QED  BY <1>1, <2>3, <2>6, <2>8, <2>9, Zenon DEF LinkInv, LetsSend
<1>. QED  BY <1>3, <1>4, <1>5, <1>6, Zenon DEF ListenerThread

\* Every step keeps the turns.
LEMMA TurnsStep ==
  ASSUME PeerInv, [Next]_vars
  PROVE  TurnsInv'
<1>1. ASSUME UNCHANGED <<toListener, toServer, events, turn, listener>>
      PROVE  TurnsInv'
  BY <1>1, Zenon DEF PeerInv, TurnsInv, LinkInv
<1>2. ASSUME NEW p \in Peers, ServerStep(p)
      PROVE  TurnsInv'
  BY <1>2, TurnLinks, TurnCopies, Zenon DEF ServerStep, TurnsInv
<1>3. ASSUME NEW l \in Peers, KernelStep(l) \/ ConnectStep(l)
      PROVE  TurnsInv'
  BY <1>3, KernelLinks, Zenon DEF KernelStep, ConnectStep
<1>4. ASSUME NEW l \in Peers, ListenerStep(l)
      PROVE  TurnsInv'
  <2>1. ListenerThread(l) /\ UNCHANGED p2pServerVars /\ events' = events /\ turn' = turn
    BY <1>4, Zenon DEF ListenerStep, p2pServerVars
  <2>2. \A m \in Peers : LinkInv(m)'
    BY <2>1, ListenerLinks, Zenon
  <2>. QED  BY <2>1, <2>2, Zenon DEF PeerInv, TurnsInv
<1>5. ASSUME NEW p \in Peers, MessageThreadStep(p)
      PROVE  TurnsInv'
  BY <1>1, <1>5, ThreadShape, Zenon DEF p2pServerVars, listenerVars
<1>6. ASSUME NEW p \in Peers, Kill(p)
      PROVE  TurnsInv'
  BY <1>1, <1>6, Zenon DEF Kill, Ends, p2pServerVars, listenerVars
<1>7. UNCHANGED vars => TurnsInv'
  BY <1>1, Zenon DEF vars, linkVars, p2pServerVars, listenerVars
<1>. QED  BY <1>2, <1>3, <1>4, <1>5, <1>6, <1>7, Zenon DEF Next

-----------------------------------------------------------------------------
\* PeerInv is an invariant: with any number of peers, whoever is whose
\* neighbour and however many are killed, in every state of the P2P threads
\* each connection has one operation at most, a send copies a whole block or
\* none, and a listener is sent, and accepts, published blocks only.
THEOREM PeerInvHolds == Spec => []PeerInv
<1>1. PeerInv /\ [Next]_vars => PeerInv'
  BY TypeStep, ConnectionStep, BlockStep, DeliveryStep, TurnsStep, Zenon DEF PeerInv
<1>. QED  BY InitPeerInv, <1>1, PTL DEF Spec

\* The values of the P2P threads of any set of peers keep their types.
THEOREM PeersAreTyped == Spec => []TypeOK
<1>1. PeerInv => TypeOK
  BY Zenon DEF PeerInv
<1>. QED  BY <1>1, PeerInvHolds, PTL

\* The buffer of a P2P connection never serves two operations at once, although
\* the recv of the next request and the send of the last answer share it.
THEOREM BuffersServeOne == Spec => []BufferServesOne
<1>1. PeerInv => BufferServesOne
  BY Zenon DEF PeerInv
<1>. QED  BY <1>1, PeerInvHolds, PTL

\* A block that is sent, which happens without the mutex, is whole.
THEOREM SentBlocksAreWhole == Spec => []SentIsWhole
<1>1. PeerInv => SentIsWhole
  BY Zenon DEF PeerInv
<1>. QED  BY <1>1, PeerInvHolds, PTL

\* A listener accepts a block only once its neighbour has serialized one.
THEOREM AcceptedWasCreated == Spec => []AcceptedIsCreated
<1>1. PeerInv => AcceptedIsCreated
  <2>. SUFFICES ASSUME PeerInv  PROVE AcceptedIsCreated
    OBVIOUS
  <2>1. Neighbour \in [Peers -> Peers]
    BY PeerAssumption
  <2>. QED  BY <2>1 DEF PeerInv, DeliveryInv, BlockInv, AcceptedIsCreated
<1>. QED  BY <1>1, PeerInvHolds, PTL

\* Two counts of which the second excludes the first.
LEMMA OneOrNone ==
  ASSUME NEW m \in Nat, NEW n \in Nat, m <= 1, n = 0 \/ (n = 1 /\ m = 0)
  PROVE  m + n + 0 <= 1
OBVIOUS

\* The two ends of a connection take turns: a recv finds one status, or the
\* block and the FINISH that the server sent behind it.
THEOREM PeersTakeTurns == Spec => []TakeTurns
<1>1. PeerInv => TakeTurns
  <2>. SUFFICES ASSUME PeerInv, NEW l \in Peers, listener[l] = "waiting",
                       toListener[l] # <<"BLOCK", "FINISH">>
                PROVE  Len(toListener[l]) + Len(toServer[l])
                         + Cardinality({i \in DOMAIN events[Neighbour[l]] :
                             /\ events[Neighbour[l]][i].conn = l
                             /\ events[Neighbour[l]][i].status # "none"}) <= 1
    BY Zenon DEF TakeTurns
  <2>. DEFINE ev == events[Neighbour[l]]
              read == {i \in DOMAIN ev : ev[i].conn = l /\ ev[i].status # "none"}
  <2>1. /\ LinkInv(l) /\ toListener \in [Peers -> Seq(ListenerStatus)]
        /\ toServer \in [Peers -> Seq(ServerStatus)]
    BY Zenon DEF PeerInv, TurnsInv, TypeOK, LinkTypeOK
  <2>2. Len(toListener[l]) \in Nat /\ Len(toServer[l]) \in Nat
    BY <2>1
  <2>3. /\ toServer[l] # <<>> => Len(toServer[l]) = 1 /\ toListener[l] = <<>>
        /\ Len(toListener[l]) <= 1
    BY <2>1, Zenon DEF LinkInv
  <2>4. Len(toListener[l]) + Len(toServer[l]) + 0 <= 1
    <3>1. toServer[l] = <<>> => Len(toServer[l]) = 0
      OBVIOUS
    <3>2. toListener[l] = <<>> => Len(toListener[l]) = 0
      OBVIOUS
    <3>. QED  BY <2>2, <2>3, <3>1, <3>2, OneOrNone, Zenon
  <2>5. CASE read = {}
    <3>1. Cardinality(read) = 0
      BY <2>5, FS_EmptySet, Zenon
    <3>. QED  BY <2>4, <3>1, Zenon DEF read, ev
  <2>6. CASE read # {}
    <3>1. PICK i \in DOMAIN ev : ev[i].conn = l /\ ev[i].status # "none"
      BY <2>6, Zenon
    <3>2. read = {i}
      BY <3>1, Zenon DEF PeerInv, BufferServesOne
    <3>3. ev[i] \in Of(ev, l)
      BY <3>1, Zenon DEF Of
    <3>4. LetsSend(ev[i])
      BY <2>1, <3>1, <3>3, Zenon DEF LinkInv, LetsSend
    <3>5. toListener[l] = <<>> /\ toServer[l] = <<>>
      BY <2>1, <3>3, <3>4, Zenon DEF LinkInv
    <3>6. Len(toListener[l]) = 0 /\ Len(toServer[l]) = 0
      BY <3>5
    <3>7. Cardinality(read) = 1
      BY <3>2, FS_Singleton, Zenon
    <3>. HIDE DEF read
    <3>8. Len(toListener[l]) + Len(toServer[l]) + Cardinality(read) <= 1
      BY <3>6, <3>7
    <3>. QED  BY <3>8 DEF read, ev
  <2>. QED  BY <2>5, <2>6
<1>. QED  BY <1>1, PeerInvHolds, PTL

\* A process that ends was killed, or ends because its neighbour did while its
\* listener was still without the block.
THEOREM EndsAreExplained == Spec => []EndsWithNeighbour
<1>1. Init => EndsWithNeighbour
  BY DEF Init, LinkInit, EndsWithNeighbour
<1>2. ASSUME PeerInv, EndsWithNeighbour, [Next]_vars
      PROVE  EndsWithNeighbour'
  <2>1. /\ alive \in [Peers -> BOOLEAN] /\ accepted \in [Peers -> BOOLEAN]
        /\ Neighbour \in [Peers -> Peers] /\ DeliveryInv
    BY <1>2, PeerAssumption, Zenon DEF PeerInv, TypeOK, LinkTypeOK, ListenerTypeOK
  <2>2. UNCHANGED <<alive, killed, accepted>> => EndsWithNeighbour'
    BY <1>2 DEF EndsWithNeighbour
  <2>3. ASSUME NEW p \in Peers, MessageThreadStep(p)
        PROVE  UNCHANGED <<alive, killed, accepted>>
    BY <1>2, <2>3, ThreadShape, Zenon DEF listenerVars
  <2>4. ASSUME NEW p \in Peers, ServerStep(p)
        PROVE  UNCHANGED <<alive, killed, accepted>>
    BY <1>2, <2>4, TurnShape, Zenon DEF ServerStep, listenerVars
  <2>5. ASSUME NEW l \in Peers, KernelStep(l) \/ ConnectStep(l)
        PROVE  UNCHANGED <<alive, killed, accepted>>
    BY <2>5, Zenon DEF KernelStep, ConnectStep, RecvDone, ConnectToPeer, linkVars, listenerVars
  <2>6. ASSUME NEW p \in Peers, Kill(p)
        PROVE  EndsWithNeighbour'
    BY <1>2, <2>1, <2>6 DEF Kill, Ends, listenerVars, EndsWithNeighbour
  <2>7. ASSUME NEW l \in Peers, ListenerStep(l)
        PROVE  EndsWithNeighbour'
    <3>1. CASE OnNeighbourGone(l)
      <4>1. /\ ~alive[Neighbour[l]] /\ listener[l] = "waiting"
            /\ alive' = [alive EXCEPT ![l] = FALSE] /\ UNCHANGED <<killed, accepted>>
        BY <3>1 DEF OnNeighbourGone, Ends, listenerVars
      <4>2. ~accepted[l]
        BY <2>1, <4>1 DEF DeliveryInv
      <4>. QED  BY <1>2, <2>1, <4>1, <4>2 DEF EndsWithNeighbour
    <3>2. CASE ~OnNeighbourGone(l)
      <4>1. \E st : Receives(l, st)
        BY <2>7, <3>2, Zenon DEF ListenerStep, ListenerThread, OnPing, OnOkOrNotReady, OnBlock,
                                 OnFinish
      <4>2. alive[l] /\ alive' = alive /\ killed' = killed
        BY <4>1, Zenon DEF Receives
      <4>3. \A m \in Peers : m # l => accepted'[m] = accepted[m]
        BY <1>2, <2>1, <2>7, ListenerShape DEF ListenerStep
      <4>. QED  BY <1>2, <2>1, <4>2, <4>3 DEF EndsWithNeighbour
    <3>. QED  BY <3>1, <3>2
  <2>8. UNCHANGED vars => UNCHANGED <<alive, killed, accepted>>
    BY Zenon DEF vars, linkVars, listenerVars
  <2>9. EndsWithNeighbour' \/ UNCHANGED <<alive, killed, accepted>>
    BY <1>2, <2>3, <2>4, <2>5, <2>6, <2>7, <2>8, Zenon DEF Next
  <2>. QED  BY <2>2, <2>9, Zenon
<1>. QED  BY <1>1, <1>2, PeerInvHolds, PTL DEF Spec
=============================================================================
