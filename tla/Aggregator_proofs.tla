-------------------------- MODULE Aggregator_proofs --------------------------
(***************************************************************************)
(* For any clients, channel, threads, prices and failures: the map follows *)
(* the channel, and no client ever replaces a price by an older one.       *)
(*                                                                         *)
(* A price of a source is on its way from the socket through insert, the   *)
(* channel and the stream to a client into what the client shows.  The     *)
(* invariant says that along this way the prices of a source are in order: *)
(* whatever is behind is at least as new as what is in front of it, and a  *)
(* loss in between, of which the code has several, takes prices away but   *)
(* never changes their order.                                              *)
(***************************************************************************)
EXTENDS Aggregator, TLAPS

\* The price of a source that insert took last.
Taken(s) == IF inserting[s] # 0 THEN inserting[s] ELSE priceMap[s]

Types ==
  /\ market \in [Sources -> Nat] /\ inbox \in [Sources -> Seq(Nat)]
  /\ inserting \in [Sources -> Nat] /\ priceMap \in [Sources -> Nat]
  /\ log \in Seq(Event)
  /\ next \in [Clients -> Nat] /\ wire \in [Clients -> Seq(Event)]
  /\ prices \in [Clients -> [Sources -> Nat]]

\* The socket of a feed: in order, newer than what insert took.
InboxInOrder ==
  \A s \in Sources :
    /\ priceMap[s] <= Taken(s) /\ Taken(s) <= market[s]
    /\ \A i \in DOMAIN inbox[s] : Taken(s) < inbox[s][i] /\ inbox[s][i] <= market[s]
    /\ \A i, j \in DOMAIN inbox[s] : i < j => inbox[s][i] < inbox[s][j]

\* Two events, the second of which does not go back behind the first.
Follows(e, f) == e.source = f.source => e.value <= f.value

LogInOrder == \A i, j \in DOMAIN log : i < j => Follows(log[i], log[j])

\* What a client shows, its stream, and the rest of the channel for it.
ClientInOrder(c) ==
  /\ \A s \in Sources : prices[c][s] <= Taken(s)
  /\ \A i \in DOMAIN wire[c] :
       /\ prices[c][wire[c][i].source] <= wire[c][i].value
       /\ wire[c][i].value <= Taken(wire[c][i].source)
       /\ \A j \in DOMAIN wire[c] : i < j => Follows(wire[c][i], wire[c][j])
  /\ next[c] # 0 =>
       \A j \in DOMAIN log : j >= next[c] =>
         /\ prices[c][log[j].source] <= log[j].value
         /\ \A i \in DOMAIN wire[c] : Follows(wire[c][i], log[j])

ClientsInOrder == \A c \in Clients : ClientInOrder(c)

IInv == Types /\ InboxInOrder /\ LogInOrder /\ MapFollowsChannel /\ ClientsInOrder

-----------------------------------------------------------------------------
LEMMA InitInv == Init => IInv
BY DEF Init, IInv, Types, InboxInOrder, LogInOrder, MapFollowsChannel, ClientsInOrder, ClientInOrder, Taken

\* Events are records of a source and a price.
LEMMA EventFields ==
  ASSUME NEW e \in Event
  PROVE  e.source \in Sources /\ e.value \in Nat /\ e.value # 0
BY DEF Event

\* What the channel has of a source is not newer than what insert took.
LEMMA LogTaken ==
  ASSUME IInv, NEW i \in DOMAIN log
  PROVE  log[i].value <= Taken(log[i].source)
<1>1. log[i] \in Event
  BY DEF IInv, Types
<1>2. log[i].source \in Sources /\ log[i].value \in Nat /\ log[i].value # 0
  BY <1>1, EventFields
<1>3. priceMap[log[i].source] \in Nat /\ inserting[log[i].source] \in Nat
  BY <1>2 DEF IInv, Types
<1>4. priceMap[log[i].source] <= Taken(log[i].source)
  BY <1>2 DEF IInv, InboxInOrder
<1>5. priceMap[log[i].source] >= log[i].value \/ inserting[log[i].source] = log[i].value
  BY DEF IInv, MapFollowsChannel
<1>6. QED
  BY <1>2, <1>3, <1>4, <1>5 DEF Taken

-----------------------------------------------------------------------------
(* The sockets *)

\* The tail of a sequence is the sequence moved by one.
LEMMA TailMoves ==
  ASSUME NEW S, NEW q \in Seq(S), q # <<>>
  PROVE  /\ Tail(q) \in Seq(S) /\ Head(q) \in S /\ Head(q) = q[1]
         /\ 1 \in DOMAIN q
         /\ \A i \in DOMAIN Tail(q) : i \in Nat /\ i # 0
                                      /\ i + 1 \in DOMAIN q /\ Tail(q)[i] = q[i + 1]
OBVIOUS

\* Indices and entries of a sequence that is appended to.
LEMMA AppendMoves ==
  ASSUME NEW S, NEW q \in Seq(S), NEW e \in S
  PROVE  /\ Append(q, e) \in Seq(S) /\ Len(q) \in Nat
         /\ \A i \in DOMAIN q : i \in 1..Len(q) /\ i \in DOMAIN Append(q, e)
                                /\ Append(q, e)[i] = q[i]
         /\ \A i \in DOMAIN Append(q, e) :
              \/ i \in DOMAIN q /\ Append(q, e)[i] = q[i]
              \/ i = Len(q) + 1 /\ Append(q, e)[i] = e
OBVIOUS

\* A step that takes prices out of sockets, or none.
LEMMA InboxShrinks ==
  ASSUME IInv, NEW s \in Sources, UNCHANGED <<market, serverVars, clientVars>>,
         NEW q \in Seq(Nat),
         q = <<>> \/ (inbox[s] # <<>> /\ q = Tail(inbox[s])),
         inbox' = [inbox EXCEPT ![s] = q]
  PROVE  IInv'
<1>1. \A t \in Sources : Taken(t)' = Taken(t)
  BY DEF Taken, serverVars
<1>2. inbox[s] \in Seq(Nat) /\ inbox' \in [Sources -> Seq(Nat)]
      /\ \A t \in Sources : inbox'[t] = IF t = s THEN q ELSE inbox[t]
  BY DEF IInv, Types
<1>3. \A i \in DOMAIN q : i + 1 \in DOMAIN inbox[s] /\ q[i] = inbox[s][i + 1] /\ i \in Nat
  <2>1. CASE q = <<>>
    BY <2>1
  <2>2. CASE inbox[s] # <<>> /\ q = Tail(inbox[s])
    BY <1>2, <2>2, TailMoves
  <2>3. QED
    BY <2>1, <2>2
<1>4. InboxInOrder'
  <2>1. SUFFICES ASSUME NEW t \in Sources
                 PROVE  /\ priceMap'[t] <= Taken(t)' /\ Taken(t)' <= market'[t]
                        /\ \A i \in DOMAIN inbox'[t] :
                             Taken(t)' < inbox'[t][i] /\ inbox'[t][i] <= market'[t]
                        /\ \A i, j \in DOMAIN inbox'[t] : i < j => inbox'[t][i] < inbox'[t][j]
    BY DEF InboxInOrder
  <2>2. /\ priceMap'[t] <= Taken(t)' /\ Taken(t)' <= market'[t]
        /\ market' = market
    BY <1>1 DEF IInv, InboxInOrder, serverVars
  <2>3. CASE t # s
    BY <1>1, <1>2, <2>2, <2>3 DEF IInv, InboxInOrder
  <2>4. CASE t = s
    <3>1. inbox'[t] = q
      BY <1>2, <2>4
    <3>2. \A i \in DOMAIN q : Taken(s) < q[i] /\ q[i] <= market[s]
      BY <1>3 DEF IInv, InboxInOrder
    <3>3. ASSUME NEW i \in DOMAIN q, NEW j \in DOMAIN q, i < j
          PROVE  q[i] < q[j]
      <4>1. /\ i + 1 \in DOMAIN inbox[s] /\ j + 1 \in DOMAIN inbox[s]
            /\ q[i] = inbox[s][i + 1] /\ q[j] = inbox[s][j + 1]
            /\ i \in Nat /\ j \in Nat
        BY <1>3
      <4>2. i + 1 < j + 1
        BY <3>3, <4>1
      <4>3. inbox[s][i + 1] < inbox[s][j + 1]
        BY <4>1, <4>2 DEF IInv, InboxInOrder
      <4>4. QED
        BY <4>1, <4>3
    <3>4. QED
      BY <1>1, <2>2, <2>4, <3>1, <3>2, <3>3
  <2>5. QED
    BY <2>3, <2>4
<1>5. Types' /\ LogInOrder' /\ MapFollowsChannel'
  BY <1>2 DEF IInv, Types, LogInOrder, MapFollowsChannel, serverVars, clientVars
<1>6. ClientsInOrder'
  <2>1. UNCHANGED <<log, next, wire, prices>>
    BY DEF serverVars, clientVars
  <2>2. \A e \in Event : Taken(e.source)' = Taken(e.source)
    BY <1>1, EventFields
  <2>3. \A c \in Clients : \A i \in DOMAIN wire[c] : wire[c][i] \in Event
    BY DEF IInv, Types
  <2>4. QED
    BY <1>1, <2>1, <2>2, <2>3 DEF IInv, ClientsInOrder, ClientInOrder
<1>7. QED
  BY <1>4, <1>5, <1>6 DEF IInv

\* A source publishes: its next price is newer than everything before.
LEMMA PublishInv == ASSUME IInv, NEW s \in Sources, Publish(s) PROVE IInv'
<1>1. /\ market' = [market EXCEPT ![s] = @ + 1]
      /\ inbox' = [inbox EXCEPT ![s] = IF feed[s] = "up" THEN Append(@, market[s] + 1) ELSE @]
      /\ UNCHANGED <<inserting, priceMap, log, next, since, wire, prices>>
  BY DEF Publish, serverVars, clientVars
<1>2. \A t \in Sources : Taken(t)' = Taken(t)
  BY <1>1 DEF Taken
<1> DEFINE q == IF feed[s] = "up" THEN Append(inbox[s], market[s] + 1) ELSE inbox[s]
<1>3. /\ inbox[s] \in Seq(Nat) /\ market[s] \in Nat
      /\ q \in Seq(Nat)
      /\ inbox' \in [Sources -> Seq(Nat)]
      /\ market' \in [Sources -> Nat]
      /\ \A t \in Sources : inbox'[t] = IF t = s THEN q ELSE inbox[t]
      /\ \A t \in Sources : market'[t] = IF t = s THEN market[t] + 1 ELSE market[t]
  <2>1. inbox[s] \in Seq(Nat) /\ market[s] \in Nat
    BY DEF IInv, Types
  <2>2. Append(inbox[s], market[s] + 1) \in Seq(Nat)
    BY <2>1
  <2>3. q \in Seq(Nat) /\ inbox' = [inbox EXCEPT ![s] = q]
    BY <1>1, <2>1, <2>2
  <2> HIDE DEF q
  <2>4. /\ inbox' \in [Sources -> Seq(Nat)]
        /\ \A t \in Sources : inbox'[t] = IF t = s THEN q ELSE inbox[t]
    BY <2>3 DEF IInv, Types
  <2>5. /\ market' \in [Sources -> Nat]
        /\ \A t \in Sources : market'[t] = IF t = s THEN market[t] + 1 ELSE market[t]
    BY <1>1, <2>1 DEF IInv, Types
  <2>6. QED
    BY <2>1, <2>3, <2>4, <2>5
<1>4. \A i \in DOMAIN q :
        \/ i \in DOMAIN inbox[s] /\ q[i] = inbox[s][i]
        \/ i = Len(inbox[s]) + 1 /\ q[i] = market[s] + 1
  <2>1. CASE feed[s] = "up"
    <3>1. q = Append(inbox[s], market[s] + 1)
      BY <2>1
    <3>2. inbox[s] \in Seq(Nat) /\ market[s] + 1 \in Nat
      BY <1>3
    <3> HIDE DEF q
    <3>3. QED
      BY <3>1, <3>2, AppendMoves
  <2>2. CASE feed[s] # "up"
    BY <2>2
  <2>3. QED
    BY <2>1, <2>2
<1>5. \A i \in DOMAIN inbox[s] : i \in 1..Len(inbox[s])
  BY <1>3
<1>6. Len(inbox[s]) \in Nat /\ \A i \in DOMAIN q : i \in Nat /\ q[i] \in Nat
  <2>1. q \in Seq(Nat) /\ Len(inbox[s]) \in Nat
    BY <1>3
  <2> HIDE DEF q
  <2>2. QED
    BY <2>1
<1> HIDE DEF q
<1>7. InboxInOrder'
  <2>1. SUFFICES ASSUME NEW t \in Sources
                 PROVE  /\ priceMap'[t] <= Taken(t)' /\ Taken(t)' <= market'[t]
                        /\ \A i \in DOMAIN inbox'[t] :
                             Taken(t)' < inbox'[t][i] /\ inbox'[t][i] <= market'[t]
                        /\ \A i, j \in DOMAIN inbox'[t] : i < j => inbox'[t][i] < inbox'[t][j]
    BY DEF InboxInOrder
  <2>2. /\ priceMap[t] <= Taken(t) /\ Taken(t) <= market[t]
        /\ \A i \in DOMAIN inbox[t] : Taken(t) < inbox[t][i] /\ inbox[t][i] <= market[t]
        /\ \A i, j \in DOMAIN inbox[t] : i < j => inbox[t][i] < inbox[t][j]
    BY DEF IInv, InboxInOrder
  <2>3. Taken(t) \in Nat /\ market[t] \in Nat
    BY DEF IInv, Types, Taken
  <2>4. CASE t # s
    BY <1>1, <1>2, <1>3, <2>2, <2>4
  <2>5. CASE t = s
    <3>1. inbox'[t] = q /\ market'[t] = market[s] + 1 /\ Taken(t)' = Taken(s)
          /\ priceMap' = priceMap
      BY <1>1, <1>2, <1>3, <2>5
    <3>2. \A i \in DOMAIN q : Taken(s) < q[i] /\ q[i] <= market[s] + 1
      <4>1. SUFFICES ASSUME NEW i \in DOMAIN q
                     PROVE  Taken(s) < q[i] /\ q[i] <= market[s] + 1
        OBVIOUS
      <4>2. q[i] \in Nat
        BY <1>6
      <4>3. QED
        BY <1>4, <2>2, <2>3, <2>5, <4>2
    <3>3. \A i, j \in DOMAIN q : i < j => q[i] < q[j]
      <4>1. SUFFICES ASSUME NEW i \in DOMAIN q, NEW j \in DOMAIN q, i < j
                     PROVE  q[i] < q[j]
        OBVIOUS
      <4>2. /\ q[i] \in Nat /\ q[j] \in Nat /\ i \in Nat /\ j \in Nat
            /\ Len(inbox[s]) \in Nat
        BY <1>6
      <4>3. i \in DOMAIN inbox[s] /\ q[i] = inbox[s][i]
        BY <1>4, <1>5, <4>1, <4>2
      <4>4. q[i] <= market[s]
        BY <2>2, <2>5, <4>3
      <4>5. CASE j \in DOMAIN inbox[s] /\ q[j] = inbox[s][j]
        BY <2>2, <2>5, <4>1, <4>3, <4>5
      <4>6. CASE q[j] = market[s] + 1
        <5>1. market[s] \in Nat
          BY <2>3, <2>5
        <5>2. QED
          BY <4>2, <4>3, <4>4, <4>6, <5>1
      <4>7. QED
        BY <1>4, <4>5, <4>6
    <3>4. QED
      BY <2>2, <2>3, <2>5, <3>1, <3>2, <3>3
  <2>6. QED
    BY <2>4, <2>5
<1>8. Types' /\ LogInOrder' /\ MapFollowsChannel'
  BY <1>1, <1>3 DEF IInv, Types, LogInOrder, MapFollowsChannel
<1>9. ClientsInOrder'
  <2>1. \A e \in Event : Taken(e.source)' = Taken(e.source)
    BY <1>2, EventFields
  <2>2. \A c \in Clients : \A i \in DOMAIN wire[c] : wire[c][i] \in Event
    BY DEF IInv, Types
  <2>3. QED
    BY <1>1, <1>2, <2>1, <2>2 DEF IInv, ClientsInOrder, ClientInOrder
<1>10. QED
  BY <1>7, <1>8, <1>9 DEF IInv

-----------------------------------------------------------------------------
(* insert *)

\* The second half of insert stores what the first half took.
LEMMA StoreInv == ASSUME IInv, NEW s \in Sources, Store(s) PROVE IInv'
<1>1. /\ inserting[s] # 0
      /\ priceMap' = [priceMap EXCEPT ![s] = inserting[s]]
      /\ inserting' = [inserting EXCEPT ![s] = 0]
      /\ UNCHANGED <<market, inbox, log, next, wire, prices>>
  BY DEF Store, sourceVars, clientVars
<1>2. Types'
  BY <1>1 DEF IInv, Types
<1>3. \A t \in Sources : Taken(t)' = Taken(t) /\ priceMap'[t] <= Taken(t)
  <2>1. SUFFICES ASSUME NEW t \in Sources
                 PROVE  Taken(t)' = Taken(t) /\ priceMap'[t] <= Taken(t)
    OBVIOUS
  <2>2. /\ inserting'[t] = IF t = s THEN 0 ELSE inserting[t]
        /\ priceMap'[t] = IF t = s THEN inserting[t] ELSE priceMap[t]
        /\ inserting[t] \in Nat
    BY <1>1 DEF IInv, Types
  <2>3. priceMap[t] <= Taken(t)
    BY DEF IInv, InboxInOrder
  <2>4. QED
    BY <1>1, <2>2, <2>3 DEF Taken
<1>4. InboxInOrder'
  BY <1>1, <1>3 DEF IInv, InboxInOrder
<1>5. LogInOrder'
  BY <1>1 DEF IInv, LogInOrder
<1>6. MapFollowsChannel'
  <2>1. SUFFICES ASSUME NEW i \in DOMAIN log
                 PROVE  priceMap'[log[i].source] >= log[i].value
                        \/ inserting'[log[i].source] = log[i].value
    BY <1>1 DEF MapFollowsChannel
  <2>2. log[i].source \in Sources /\ log[i].value \in Nat
    BY EventFields DEF IInv, Types
  <2>3. CASE log[i].source # s
    BY <1>1, <2>2, <2>3 DEF IInv, Types, MapFollowsChannel
  <2>4. CASE log[i].source = s
    <3>1. priceMap'[s] = Taken(s)
      BY <1>1 DEF IInv, Types, Taken
    <3>2. QED
      BY <2>4, <3>1, LogTaken, <1>2, <2>2 DEF Types
  <2>5. QED
    BY <2>3, <2>4
<1>7. ClientsInOrder'
  <2>1. \A e \in Event : Taken(e.source)' = Taken(e.source)
    BY <1>3, EventFields
  <2>2. \A c \in Clients : \A i \in DOMAIN wire[c] : wire[c][i] \in Event
    BY DEF IInv, Types
  <2>3. QED
    BY <1>1, <1>3, <2>1, <2>2 DEF IInv, ClientsInOrder, ClientInOrder
<1>8. QED
  BY <1>2, <1>4, <1>5, <1>6, <1>7 DEF IInv

\* The first half of insert: what is taken is newer than all that was.
LEMMA TakeNewer ==
  ASSUME IInv, NEW s \in Sources, inbox[s] # <<>>, inserting[s] = 0,
         inserting' = [inserting EXCEPT ![s] = Head(inbox[s])],
         priceMap' = priceMap
  PROVE  /\ Head(inbox[s]) \in Nat /\ Head(inbox[s]) # 0
         /\ Taken(s)' = Head(inbox[s])
         /\ \A t \in Sources : Taken(t) <= Taken(t)' /\ Taken(t) \in Nat /\ Taken(t)' \in Nat
         /\ \A t \in Sources : t # s => Taken(t)' = Taken(t)
<1> DEFINE p == Head(inbox[s])
<1>1. inbox[s] \in Seq(Nat) /\ p \in Nat /\ p = inbox[s][1] /\ 1 \in DOMAIN inbox[s]
  BY TailMoves DEF IInv, Types
<1>2. Taken(s) < p /\ \A t \in Sources : Taken(t) \in Nat
  BY <1>1 DEF IInv, Types, InboxInOrder, Taken
<1>3. p # 0
  BY <1>1, <1>2
<1> HIDE DEF p
<1>4. \A t \in Sources : inserting'[t] = IF t = s THEN p ELSE inserting[t]
  BY DEF IInv, Types, p
<1>5. Taken(s)' = p
  BY <1>3, <1>4 DEF Taken
<1>6. \A t \in Sources : t # s => Taken(t)' = Taken(t)
  BY <1>4 DEF Taken
<1>7. QED
  BY <1>1, <1>2, <1>3, <1>5, <1>6 DEF p

LEMMA BroadcastInv == ASSUME IInv, NEW s \in Sources, Broadcast(s) PROVE IInv'
<1> DEFINE p == Head(inbox[s])
           e == [source |-> s, value |-> p]
<1>1. /\ inbox[s] # <<>> /\ inserting[s] = 0
      /\ log' = IF Receivers = {} THEN log ELSE Append(log, e)
      /\ inserting' = [inserting EXCEPT ![s] = p]
      /\ inbox' = [inbox EXCEPT ![s] = Tail(@)]
      /\ UNCHANGED <<market, priceMap, next, wire, prices>>
  BY DEF Broadcast, clientVars
<1>2. /\ p \in Nat /\ p # 0 /\ Taken(s)' = p
      /\ \A t \in Sources : Taken(t) <= Taken(t)' /\ Taken(t) \in Nat /\ Taken(t)' \in Nat
      /\ \A t \in Sources : t # s => Taken(t)' = Taken(t)
  BY <1>1, TakeNewer
<1>3. e \in Event /\ e.source = s /\ e.value = p
  BY <1>2 DEF Event
<1>4. log \in Seq(Event) /\ \A i \in DOMAIN log : log[i] \in Event /\ log[i].source \in Sources
                                                /\ log[i].value \in Nat /\ log[i].value # 0
  BY EventFields DEF IInv, Types
<1> HIDE DEF e
<1>5. \A i \in DOMAIN log, t \in Sources : log[i].source = t => log[i].value <= Taken(t)'
  <2>1. SUFFICES ASSUME NEW i \in DOMAIN log, NEW t \in Sources, log[i].source = t
                 PROVE  log[i].value <= Taken(t)'
    OBVIOUS
  <2>2. log[i].value <= Taken(log[i].source)
    BY LogTaken
  <2>3. log[i].source \in Sources /\ log[i].value \in Nat
    BY <1>4
  <2> HIDE DEF p
  <2>4. QED
    BY <1>2, <2>1, <2>2, <2>3
<1>6. /\ log' \in Seq(Event)
      /\ \A i \in DOMAIN log : i \in DOMAIN log' /\ log'[i] = log[i] /\ i \in 1..Len(log)
      /\ \A i \in DOMAIN log' : \/ i \in DOMAIN log /\ log'[i] = log[i]
                                \/ i = Len(log) + 1 /\ log'[i] = e
      /\ Len(log) \in Nat
  <2>1. CASE Receivers = {}
    BY <1>1, <1>4, <2>1
  <2>2. CASE Receivers # {}
    BY <1>1, <1>3, <1>4, <2>2, AppendMoves
  <2>3. QED
    BY <2>1, <2>2
<1> HIDE DEF p
<1>7. Types'
  <2>1. inbox[s] \in Seq(Nat) /\ Tail(inbox[s]) \in Seq(Nat)
    BY <1>1, TailMoves DEF IInv, Types
  <2>2. QED
    BY <1>1, <1>2, <1>6, <2>1 DEF IInv, Types
<1>8. InboxInOrder'
  <2>1. SUFFICES ASSUME NEW t \in Sources
                 PROVE  /\ priceMap'[t] <= Taken(t)' /\ Taken(t)' <= market'[t]
                        /\ \A i \in DOMAIN inbox'[t] :
                             Taken(t)' < inbox'[t][i] /\ inbox'[t][i] <= market'[t]
                        /\ \A i, j \in DOMAIN inbox'[t] : i < j => inbox'[t][i] < inbox'[t][j]
    BY DEF InboxInOrder
  <2>2. /\ priceMap[t] <= Taken(t) /\ Taken(t) <= market[t]
        /\ \A i \in DOMAIN inbox[t] : Taken(t) < inbox[t][i] /\ inbox[t][i] <= market[t]
        /\ \A i, j \in DOMAIN inbox[t] : i < j => inbox[t][i] < inbox[t][j]
    BY DEF IInv, InboxInOrder
  <2>3. priceMap[t] \in Nat /\ Taken(t) \in Nat /\ market[t] \in Nat
    BY DEF IInv, Types, Taken
  <2>4. CASE t # s
    <3>1. inbox'[t] = inbox[t]
      BY <1>1, <2>4 DEF IInv, Types
    <3>2. QED
      BY <1>1, <1>2, <2>2, <2>4, <3>1
  <2>5. CASE t = s
    <3>1. /\ inbox[s] \in Seq(Nat) /\ inbox'[s] = Tail(inbox[s])
          /\ p = inbox[s][1] /\ 1 \in DOMAIN inbox[s]
      BY <1>1, TailMoves DEF IInv, Types, p
    <3>2. \A i \in DOMAIN inbox'[s] : /\ i \in Nat /\ i # 0
                                      /\ i + 1 \in DOMAIN inbox[s]
                                      /\ inbox'[s][i] = inbox[s][i + 1]
      <4>1. \A i \in DOMAIN Tail(inbox[s]) :
              i \in Nat /\ i # 0 /\ i + 1 \in DOMAIN inbox[s]
              /\ Tail(inbox[s])[i] = inbox[s][i + 1]
        BY <1>1, <3>1, TailMoves
      <4>2. QED
        BY <3>1, <4>1
    <3>3. \A i \in DOMAIN inbox'[s] : p < inbox'[s][i] /\ inbox'[s][i] <= market[s]
      BY <2>2, <2>5, <3>1, <3>2
    <3>4. \A i, j \in DOMAIN inbox'[s] : i < j => inbox'[s][i] < inbox'[s][j]
      BY <2>2, <2>5, <3>2
    <3>5. priceMap[s] <= p /\ p <= market[s]
      BY <1>2, <2>2, <2>3, <2>5, <3>1
    <3>6. QED
      BY <1>1, <1>2, <2>5, <3>3, <3>4, <3>5
  <2>6. QED
    BY <2>4, <2>5
<1>9. LogInOrder'
  <2>1. SUFFICES ASSUME NEW i \in DOMAIN log', NEW j \in DOMAIN log', i < j
                 PROVE  Follows(log'[i], log'[j])
    BY DEF LogInOrder
  <2>2. i \in DOMAIN log /\ log'[i] = log[i]
    BY <1>6, <2>1
  <2>3. CASE j \in DOMAIN log /\ log'[j] = log[j]
    BY <2>1, <2>2, <2>3 DEF IInv, LogInOrder
  <2>4. CASE log'[j] = e
    <3>1. log[i].source = s => log[i].value <= Taken(s)'
      BY <1>5, <2>2
    <3>2. QED
      BY <1>2, <1>3, <2>2, <2>4, <3>1 DEF Follows
  <2>5. QED
    BY <1>6, <2>3, <2>4
<1>10. MapFollowsChannel'
  <2>1. SUFFICES ASSUME NEW i \in DOMAIN log'
                 PROVE  priceMap'[log'[i].source] >= log'[i].value
                        \/ inserting'[log'[i].source] = log'[i].value
    BY DEF MapFollowsChannel
  <2>2. CASE i \in DOMAIN log /\ log'[i] = log[i]
    <3>1. \/ priceMap[log[i].source] >= log[i].value
          \/ inserting[log[i].source] = log[i].value
      BY <2>2 DEF IInv, MapFollowsChannel
    <3>2. CASE log[i].source = s
      BY <1>1, <1>4, <2>2, <3>1, <3>2
    <3>3. CASE log[i].source # s
      BY <1>1, <1>4, <2>2, <3>1, <3>3 DEF IInv, Types
    <3>4. QED
      BY <3>2, <3>3
  <2>3. CASE log'[i] = e
    BY <1>1, <1>3, <2>3 DEF IInv, Types
  <2>4. QED
    BY <1>6, <2>2, <2>3
<1>11. ClientsInOrder'
  <2>1. SUFFICES ASSUME NEW c \in Clients
        PROVE  /\ \A t \in Sources : prices[c][t] <= Taken(t)'
               /\ \A i \in DOMAIN wire[c] :
                    /\ prices[c][wire[c][i].source] <= wire[c][i].value
                    /\ \A t \in Sources : wire[c][i].source = t => wire[c][i].value <= Taken(t)'
                    /\ \A j \in DOMAIN wire[c] : i < j => Follows(wire[c][i], wire[c][j])
               /\ next[c] # 0 =>
                    \A j \in DOMAIN log' : j >= next[c] =>
                      /\ prices[c][log'[j].source] <= log'[j].value
                      /\ \A i \in DOMAIN wire[c] : Follows(wire[c][i], log'[j])
    <3>1. \A d \in Clients : \A i \in DOMAIN wire[d] : wire[d][i].source \in Sources
      BY EventFields DEF IInv, Types
    <3>2. QED
      BY <1>1, <3>1 DEF ClientsInOrder, ClientInOrder
  <2>2. /\ \A t \in Sources : prices[c][t] \in Nat
        /\ \A i \in DOMAIN wire[c] : wire[c][i].source \in Sources /\ wire[c][i].value \in Nat
    BY EventFields DEF IInv, Types
  <2>3. \A t \in Sources : prices[c][t] <= Taken(t)'
    BY <1>2, <2>2 DEF IInv, ClientsInOrder, ClientInOrder
  <2>4. \A i \in DOMAIN wire[c], t \in Sources :
          wire[c][i].source = t => wire[c][i].value <= Taken(t)'
    <3>1. SUFFICES ASSUME NEW i \in DOMAIN wire[c], NEW t \in Sources, wire[c][i].source = t
                   PROVE  wire[c][i].value <= Taken(t)'
      OBVIOUS
    <3>2. wire[c][i].value <= Taken(wire[c][i].source)
      BY DEF IInv, ClientsInOrder, ClientInOrder
    <3>3. wire[c][i].source \in Sources /\ wire[c][i].value \in Nat
      BY <2>2
    <3>4. QED
      BY <1>2, <3>1, <3>2, <3>3
  <2>5. ASSUME next[c] # 0, NEW j \in DOMAIN log', j >= next[c]
        PROVE  /\ prices[c][log'[j].source] <= log'[j].value
               /\ \A i \in DOMAIN wire[c] : Follows(wire[c][i], log'[j])
    <3>1. CASE j \in DOMAIN log /\ log'[j] = log[j]
      BY <2>5, <3>1 DEF IInv, ClientsInOrder, ClientInOrder
    <3>2. CASE log'[j] = e
      <4>1. prices[c][s] <= p /\ Taken(s)' = p
        BY <1>2, <2>3
      <4>2. ASSUME NEW i \in DOMAIN wire[c]
            PROVE  Follows(wire[c][i], e)
        <5>1. wire[c][i].source = s => wire[c][i].value <= Taken(s)'
          BY <2>4
        <5>2. QED
          BY <1>3, <4>1, <5>1 DEF Follows
      <4>3. QED
        BY <1>3, <3>2, <4>1, <4>2
    <3>3. QED
      BY <1>6, <3>1, <3>2
  <2>6. QED
    BY <2>3, <2>4, <2>5 DEF IInv, ClientsInOrder, ClientInOrder
<1>12. QED
  BY <1>7, <1>8, <1>9, <1>10, <1>11 DEF IInv

-----------------------------------------------------------------------------
(* The handlers and the clients *)

\* A step of one client or of its handler has to care for that client only.
LEMMA OneClient ==
  ASSUME IInv, Types', NEW c \in Clients,
         UNCHANGED <<market, inbox, inserting, priceMap, log>>,
         \A d \in Clients : d # c =>
           next'[d] = next[d] /\ wire'[d] = wire[d] /\ prices'[d] = prices[d],
         ClientInOrder(c)'
  PROVE  IInv'
<1>1. \A s \in Sources : Taken(s)' = Taken(s)
  BY DEF Taken
<1>2. InboxInOrder' /\ LogInOrder' /\ MapFollowsChannel'
  BY <1>1 DEF IInv, InboxInOrder, LogInOrder, MapFollowsChannel
<1>3. ClientsInOrder'
  <2>1. SUFFICES ASSUME NEW d \in Clients PROVE ClientInOrder(d)'
    BY DEF ClientsInOrder
  <2>2. CASE d = c
    BY <2>2
  <2>3. CASE d # c
    <3>1. next'[d] = next[d] /\ wire'[d] = wire[d] /\ prices'[d] = prices[d]
      BY <2>3
    <3>2. ClientInOrder(d)
      BY DEF IInv, ClientsInOrder
    <3>3. \A i \in DOMAIN wire[d] : wire[d][i].source \in Sources
      BY EventFields DEF IInv, Types
    <3>4. QED
      BY <1>1, <3>1, <3>2, <3>3 DEF ClientInOrder
  <2>4. QED
    BY <2>2, <2>3
<1>4. QED
  BY <1>2, <1>3 DEF IInv

\* A receiver begins behind the last event.
LEMMA SubscribeInv == ASSUME IInv, NEW c \in Clients, Subscribe(c) PROVE IInv'
<1>1. /\ next' = [next EXCEPT ![c] = Len(log) + 1]
      /\ UNCHANGED <<market, inbox, inserting, priceMap, log, wire, prices>>
  BY DEF Subscribe, sourceVars, serverVars
<1>2. log \in Seq(Event) /\ Len(log) \in Nat
  BY DEF IInv, Types
<1>3. Types'
  BY <1>1, <1>2 DEF IInv, Types
<1>4. ClientInOrder(c)'
  <2>1. next'[c] = Len(log) + 1 /\ \A j \in DOMAIN log' : ~(j >= next'[c])
    BY <1>1, <1>2 DEF IInv, Types
  <2>2. ClientInOrder(c)
    BY DEF IInv, ClientsInOrder
  <2>3. \A i \in DOMAIN wire[c] : wire[c][i].source \in Sources
    BY EventFields DEF IInv, Types
  <2>4. QED
    BY <1>1, <2>1, <2>2, <2>3 DEF ClientInOrder, Taken
<1>5. QED
  BY <1>1, <1>3, <1>4, OneClient DEF IInv, Types

\* What was on the way to a client is gone, and so is its receiver.
LEMMA DisconnectInv == ASSUME IInv, NEW c \in Clients, Disconnect(c) PROVE IInv'
<1>1. /\ next' = [next EXCEPT ![c] = 0]
      /\ wire' = [wire EXCEPT ![c] = <<>>]
      /\ UNCHANGED <<market, inbox, inserting, priceMap, log, prices>>
  BY DEF Disconnect, sourceVars, serverVars
<1>2. Types'
  BY <1>1 DEF IInv, Types
<1>3. ClientInOrder(c)'
  <2>1. next'[c] = 0 /\ wire'[c] = <<>>
    BY <1>1 DEF IInv, Types
  <2>2. ClientInOrder(c)
    BY DEF IInv, ClientsInOrder
  <2>3. QED
    BY <1>1, <2>1, <2>2 DEF ClientInOrder, Taken
<1>4. QED
  BY <1>1, <1>2, <1>3, OneClient DEF IInv, Types

\* The handler passes on an event that is not in front of its receiver.
LEMMA ReceiveInv == ASSUME IInv, NEW c \in Clients, Receive(c) PROVE IInv'
<1>1. PICK k \in Nat : /\ k \in DOMAIN log /\ next[c] # 0 /\ next[c] <= k
                       /\ wire' = [wire EXCEPT ![c] = Append(@, log[k])]
                       /\ next' = [next EXCEPT ![c] = k + 1]
  <2> DEFINE i == IF next[c] < Oldest THEN Oldest ELSE next[c]
  <2>1. wire' = [wire EXCEPT ![c] = Append(@, log[i])] /\ next' = [next EXCEPT ![c] = i + 1]
    BY DEF Receive
  <2>2. next[c] \in 1..Len(log) /\ log \in Seq(Event) /\ Len(log) \in Nat
    BY DEF Receive, IInv, Types
  <2>3. Oldest \in 1..Len(log)
    BY <2>2, AggregatorAssumption DEF Oldest
  <2>4. i \in 1..Len(log) /\ next[c] <= i /\ next[c] # 0
    BY <2>2, <2>3
  <2> HIDE DEF i
  <2>5. i \in Nat /\ i \in DOMAIN log
    BY <2>2, <2>4
  <2>6. QED
    BY <2>1, <2>4, <2>5
<1>2. UNCHANGED <<market, inbox, inserting, priceMap, log, prices>>
  BY DEF Receive, sourceVars, serverVars
<1> DEFINE w == Append(wire[c], log[k])
<1>3. log[k] \in Event /\ wire[c] \in Seq(Event) /\ next[c] \in Nat
  BY <1>1 DEF IInv, Types
<1>4. /\ w \in Seq(Event) /\ Len(wire[c]) \in Nat
      /\ \A i \in DOMAIN wire[c] : i \in 1..Len(wire[c]) /\ w[i] = wire[c][i]
      /\ \A i \in DOMAIN w : \/ i \in DOMAIN wire[c] /\ w[i] = wire[c][i]
                             \/ i = Len(wire[c]) + 1 /\ w[i] = log[k]
  BY <1>3, AppendMoves
<1>5. wire' = [wire EXCEPT ![c] = w]
  BY <1>1
<1> HIDE DEF w
<1>6. Types'
  BY <1>1, <1>2, <1>4, <1>5 DEF IInv, Types
<1>7. /\ wire'[c] = w /\ next'[c] = k + 1
      /\ \A d \in Clients : d # c => next'[d] = next[d] /\ wire'[d] = wire[d]
  BY <1>1, <1>5 DEF IInv, Types
<1>8. ClientInOrder(c)
  BY DEF IInv, ClientsInOrder
<1>9. \A i \in DOMAIN w :
        /\ prices[c][w[i].source] <= w[i].value
        /\ w[i].source \in Sources /\ w[i].value <= Taken(w[i].source)
  <2>1. \A i \in DOMAIN wire[c] : wire[c][i].source \in Sources
    BY <1>3, EventFields
  <2>2. log[k].source \in Sources /\ log[k].value <= Taken(log[k].source)
        /\ prices[c][log[k].source] <= log[k].value
    BY <1>1, <1>3, <1>8, EventFields, LogTaken DEF ClientInOrder
  <2>3. QED
    BY <1>4, <1>8, <2>1, <2>2 DEF ClientInOrder
<1>10. ASSUME NEW i \in DOMAIN w, NEW j \in DOMAIN w, i < j
       PROVE  Follows(w[i], w[j])
  <2>1. i \in DOMAIN wire[c] /\ w[i] = wire[c][i]
    BY <1>4, <1>10
  <2>2. CASE j \in DOMAIN wire[c] /\ w[j] = wire[c][j]
    BY <1>8, <1>10, <2>1, <2>2 DEF ClientInOrder
  <2>3. CASE w[j] = log[k]
    BY <1>1, <1>8, <2>1, <2>3 DEF ClientInOrder
  <2>4. QED
    BY <1>4, <2>2, <2>3
<1>11. ASSUME NEW j \in DOMAIN log, j >= k + 1
       PROVE  /\ prices[c][log[j].source] <= log[j].value
              /\ \A i \in DOMAIN w : Follows(w[i], log[j])
  <2>1. j \in Nat /\ j >= next[c] /\ k < j
    BY <1>1, <1>3, <1>11 DEF IInv, Types
  <2>2. Follows(log[k], log[j])
    BY <1>1, <2>1 DEF IInv, LogInOrder
  <2>3. /\ prices[c][log[j].source] <= log[j].value
        /\ \A i \in DOMAIN wire[c] : Follows(wire[c][i], log[j])
    BY <1>1, <1>8, <2>1 DEF ClientInOrder
  <2>4. ASSUME NEW i \in DOMAIN w PROVE Follows(w[i], log[j])
    BY <1>4, <2>2, <2>3
  <2>5. QED
    BY <2>3, <2>4
<1>12. ClientInOrder(c)'
  BY <1>2, <1>7, <1>8, <1>9, <1>10, <1>11 DEF ClientInOrder, Taken
<1>13. QED
  BY <1>2, <1>6, <1>7, <1>12, OneClient

\* A client shows the first event of its stream: not older than what it shows,
\* and not newer than what follows.
LEMMA ShowInv == ASSUME IInv, NEW c \in Clients, Show(c) PROVE IInv'
<1> DEFINE e == wire[c][1]
           w == Tail(wire[c])
<1>1. /\ wire[c] \in Seq(Event) /\ wire[c] # <<>> /\ Head(wire[c]) = e
      /\ 1 \in DOMAIN wire[c] /\ w \in Seq(Event)
      /\ \A i \in DOMAIN w : i \in Nat /\ i # 0 /\ i + 1 \in DOMAIN wire[c]
                             /\ w[i] = wire[c][i + 1]
  <2>1. wire[c] \in Seq(Event) /\ wire[c] # <<>>
    BY DEF Show, IInv, Types
  <2>2. QED
    BY <2>1, TailMoves
<1>2. /\ prices' = [prices EXCEPT ![c][e.source] = e.value]
      /\ wire' = [wire EXCEPT ![c] = w]
      /\ UNCHANGED <<market, inbox, inserting, priceMap, log, next>>
  BY <1>1 DEF Show, sourceVars, serverVars
<1>3. e \in Event /\ e.source \in Sources /\ e.value \in Nat
  BY <1>1, EventFields
<1> HIDE DEF e, w
<1>4. /\ Types' /\ wire'[c] = w
      /\ \A s \in Sources : prices'[c][s] = IF s = e.source THEN e.value ELSE prices[c][s]
      /\ \A d \in Clients : d # c => wire'[d] = wire[d] /\ prices'[d] = prices[d]
  BY <1>1, <1>2, <1>3 DEF IInv, Types
<1>5. /\ ClientInOrder(c)
      /\ \A i \in DOMAIN wire[c] : wire[c][i].source \in Sources
      /\ \A i \in DOMAIN log : log[i].source \in Sources
  BY <1>1, EventFields DEF IInv, ClientsInOrder, Types
<1>6. e.value <= Taken(e.source)
  BY <1>1, <1>5 DEF ClientInOrder, e
<1>7. \A s \in Sources : prices'[c][s] <= Taken(s)
  BY <1>4, <1>5, <1>6 DEF ClientInOrder
<1>8. ASSUME NEW i \in DOMAIN w
      PROVE  /\ prices'[c][w[i].source] <= w[i].value
             /\ w[i].source \in Sources /\ w[i].value <= Taken(w[i].source)
             /\ \A j \in DOMAIN w : i < j => Follows(w[i], w[j])
  <2>1. i \in Nat /\ 1 < i + 1 /\ i + 1 \in DOMAIN wire[c] /\ w[i] = wire[c][i + 1]
    BY <1>1
  <2>2. /\ prices[c][w[i].source] <= w[i].value
        /\ w[i].source \in Sources /\ w[i].value <= Taken(w[i].source)
    BY <1>5, <2>1 DEF ClientInOrder
  <2>3. Follows(e, w[i])
    BY <1>1, <1>5, <2>1 DEF ClientInOrder, e
  <2>4. prices'[c][w[i].source] <= w[i].value
    BY <1>4, <2>2, <2>3 DEF Follows
  <2>5. ASSUME NEW j \in DOMAIN w, i < j PROVE Follows(w[i], w[j])
    <3>1. j \in Nat /\ i + 1 < j + 1 /\ j + 1 \in DOMAIN wire[c] /\ w[j] = wire[c][j + 1]
      BY <1>1, <2>1, <2>5
    <3>2. QED
      BY <1>5, <2>1, <3>1 DEF ClientInOrder
  <2>6. QED
    BY <2>2, <2>4, <2>5
<1>9. ASSUME next[c] # 0, NEW j \in DOMAIN log, j >= next[c]
      PROVE  /\ prices'[c][log[j].source] <= log[j].value
             /\ \A i \in DOMAIN w : Follows(w[i], log[j])
  <2>1. /\ prices[c][log[j].source] <= log[j].value
        /\ \A i \in DOMAIN wire[c] : Follows(wire[c][i], log[j])
    BY <1>5, <1>9 DEF ClientInOrder
  <2>2. Follows(e, log[j])
    BY <1>1, <2>1 DEF e
  <2>3. prices'[c][log[j].source] <= log[j].value
    BY <1>4, <1>5, <2>1, <2>2 DEF Follows
  <2>4. \A i \in DOMAIN w : Follows(w[i], log[j])
    BY <1>1, <2>1
  <2>5. QED
    BY <2>3, <2>4
<1>10. ClientInOrder(c)'
  BY <1>2, <1>4, <1>7, <1>8, <1>9 DEF ClientInOrder, Taken
<1>11. QED
  BY <1>2, <1>4, <1>10, OneClient

-----------------------------------------------------------------------------
LEMMA Unchanged ==
  ASSUME IInv, UNCHANGED <<market, inbox, serverVars, clientVars>>
  PROVE  IInv'
<1>1. \A s \in Sources : Taken(s)' = Taken(s)
  BY DEF Taken, serverVars
<1>2. UNCHANGED <<inserting, priceMap, log, next, wire, prices>>
  BY DEF serverVars, clientVars
<1>3. Types' /\ InboxInOrder' /\ LogInOrder' /\ MapFollowsChannel'
  BY <1>1, <1>2 DEF IInv, Types, InboxInOrder, LogInOrder, MapFollowsChannel
<1>4. ClientsInOrder'
  <2>1. \A c \in Clients : \A i \in DOMAIN wire[c] : wire[c][i].source \in Sources
    BY EventFields DEF IInv, Types
  <2>2. QED
    BY <1>1, <1>2, <2>1 DEF IInv, ClientsInOrder, ClientInOrder
<1>5. QED
  BY <1>3, <1>4 DEF IInv

LEMMA NextInv == ASSUME IInv, [Next]_vars PROVE IInv'
<1>1. CASE UNCHANGED vars
  BY <1>1, Unchanged DEF vars, sourceVars
<1>2. ASSUME NEW s \in Sources, Publish(s) PROVE IInv'
  BY <1>2, PublishInv
<1>3. ASSUME NEW s \in Sources, Hang(s) \/ ConnectFeed(s) PROVE IInv'
  BY <1>3, Unchanged DEF Hang, ConnectFeed
<1>4. ASSUME NEW s \in Sources, Broadcast(s) PROVE IInv'
  BY <1>4, BroadcastInv
<1>5. ASSUME NEW s \in Sources, Store(s) PROVE IInv'
  BY <1>5, StoreInv
<1>6. CASE CoinbaseTimeout \/ PongBlocks \/ PolygonEnds
  BY <1>6, Unchanged DEF CoinbaseTimeout, PongBlocks, PolygonEnds
<1>7. CASE CoinbaseBreaks
  <2>1. /\ inbox' = [inbox EXCEPT !["coinbase"] = <<>>]
        /\ UNCHANGED <<market, serverVars, clientVars>>
    BY <1>7 DEF CoinbaseBreaks
  <2>2. "coinbase" \in Sources /\ <<>> \in Seq(Nat)
    BY DEF Sources
  <2>3. QED
    BY <2>1, <2>2, InboxShrinks
<1>8. CASE PolygonError
  <2>1. /\ inbox["polygon"] # <<>> /\ "polygon" \in Sources
        /\ inbox' = [inbox EXCEPT !["polygon"] = Tail(inbox["polygon"])]
        /\ UNCHANGED <<market, serverVars, clientVars>>
    BY <1>8 DEF PolygonError, Sources
  <2>2. Tail(inbox["polygon"]) \in Seq(Nat)
    BY <2>1, TailMoves DEF IInv, Types
  <2>3. QED
    BY <2>1, <2>2, InboxShrinks
<1>9. ASSUME NEW c \in Clients, Subscribe(c) PROVE IInv'
  BY <1>9, SubscribeInv
<1>10. ASSUME NEW c \in Clients, Receive(c) PROVE IInv'
  BY <1>10, ReceiveInv
<1>11. ASSUME NEW c \in Clients, Show(c) PROVE IInv'
  BY <1>11, ShowInv
<1>12. ASSUME NEW c \in Clients, Disconnect(c) PROVE IInv'
  BY <1>12, DisconnectInv
<1>13. QED
  BY <1>1, <1>2, <1>3, <1>4, <1>5, <1>6, <1>7, <1>8, <1>9, <1>10, <1>11, <1>12
  DEF Next, FeedStep

\* insert broadcasts first and stores afterwards (state.rs): whatever the feeds
\* do, what the channel took is in the map or in the middle of an insert.
THEOREM MapFollows == Spec => []MapFollowsChannel
<1>1. IInv => MapFollowsChannel
  BY DEF IInv
<1>2. QED
  BY <1>1, InitInv, NextInv, PTL DEF Spec

\* A client never replaces a price of a source by an older one, whatever it or
\* the feeds lose on the way.
THEOREM NoPriceGoesBack == Spec => PricesNeverGoBack
<1>1. ASSUME IInv, [Next]_vars
      PROVE  [\A c \in Clients, s \in Sources : prices'[c][s] >= prices[c][s]]_vars
  <2>1. \A c \in Clients, s \in Sources : prices[c][s] \in Nat
    BY <1>1 DEF IInv, Types
  <2>2. ASSUME NEW d \in Clients, Show(d)
        PROVE  \A c \in Clients, s \in Sources : prices'[c][s] >= prices[c][s]
    <3> DEFINE e == wire[d][1]
    <3>1. wire[d] \in Seq(Event) /\ wire[d] # <<>>
      BY <1>1, <2>2 DEF Show, IInv, Types
    <3>2. Head(wire[d]) = e /\ 1 \in DOMAIN wire[d] /\ e \in Event
      BY <3>1, TailMoves
    <3>3. prices' = [prices EXCEPT ![d][e.source] = e.value]
      BY <2>2, <3>2 DEF Show
    <3>4. prices[d][e.source] <= e.value
      BY <1>1, <3>2 DEF IInv, ClientsInOrder, ClientInOrder
    <3>5. e.source \in Sources /\ e.value \in Nat
      BY <3>2, EventFields
    <3>6. prices \in [Clients -> [Sources -> Nat]]
      BY <1>1 DEF IInv, Types
    <3> HIDE DEF e
    <3>7. TAKE c \in Clients, s \in Sources
    <3>8. CASE c = d /\ s = e.source
      <4>1. prices'[c][s] = e.value
        BY <3>3, <3>5, <3>6, <3>8
      <4>2. QED
        BY <2>1, <3>4, <3>5, <3>8, <4>1
    <3>9. CASE ~(c = d /\ s = e.source)
      <4>1. prices'[c][s] = prices[c][s]
        BY <3>3, <3>5, <3>6, <3>9
      <4>2. QED
        BY <2>1, <4>1
    <3>10. QED
      BY <3>8, <3>9
  <2>3. CASE UNCHANGED prices
    BY <2>1, <2>3
  <2>4. (\E d \in Clients : Show(d)) \/ UNCHANGED prices
    BY <1>1 DEF Next, FeedStep, vars, clientVars, Publish, Hang, ConnectFeed, Broadcast, Store,
           CoinbaseTimeout, PongBlocks, CoinbaseBreaks, PolygonEnds, PolygonError,
           Subscribe, Receive, Disconnect
  <2>5. QED
    BY <2>2, <2>3, <2>4
<1>2. QED
  BY <1>1, InitInv, NextInv, PTL DEF Spec, PricesNeverGoBack

-----------------------------------------------------------------------------
(* Types *)

TInv ==
  /\ workers \in Workers
  /\ feed \in [Sources -> Feeds]
  /\ \A s \in Sources : market[s] <= MaxPrice[s]
  /\ since \in [Clients -> Nat]
  /\ \A c \in Clients : next[c] <= Len(log) + 1 /\ since[c] <= Len(log) + 1
  /\ failures \in 0..MaxFailures

LEMMA InitTypes == Init => TInv
<1>1. SUFFICES ASSUME Init PROVE TInv
  OBVIOUS
<1>2. /\ Len(log) = 0 /\ \A c \in Clients : next[c] = 0 /\ since[c] = 0
      /\ since \in [Clients -> Nat]
  BY <1>1 DEF Init
<1>3. /\ workers \in Workers /\ feed \in [Sources -> Feeds]
      /\ failures = 0 /\ \A s \in Sources : market[s] = 0 /\ MaxPrice[s] \in Nat
  BY <1>1, AggregatorAssumption DEF Init, Feeds
<1>4. failures \in 0..MaxFailures
  BY <1>3, AggregatorAssumption
<1>5. QED
  BY <1>2, <1>3, <1>4 DEF TInv

\* A step of the sources and the feeds.
LEMMA FeedTypes ==
  ASSUME IInv, TInv, UNCHANGED <<workers, next, since>>,
         feed' \in [Sources -> Feeds],
         Len(log') \in Nat, Len(log) <= Len(log'),
         \A s \in Sources : market'[s] <= MaxPrice[s],
         failures' \in 0..MaxFailures
  PROVE  TInv'
<1>1. Len(log) \in Nat
  BY DEF IInv, Types
<1>2. ASSUME NEW c \in Clients PROVE next[c] <= Len(log') + 1 /\ since[c] <= Len(log') + 1
  <2>1. next[c] \in Nat /\ since[c] \in Nat /\ next[c] <= Len(log) + 1 /\ since[c] <= Len(log) + 1
    BY DEF IInv, Types, TInv
  <2>2. QED
    BY <1>1, <2>1
<1>3. QED
  BY <1>2 DEF TInv

\* A step of the clients.
LEMMA ClientTypes ==
  ASSUME IInv, TInv, UNCHANGED <<workers, feed, market, log>>,
         since' \in [Clients -> Nat],
         \A c \in Clients : next'[c] <= Len(log) + 1 /\ since'[c] <= Len(log) + 1,
         failures' \in 0..MaxFailures
  PROVE  TInv'
BY DEF TInv

LEMMA NextTypes == ASSUME IInv, TInv, [Next]_vars PROVE TInv'
<1>1. /\ log \in Seq(Event) /\ Len(log) \in Nat /\ MaxFailures \in Nat
      /\ failures \in 0..MaxFailures /\ feed \in [Sources -> Feeds]
      /\ since \in [Clients -> Nat] /\ next \in [Clients -> Nat]
      /\ market \in [Sources -> Nat]
      /\ \A s \in Sources : market[s] <= MaxPrice[s] /\ MaxPrice[s] \in Nat
      /\ \A c \in Clients : next[c] <= Len(log) + 1 /\ since[c] <= Len(log) + 1
  BY AggregatorAssumption DEF IInv, Types, TInv
<1>2. ASSUME NEW s \in Sources, Publish(s) PROVE TInv'
  <2>1. /\ market' = [market EXCEPT ![s] = @ + 1] /\ market[s] < MaxPrice[s]
        /\ UNCHANGED <<workers, feed, log, next, since, failures>>
    BY <1>2 DEF Publish, serverVars, clientVars
  <2>2. \A t \in Sources : market'[t] <= MaxPrice[t]
    BY <1>1, <2>1
  <2>3. QED
    BY <1>1, <2>1, <2>2, FeedTypes
<1>3. ASSUME NEW s \in Sources, Hang(s) \/ ConnectFeed(s) PROVE TInv'
  <2>1. /\ UNCHANGED <<workers, market, log, next, since>>
        /\ failures' \in 0..MaxFailures
    BY <1>1, <1>3 DEF Hang, ConnectFeed, serverVars, clientVars
  <2>2. feed' \in [Sources -> Feeds]
    BY <1>1, <1>3 DEF Hang, ConnectFeed, Feeds
  <2>3. QED
    BY <1>1, <2>1, <2>2, FeedTypes
<1>4. ASSUME NEW s \in Sources, Broadcast(s) PROVE TInv'
  <2>1. /\ UNCHANGED <<workers, market, feed, next, since, failures>>
        /\ log' = IF Receivers = {} THEN log
                  ELSE Append(log, [source |-> s, value |-> Head(inbox[s])])
    BY <1>4 DEF Broadcast, clientVars
  <2>2. Len(log') \in Nat /\ Len(log) <= Len(log')
    BY <1>1, <2>1
  <2>3. QED
    BY <1>1, <2>1, <2>2, FeedTypes
<1>5. ASSUME NEW s \in Sources, Store(s) PROVE TInv'
  <2>1. UNCHANGED <<workers, market, feed, log, next, since, failures>>
    BY <1>5 DEF Store, sourceVars, clientVars
  <2>2. QED
    BY <1>1, <2>1, FeedTypes
<1>6. CASE CoinbaseTimeout \/ PongBlocks \/ CoinbaseBreaks \/ PolygonEnds \/ PolygonError
  <2>1. /\ UNCHANGED <<workers, market, log, next, since>>
        /\ failures' \in 0..MaxFailures
    BY <1>1, <1>6
    DEF CoinbaseTimeout, PongBlocks, CoinbaseBreaks, PolygonEnds, PolygonError, serverVars, clientVars
  <2>2. feed' \in [Sources -> Feeds]
    BY <1>1, <1>6
    DEF CoinbaseTimeout, PongBlocks, CoinbaseBreaks, PolygonEnds, PolygonError, Feeds, Sources
  <2>3. QED
    BY <1>1, <2>1, <2>2, FeedTypes
<1>7. ASSUME NEW c \in Clients, Subscribe(c) PROVE TInv'
  <2>1. /\ next' = [next EXCEPT ![c] = Len(log) + 1]
        /\ since' = [since EXCEPT ![c] = Len(log) + 1]
        /\ UNCHANGED <<workers, feed, market, log, failures>>
    BY <1>7 DEF Subscribe, sourceVars, serverVars
  <2>2. /\ since' \in [Clients -> Nat]
        /\ \A d \in Clients : next'[d] <= Len(log) + 1 /\ since'[d] <= Len(log) + 1
    BY <1>1, <2>1
  <2>3. QED
    BY <1>1, <2>1, <2>2, ClientTypes
<1>8. ASSUME NEW c \in Clients, Receive(c) PROVE TInv'
  <2> DEFINE i == IF next[c] < Oldest THEN Oldest ELSE next[c]
  <2>1. next' = [next EXCEPT ![c] = i + 1] /\ next[c] \in 1..Len(log)
        /\ UNCHANGED <<workers, feed, market, log, since, failures>>
    BY <1>8 DEF Receive, sourceVars, serverVars
  <2>2. Oldest \in 1..Len(log)
    BY <1>1, <2>1, AggregatorAssumption DEF Oldest
  <2>3. i \in Nat /\ i + 1 <= Len(log) + 1
    BY <1>1, <2>1, <2>2
  <2> HIDE DEF i
  <2>4. \A d \in Clients : next'[d] <= Len(log) + 1
    BY <1>1, <2>1, <2>3
  <2>5. QED
    BY <1>1, <2>1, <2>4, ClientTypes
<1>9. ASSUME NEW c \in Clients, Show(c) PROVE TInv'
  <2>1. UNCHANGED <<workers, feed, market, log, next, since, failures>>
    BY <1>9 DEF Show, sourceVars, serverVars
  <2>2. QED
    BY <1>1, <2>1, ClientTypes
<1>10. ASSUME NEW c \in Clients, Disconnect(c) PROVE TInv'
  <2>1. /\ next' = [next EXCEPT ![c] = 0] /\ failures' \in 0..MaxFailures
        /\ UNCHANGED <<workers, feed, market, log, since>>
    BY <1>1, <1>10 DEF Disconnect, sourceVars, serverVars
  <2>2. \A d \in Clients : next'[d] <= Len(log) + 1
    BY <1>1, <2>1
  <2>3. QED
    BY <1>1, <2>1, <2>2, ClientTypes
<1>11. CASE UNCHANGED vars
  BY <1>11 DEF vars, sourceVars, serverVars, clientVars, TInv
<1>12. QED
  BY <1>2, <1>3, <1>4, <1>5, <1>6, <1>7, <1>8, <1>9, <1>10, <1>11 DEF Next, FeedStep

\* A price that is in a socket, in an insert, in the map or shown was published.
THEOREM TypeCorrect == Spec => []TypeOK
<1>1. ASSUME IInv, TInv PROVE TypeOK
  <2>1. ASSUME NEW s \in Sources
        PROVE  /\ market[s] \in 0..MaxPrice[s] /\ feed[s] \in Feeds
               /\ {inserting[s], priceMap[s]} \subseteq 0..market[s]
               /\ \A i \in DOMAIN inbox[s] : inbox[s][i] \in 1..market[s]
    <3>1. /\ market[s] \in Nat /\ inserting[s] \in Nat /\ priceMap[s] \in Nat
          /\ MaxPrice[s] \in Nat /\ market[s] <= MaxPrice[s] /\ feed[s] \in Feeds
          /\ inbox[s] \in Seq(Nat)
      BY <1>1, AggregatorAssumption DEF IInv, Types, TInv
    <3>2. /\ priceMap[s] <= Taken(s) /\ Taken(s) <= market[s] /\ Taken(s) \in Nat
          /\ \A i \in DOMAIN inbox[s] : Taken(s) < inbox[s][i] /\ inbox[s][i] <= market[s]
      BY <1>1, <3>1 DEF IInv, InboxInOrder, Taken
    <3>3. inserting[s] <= Taken(s)
      BY <3>1 DEF Taken
    <3>4. \A i \in DOMAIN inbox[s] : inbox[s][i] \in Nat
      BY <3>1
    <3>5. QED
      BY <3>1, <3>2, <3>3, <3>4
  <2>2. ASSUME NEW c \in Clients
        PROVE  /\ next[c] \in 0..(Len(log) + 1) /\ since[c] \in 0..(Len(log) + 1)
               /\ wire[c] \in Seq(Event)
               /\ \A s \in Sources : prices[c][s] \in 0..market[s]
    <3>1. Len(log) \in Nat
      BY <1>1 DEF IInv, Types
    <3>2. next[c] \in 0..(Len(log) + 1) /\ since[c] \in 0..(Len(log) + 1)
      BY <1>1, <3>1 DEF IInv, Types, TInv
    <3>3. ASSUME NEW s \in Sources PROVE prices[c][s] \in 0..market[s]
      <4>1. prices[c][s] \in Nat /\ market[s] \in Nat /\ Taken(s) \in Nat
        BY <1>1 DEF IInv, Types, Taken
      <4>2. prices[c][s] <= Taken(s) /\ Taken(s) <= market[s]
        BY <1>1 DEF IInv, ClientsInOrder, ClientInOrder, InboxInOrder
      <4>3. QED
        BY <4>1, <4>2
    <3>4. wire[c] \in Seq(Event)
      BY <1>1 DEF IInv, Types
    <3>5. QED
      BY <3>2, <3>3, <3>4
  <2>3. QED
    BY <1>1, <2>1, <2>2 DEF IInv, Types, TInv, TypeOK
<1>2. QED
  BY <1>1, InitInv, NextInv, InitTypes, NextTypes, PTL DEF Spec
=============================================================================
