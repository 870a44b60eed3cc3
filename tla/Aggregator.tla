------------------------------ MODULE Aggregator ------------------------------
(***************************************************************************)
(* The price aggregator of Rust/aave_aggregator-master.  Two feed tasks,   *)
(* Coinbase and Polygon, insert prices into a map and into a bounded       *)
(* broadcast channel; a handler task per client forwards the channel as    *)
(* server-sent events; a client keeps the latest price of every source.    *)
(*                                                                         *)
(* A price stands for its place in the order its source published it.      *)
(* The log of the channel is kept whole; what the channel still holds is   *)
(* its last Capacity events.  Messages of a source that carry no price     *)
(* change nothing and are left out.                                        *)
(***************************************************************************)
EXTENDS Integers, Sequences, SequencesExt, FiniteSets

CONSTANTS
  Clients,
  Capacity,     \* server_broadcast_channel_capacity
  Workers,      \* numbers of worker threads the runtime may have
  MaxPrice,     \* bound: source -> prices it publishes
  MaxOnTheWay,  \* bound: messages in a socket or in a stream to a client
  MaxFailures   \* bound: connections and streams that break

Sources == {"coinbase", "polygon"}

ASSUME AggregatorAssumption ==
  /\ Capacity \in Nat \ {0} /\ Workers \subseteq Nat \ {0}
  /\ MaxPrice \in [Sources -> Nat]
  /\ MaxOnTheWay \in Nat \ {0} /\ MaxFailures \in Nat

VARIABLES
  workers,
  market,     \* source -> the price it published last
  inbox,      \* source -> prices in the socket of its feed
  feed,       \* source -> state of its feed task
  inserting,  \* source -> price that was broadcast and is not stored, or 0
  priceMap,   \* source -> price, 0 for no entry
  log,        \* every event the channel took
  next,       \* client -> index of the next event of its receiver, 0 without
  since,      \* history: client -> index its receiver began with
  wire,       \* client -> events on the way to it
  prices,     \* client -> what it shows
  failures

serverVars == <<inserting, priceMap, log>>
sourceVars == <<market, inbox, feed>>
clientVars == <<next, since, wire, prices>>
vars == <<workers, sourceVars, serverVars, clientVars, failures>>

\* A stuck feed waits for a call that has no timeout and will not return.
Feeds == {"connecting", "up", "hung", "stuck", "ended", "dead"}

\* A Polygon feed whose stream has ended polls it for ever, without a pause.
Spinning == feed["polygon"] = "ended"

\* A task takes a step on a worker thread that no other task holds.
FreeWorker ==
  Cardinality({s \in Sources : inserting[s] # 0}) + (IF Spinning THEN 1 ELSE 0) < workers

Receivers == {c \in Clients : next[c] # 0}

\* Index of the oldest event the channel still holds.
Oldest == IF Len(log) > Capacity THEN Len(log) - Capacity + 1 ELSE 1

Init ==
  /\ workers \in Workers
  /\ market = [s \in Sources |-> 0]
  /\ inbox = [s \in Sources |-> <<>>]
  /\ feed = [s \in Sources |-> "connecting"]
  /\ inserting = [s \in Sources |-> 0]
  /\ priceMap = [s \in Sources |-> 0]
  /\ log = <<>>
  /\ next = [c \in Clients |-> 0]
  /\ since = [c \in Clients |-> 0]
  /\ wire = [c \in Clients |-> <<>>]
  /\ prices = [c \in Clients |-> [s \in Sources |-> 0]]
  /\ failures = 0

-----------------------------------------------------------------------------
(* The sources *)

\* A source publishes a price: a feed that is up gets it.
Publish(s) ==
  /\ market[s] < MaxPrice[s]
  /\ feed[s] = "up" => Len(inbox[s]) < MaxOnTheWay
  /\ market' = [market EXCEPT ![s] = @ + 1]
  /\ inbox' = [inbox EXCEPT ![s] = IF feed[s] = "up" THEN Append(@, market[s] + 1) ELSE @]
  /\ UNCHANGED <<workers, feed, serverVars, clientVars, failures>>

\* A connection breaks without a word: nothing arrives any more.
Hang(s) ==
  /\ feed[s] = "up"
  /\ failures < MaxFailures
  /\ failures' = failures + 1
  /\ feed' = [feed EXCEPT ![s] = "hung"]
  /\ UNCHANGED <<workers, market, inbox, serverVars, clientVars>>

-----------------------------------------------------------------------------
(* The feed tasks *)

\* A feed connects and subscribes.  What fails here panics, which ends the task;
\* a peer that does not answer keeps it waiting, as there is no timeout.
ConnectFeed(s) ==
  /\ feed[s] = "connecting" /\ FreeWorker
  /\ \/ feed' = [feed EXCEPT ![s] = "up"] /\ UNCHANGED failures
     \/ /\ failures < MaxFailures
        /\ failures' = failures + 1
        /\ \E f \in {"dead", "stuck"} : feed' = [feed EXCEPT ![s] = f]
  /\ UNCHANGED <<workers, market, inbox, serverVars, clientVars>>

\* Mistake: the message loop waits without a timeout.
CoinbaseTimeout_Never ==
  /\ feed["coinbase"] = "up"
  /\ inbox["coinbase"] = <<>> /\ inserting["coinbase"] = 0 /\ FreeWorker
  /\ feed' = [feed EXCEPT !["coinbase"] = "connecting"]
  /\ UNCHANGED <<workers, market, inbox, serverVars, clientVars, failures>>

\* No message for 60 seconds: the feed connects anew.
CoinbaseTimeout ==
  /\ feed["coinbase"] \in {"up", "hung"}
  /\ inbox["coinbase"] = <<>> /\ inserting["coinbase"] = 0 /\ FreeWorker
  /\ feed' = [feed EXCEPT !["coinbase"] = "connecting"]
  /\ UNCHANGED <<workers, market, inbox, serverVars, clientVars, failures>>

\* The reply to a ping, which has no timeout, does not leave.
PongBlocks ==
  /\ feed["coinbase"] = "up" /\ inserting["coinbase"] = 0 /\ FreeWorker
  /\ failures < MaxFailures
  /\ failures' = failures + 1
  /\ feed' = [feed EXCEPT !["coinbase"] = "stuck"]
  /\ UNCHANGED <<workers, market, inbox, serverVars, clientVars>>

\* The connection ends or reports an error, with messages lost.
CoinbaseBreaks ==
  /\ feed["coinbase"] = "up" /\ inserting["coinbase"] = 0 /\ FreeWorker
  /\ failures < MaxFailures
  /\ failures' = failures + 1
  /\ feed' = [feed EXCEPT !["coinbase"] = "connecting"]
  /\ inbox' = [inbox EXCEPT !["coinbase"] = <<>>]
  /\ UNCHANGED <<workers, market, serverVars, clientVars>>

\* The stream of events ends: from then on next() returns None at once.
PolygonEnds ==
  /\ feed["polygon"] = "up" /\ inserting["polygon"] = 0 /\ FreeWorker
  /\ inbox["polygon"] = <<>>
  /\ failures < MaxFailures
  /\ failures' = failures + 1
  /\ feed' = [feed EXCEPT !["polygon"] = "ended"]
  /\ UNCHANGED <<workers, market, inbox, serverVars, clientVars>>

\* An item of the stream is an error.
PolygonError ==
  /\ feed["polygon"] = "up" /\ inserting["polygon"] = 0 /\ FreeWorker
  /\ inbox["polygon"] # <<>>
  /\ failures < MaxFailures
  /\ failures' = failures + 1
  /\ inbox' = [inbox EXCEPT !["polygon"] = Tail(@)]
  /\ UNCHANGED <<workers, market, feed, serverVars, clientVars>>

\* Mistake: the price in the map is broadcast, which is the previous one.
Broadcast_OldPrice(s) ==
  /\ feed[s] \in {"up", "hung"}
  /\ inbox[s] # <<>> /\ inserting[s] = 0 /\ FreeWorker
  /\ log' = IF Receivers = {} THEN log
            ELSE Append(log, [source |-> s, value |-> priceMap[s]])
  /\ inserting' = [inserting EXCEPT ![s] = Head(inbox[s])]
  /\ inbox' = [inbox EXCEPT ![s] = Tail(@)]
  /\ UNCHANGED <<workers, market, feed, priceMap, clientVars, failures>>

\* A price arrives, and the first half of insert: the channel takes the event
\* if it has a receiver.
Broadcast(s) ==
  /\ feed[s] \in {"up", "hung"}
  /\ inbox[s] # <<>> /\ inserting[s] = 0 /\ FreeWorker
  /\ log' = IF Receivers = {} THEN log
            ELSE Append(log, [source |-> s, value |-> Head(inbox[s])])
  /\ inserting' = [inserting EXCEPT ![s] = Head(inbox[s])]
  /\ inbox' = [inbox EXCEPT ![s] = Tail(@)]
  /\ UNCHANGED <<workers, market, feed, priceMap, clientVars, failures>>

\* Mistake: only the missing entry is written.
Store_OnlyFirst(s) ==
  /\ inserting[s] # 0
  /\ priceMap' = [priceMap EXCEPT ![s] = IF @ = 0 THEN inserting[s] ELSE @]
  /\ inserting' = [inserting EXCEPT ![s] = 0]
  /\ UNCHANGED <<workers, sourceVars, log, clientVars, failures>>

\* The second half of insert; the task holds its worker thread in between.
Store(s) ==
  /\ inserting[s] # 0
  /\ priceMap' = [priceMap EXCEPT ![s] = inserting[s]]
  /\ inserting' = [inserting EXCEPT ![s] = 0]
  /\ UNCHANGED <<workers, sourceVars, log, clientVars, failures>>

-----------------------------------------------------------------------------
(* The handlers and the clients *)

\* Mistake: a new receiver starts with the events the channel still holds.
Subscribe_Replays(c) ==
  /\ next[c] = 0 /\ FreeWorker
  /\ next' = [next EXCEPT ![c] = Oldest]
  /\ since' = [since EXCEPT ![c] = Oldest]
  /\ UNCHANGED <<workers, sourceVars, serverVars, wire, prices, failures>>

\* A client connects, and its handler gets a receiver: of later events only.
Subscribe(c) ==
  /\ next[c] = 0 /\ FreeWorker
  /\ next' = [next EXCEPT ![c] = Len(log) + 1]
  /\ since' = [since EXCEPT ![c] = Len(log) + 1]
  /\ UNCHANGED <<workers, sourceVars, serverVars, wire, prices, failures>>

\* Mistake: the handler's stream ends at the first error.
Receive_StopsOnLag(c) ==
  /\ next[c] \in Oldest..Len(log) /\ Len(wire[c]) < MaxOnTheWay /\ FreeWorker
  /\ wire' = [wire EXCEPT ![c] = Append(@, log[next[c]])]
  /\ next' = [next EXCEPT ![c] = @ + 1]
  /\ UNCHANGED <<workers, sourceVars, serverVars, since, prices, failures>>

\* recv() in the loop of the handler: the next event, or, when the channel
\* does not hold it any more, an error and then the oldest event it holds.
\* The handler waits while the stream to the client is full.
Receive(c) ==
  /\ next[c] \in 1..Len(log) /\ Len(wire[c]) < MaxOnTheWay /\ FreeWorker
  /\ LET i == (IF next[c] < Oldest THEN Oldest ELSE next[c])
     IN  /\ wire' = [wire EXCEPT ![c] = Append(@, log[i])]
         /\ next' = [next EXCEPT ![c] = i + 1]
  /\ UNCHANGED <<workers, sourceVars, serverVars, since, prices, failures>>

\* A client enters an event into its map.
Show(c) ==
  /\ wire[c] # <<>>
  /\ LET event == Head(wire[c])
     IN  prices' = [prices EXCEPT ![c][event.source] = event.value]
  /\ wire' = [wire EXCEPT ![c] = Tail(@)]
  /\ UNCHANGED <<workers, sourceVars, serverVars, next, since, failures>>

\* The stream to a client breaks; the client library connects again.
Disconnect(c) ==
  /\ next[c] # 0
  /\ failures < MaxFailures
  /\ failures' = failures + 1
  /\ next' = [next EXCEPT ![c] = 0]
  /\ wire' = [wire EXCEPT ![c] = <<>>]
  /\ UNCHANGED <<workers, sourceVars, serverVars, since, prices>>

-----------------------------------------------------------------------------

FeedStep(s) == ConnectFeed(s) \/ Broadcast(s) \/ Store(s)

Next ==
  \/ \E s \in Sources : Publish(s) \/ Hang(s) \/ FeedStep(s)
  \/ CoinbaseTimeout \/ PongBlocks \/ CoinbaseBreaks \/ PolygonEnds \/ PolygonError
  \/ \E c \in Clients : Subscribe(c) \/ Receive(c) \/ Show(c) \/ Disconnect(c)

\* The runtime runs every task that can go on, if it has a thread for it; an
\* attempt to connect returns, panics or is stuck; an open Coinbase connection
\* that says nothing times out; a client reads what has come.
Fairness ==
  /\ \A s \in Sources : WF_vars(ConnectFeed(s)) /\ WF_vars(Broadcast(s)) /\ WF_vars(Store(s))
  /\ WF_vars(CoinbaseTimeout /\ feed["coinbase"] = "hung")
  /\ \A c \in Clients : WF_vars(Receive(c)) /\ WF_vars(Show(c))

Spec == Init /\ [][Next]_vars /\ Fairness

-----------------------------------------------------------------------------
(* Properties *)

Event == [source : Sources, value : Nat \ {0}]

\* Types; a price that is being inserted or shown was published.
TypeOK ==
  /\ workers \in Workers
  /\ \A s \in Sources :
       /\ market[s] \in 0..MaxPrice[s]
       /\ feed[s] \in Feeds
       /\ {inserting[s], priceMap[s]} \subseteq 0..market[s]
       /\ \A i \in DOMAIN inbox[s] : inbox[s][i] \in 1..market[s]
  /\ log \in Seq(Event)
  /\ \A c \in Clients :
       /\ next[c] \in 0..(Len(log) + 1) /\ since[c] \in 0..(Len(log) + 1)
       /\ wire[c] \in Seq(Event)
       /\ \A s \in Sources : prices[c][s] \in 0..market[s]
  /\ failures \in 0..MaxFailures

\* insert broadcasts first and stores afterwards: what subscribers have been sent
\* is in the map, or in the middle of an insert of its source, and never newer.
MapFollowsChannel ==
  \A i \in DOMAIN log :
    LET e == log[i] IN priceMap[e.source] >= e.value \/ inserting[e.source] = e.value

\* Whatever a client misses, by lagging, reconnecting or because its source
\* reconnects, it never replaces a price of a source by an older one.
PricesNeverGoBack ==
  [][\A c \in Clients, s \in Sources : prices'[c][s] >= prices[c][s]]_vars

\* An ended Polygon stream holds the only worker thread.
Starved == Spinning /\ workers = 1

\* A client that stays connected ends with every price the channel still holds
\* since it subscribed, however far its receiver fell behind (routes.rs goes on
\* after an error), unless the ended Polygon stream holds the only thread.
ClientsCatchUp ==
  \A c \in Clients :
    <>[](next[c] = 0 \/ Starved \/
         \A i \in since[c]..Len(log) :
           i >= Oldest => prices[c][log[i].source] >= log[i].value)

\* A Coinbase connection that falls silent does not stay so: after the timeout
\* it is opened again.  Two things may go wrong with that, in spite of the loop
\* around it: the attempt fails, whose expect ends the task, or never returns.
HungFeedReturns ==
  feed["coinbase"] = "hung" ~> feed["coinbase"] \in {"up", "dead", "stuck"} \/ Starved
=============================================================================
