----------------------------- MODULE Broadcaster -----------------------------
(***************************************************************************)
(* pkg/broadcast: one input channel is copied to any number of subscribers.*)
(* The first Subscribe connects to the input and starts the goroutine      *)
(* stream; the end of the input closes every subscription, and a later     *)
(* Subscribe connects anew.  A subscriber whose buffer is full misses the  *)
(* item and a goroutine is started to unsubscribe it; another one waits    *)
(* for the end of the subscriber's context to do the same.                 *)
(*                                                                         *)
(* The mutex makes every critical section one step.  None of them blocks:  *)
(* sends under the lock are non-blocking.                                  *)
(***************************************************************************)
EXTENDS Naturals, Sequences

CONSTANTS Subs,     \* calls of Subscribe, each with its channel and context
          Conns,    \* connections to the input, each with its stream
          Cap,      \* capacity of a subscriber's channel (100 in the code)
          MaxItems  \* bound on items of the inputs

ASSUME BroadcasterAssumption == Cap \in Nat \ {0} /\ MaxItems \in Nat

VARIABLES running,    \* Broadcaster.running
          subs,       \* Broadcaster.subs: the channels in the map
          stream,     \* stream[c]: where the goroutine of connection c is
          subscribed, \* subscribed[s]: the call of Subscribe s: new (not made), failed, made
          buf,        \* buf[s]: items in the channel
          closes,     \* closes[s]: how often the channel was closed
          dropping,   \* dropping[s]: pending unsub goroutines of a slow consumer
          watcher,    \* watcher[s]: the goroutine that waits for s's context
          latest,     \* items broadcast so far; they are numbered
          first,      \* history: latest at the time of Subscribe
          got         \* history: items received by the consumer

broadcasterVars == <<running, subs, stream, subscribed, buf, closes, dropping, watcher,
                     latest, first, got>>
connVars == <<running, stream, latest>>
history == <<first, got>>

Active == {"reading", "holding", "eof"}

-----------------------------------------------------------------------------
\* The map entry, the channel and the goroutine of a successful Subscribe
register(s) ==
  /\ subs' = subs \cup {s}
  /\ subscribed' = [subscribed EXCEPT ![s] = "made"]
  /\ watcher' = [watcher EXCEPT ![s] = "waiting"]
  /\ first' = [first EXCEPT ![s] = latest]
  /\ UNCHANGED <<buf, closes, dropping, got, latest>>

Subscribe(s) ==
  /\ subscribed[s] = "new"
  /\ running
  /\ register(s)
  /\ UNCHANGED <<running, stream>>

\* start: a new connection and a new stream
start(s) ==
  /\ subscribed[s] = "new"
  /\ ~running
  /\ \E c \in Conns : /\ stream[c] = "none"
                      /\ stream' = [stream EXCEPT ![c] = "reading"]
  /\ running' = TRUE
  /\ register(s)

\* start: connect fails and Subscribe returns its error.
startErrRunning(s) ==
  /\ subscribed[s] = "new"
  /\ ~running
  /\ running' = TRUE
  /\ register(s)
  /\ UNCHANGED stream
startErr(s) ==
  /\ subscribed[s] = "new"
  /\ ~running
  /\ subscribed' = [subscribed EXCEPT ![s] = "failed"]
  /\ UNCHANGED <<subs, buf, closes, dropping, watcher, connVars, history>>

\* unsub: closes the channel unless it has left the map already
unsubAlways(s) ==
  /\ closes' = [closes EXCEPT ![s] = @ + 1]
  /\ subs' = subs \ {s}
unsub(s) ==
  /\ closes' = [closes EXCEPT ![s] = IF s \in subs THEN @ + 1 ELSE @]
  /\ subs' = subs \ {s}

\* The goroutine that waits for the context (whose end is external)
EndContext(s) ==
  /\ watcher[s] = "waiting"
  /\ watcher' = [watcher EXCEPT ![s] = "cancelled"]
  /\ UNCHANGED <<subs, subscribed, buf, closes, dropping, connVars, history>>
unsubCancelled(s) ==
  /\ watcher[s] = "cancelled"
  /\ watcher' = [watcher EXCEPT ![s] = "done"]
  /\ unsub(s)
  /\ UNCHANGED <<subscribed, buf, dropping, connVars, history>>

\* The goroutine of a slow consumer
unsubSlow(s) ==
  /\ dropping[s] > 0
  /\ dropping' = [dropping EXCEPT ![s] = @ - 1]
  /\ unsub(s)
  /\ UNCHANGED <<subscribed, buf, watcher, connVars, history>>

-----------------------------------------------------------------------------
(* stream *)

\* The input delivers an item (external).
Deliver(c) ==
  /\ stream[c] = "reading"
  /\ latest < MaxItems
  /\ stream' = [stream EXCEPT ![c] = "holding"]
  /\ UNCHANGED <<running, subs, subscribed, buf, closes, dropping, watcher, latest, history>>

\* The input is closed (external): the loop ends.
InputClosed(c) ==
  /\ stream[c] = "reading"
  /\ stream' = [stream EXCEPT ![c] = "eof"]
  /\ UNCHANGED <<running, subs, subscribed, buf, closes, dropping, watcher, latest, history>>

hasRoomAtCap(s) == Len(buf[s]) <= Cap
hasRoom(s) == Len(buf[s]) < Cap

\* The loop's body: the item goes to every subscriber that has room for it.
broadcastDrops(c) ==
  /\ stream[c] = "holding"
  /\ stream' = [stream EXCEPT ![c] = "reading"]
  /\ latest' = latest + 1
  /\ buf' = [s \in Subs |-> IF s \in subs /\ hasRoom(s)
                            THEN Append(buf[s], latest + 1) ELSE buf[s]]
  /\ UNCHANGED <<running, subs, subscribed, closes, dropping, watcher, history>>
broadcast(c) ==
  /\ stream[c] = "holding"
  /\ stream' = [stream EXCEPT ![c] = "reading"]
  /\ latest' = latest + 1
  /\ buf' = [s \in Subs |-> IF s \in subs /\ hasRoom(s)
                            THEN Append(buf[s], latest + 1) ELSE buf[s]]
  /\ dropping' = [s \in Subs |-> IF s \in subs /\ ~hasRoom(s)
                                 THEN dropping[s] + 1 ELSE dropping[s]]
  /\ UNCHANGED <<running, subs, subscribed, closes, watcher, history>>

\* After the loop: every subscription is closed, the next one connects anew.
finishLeavesSubs(c) ==
  /\ stream[c] = "eof"
  /\ stream' = [stream EXCEPT ![c] = "done"]
  /\ running' = FALSE
  /\ UNCHANGED <<subs, closes, subscribed, buf, dropping, watcher, latest, history>>
finish(c) ==
  /\ stream[c] = "eof"
  /\ stream' = [stream EXCEPT ![c] = "done"]
  /\ closes' = [s \in Subs |-> IF s \in subs THEN closes[s] + 1 ELSE closes[s]]
  /\ subs' = {}
  /\ running' = FALSE
  /\ UNCHANGED <<subscribed, buf, dropping, watcher, latest, history>>

\* The consumer receives an item (external), also from a closed channel.
Receive(s) ==
  /\ buf[s] # <<>>
  /\ got' = [got EXCEPT ![s] = Append(@, Head(buf[s]))]
  /\ buf' = [buf EXCEPT ![s] = Tail(@)]
  /\ UNCHANGED <<subs, subscribed, closes, dropping, watcher, connVars, first>>

-----------------------------------------------------------------------------
BroadcasterInit ==
  /\ running = FALSE
  /\ subs = {}
  /\ stream = [c \in Conns |-> "none"]
  /\ subscribed = [s \in Subs |-> "new"]
  /\ buf = [s \in Subs |-> <<>>]
  /\ closes = [s \in Subs |-> 0]
  /\ dropping = [s \in Subs |-> 0]
  /\ watcher = [s \in Subs |-> "none"]
  /\ latest = 0
  /\ first = [s \in Subs |-> 0]
  /\ got = [s \in Subs |-> <<>>]

BroadcasterNext ==
  \/ \E s \in Subs : \/ Subscribe(s) \/ start(s) \/ startErr(s) \/ EndContext(s)
                     \/ unsubCancelled(s) \/ unsubSlow(s) \/ Receive(s)
  \/ \E c \in Conns : Deliver(c) \/ InputClosed(c) \/ broadcast(c) \/ finish(c)

\* Goroutines run; inputs, contexts and consumers may stop for ever.
BroadcasterFairness ==
  /\ \A s \in Subs : WF_broadcasterVars(unsubCancelled(s)) /\ WF_broadcasterVars(unsubSlow(s))
  /\ \A c \in Conns : WF_broadcasterVars(broadcast(c)) /\ WF_broadcasterVars(finish(c))

BroadcasterSpec == BroadcasterInit /\ [][BroadcasterNext]_broadcasterVars /\ BroadcasterFairness

-----------------------------------------------------------------------------
(* Properties *)

\* Every variable has its type, and no channel holds more than it can.
BroadcasterTypeOK ==
  /\ running \in BOOLEAN
  /\ subs \in SUBSET Subs
  /\ stream \in [Conns -> Active \cup {"none", "done"}]
  /\ subscribed \in [Subs -> {"new", "failed", "made"}]
  /\ buf \in [Subs -> Seq(Nat)]
  /\ \A s \in Subs : Len(buf[s]) <= Cap
  /\ closes \in [Subs -> Nat]
  /\ dropping \in [Subs -> Nat]
  /\ watcher \in [Subs -> {"none", "waiting", "cancelled", "done"}]
  /\ latest \in Nat
  /\ first \in [Subs -> Nat]
  /\ got \in [Subs -> Seq(Nat)]

\* Neither stream nor unsub panics: no channel is closed twice, although a
\* slow consumer, its context and the end of the input each close it, and no
\* channel that stream may send to is closed.
NoPanic ==
  \A s \in Subs : closes[s] <= (IF s \in subs THEN 0 ELSE 1)

\* There is a stream exactly while running says so, and only one: no item is
\* broadcast twice, and no subscriber hangs on a broadcaster without input
\* (Subscribe, start, the end of stream).
OneStream ==
  /\ running <=> \E c \in Conns : stream[c] \in Active
  /\ \A c, d \in Conns : stream[c] \in Active /\ stream[d] \in Active => c = d
  /\ subs # {} => running

SentTo(s) == got[s] \o buf[s]

\* A subscriber that is not about to be unsubscribed has got every item since
\* it subscribed, in order (stream): a gap is always followed by the close.
NothingMissed ==
  \A s \in subs :
    dropping[s] = 0 => SentTo(s) = [i \in 1..(latest - first[s]) |-> first[s] + i]

\* A subscriber whose context ended, that missed an item, or whose input was
\* closed finds its channel closed in the end (the unsub goroutines, stream).
EventuallyClosed ==
  \A s \in Subs :
    \/ watcher[s] = "cancelled"
    \/ dropping[s] > 0
    \/ s \in subs /\ \E c \in Conns : stream[c] = "eof"
    ~> closes[s] = 1
=============================================================================
