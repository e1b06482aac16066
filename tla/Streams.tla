------------------------------ MODULE Streams -------------------------------
(***************************************************************************)
(* Two goroutines that feed a channel until they are told to stop: that of *)
(* ticker.Context (pkg/ticker) and that of Watch in the summary client     *)
(* (pkg/summary/client/simple.go).  Both channels have no buffer, so that  *)
(* an item is sent when the consumer receives it.                          *)
(***************************************************************************)
EXTENDS Naturals

CONSTANT MaxEvents   \* ticks, and events of the watch

VARIABLES tick,      \* the ticker's goroutine: "select", "send" or "closed"
          ticks,     \* [pending: ticker.C holds one, left: how many may come]
          watch,     \* the watch's goroutine: "range", "send" or "closed"
          source,    \* resp: [events: to be read, left, open: not yet stopped or ended]
          done,      \* the contexts that are cancelled
          reading    \* the consumers that still receive
streamVars == <<tick, ticks, watch, source, done, reading>>

StreamsInit ==
    /\ tick = "select" /\ ticks = [pending |-> FALSE, left |-> MaxEvents]
    /\ watch = "range" /\ source = [events |-> 0, left |-> MaxEvents, open |-> TRUE]
    /\ done = {} /\ reading = {"ticker", "watch"}

\* A consumer gives up without a word.
Leave(c) ==
    /\ c \in reading
    /\ reading' = reading \ {c}
    /\ UNCHANGED <<tick, ticks, watch, source, done>>

-----------------------------------------------------------------------------
(***************************************************************************)
(* ticker.go                                                               *)
(***************************************************************************)

\* time.Ticker: a tick that nobody has taken yet is not doubled.
Tick ==
    /\ tick # "closed" /\ ticks.left > 0
    /\ ticks' = [pending |-> TRUE, left |-> ticks.left - 1]
    /\ UNCHANGED <<tick, watch, source, done, reading>>

CancelTicker ==
    /\ done' = done \cup {"ticker"}
    /\ "ticker" \notin done
    /\ UNCHANGED <<tick, ticks, watch, source, reading>>

TickTaken ==
    /\ tick = "select" /\ ticks.pending
    /\ tick' = "send" /\ ticks' = [ticks EXCEPT !.pending = FALSE]
    /\ UNCHANGED <<watch, source, done, reading>>

\* The send is outside the select: the end of the context does not end it.
TickSent ==
    /\ tick = "send" /\ "ticker" \in reading
    /\ tick' = "select"
    /\ UNCHANGED <<ticks, watch, source, done, reading>>

TickerDone ==
    /\ tick = "select" /\ "ticker" \in done
    /\ tick' = "closed"
    /\ UNCHANGED <<ticks, watch, source, done, reading>>

-----------------------------------------------------------------------------
(***************************************************************************)
(* simple.go                                                               *)
(***************************************************************************)

\* The API server sends an event, or ends the watch.
Event ==
    /\ source.open /\ source.left > 0
    /\ source' = [source EXCEPT !.events = @ + 1, !.left = @ - 1]
    /\ UNCHANGED <<tick, ticks, watch, done, reading>>

End ==
    /\ source.open
    /\ source' = [source EXCEPT !.open = FALSE]
    /\ UNCHANGED <<tick, ticks, watch, done, reading>>

\* watcher.Stop cancels the context, then stops the watch below.
Cancel ==
    /\ "watch" \notin done
    /\ done' = done \cup {"watch"}
    /\ UNCHANGED <<tick, ticks, watch, source, reading>>

Stop ==
    /\ "watch" \in done /\ source.open
    /\ source' = [source EXCEPT !.open = FALSE]
    /\ UNCHANGED <<tick, ticks, watch, done, reading>>

\* range over resp.ResultChan: an event is summarized; after the last one the
\* channel is closed and the context cancelled.
RangeWatch ==
    /\ watch = "range"
    /\ \/ /\ source.events > 0
          /\ watch' = "send" /\ source' = [source EXCEPT !.events = @ - 1]
          /\ UNCHANGED done
       \/ /\ source.events = 0 /\ ~source.open
          /\ watch' = "closed" /\ done' = done \cup {"watch"}
          /\ UNCHANGED source
    /\ UNCHANGED <<tick, ticks, reading>>

Sent ==
    /\ watch = "send" /\ "watch" \in reading
    /\ watch' = "range"
    /\ UNCHANGED <<tick, ticks, source, done, reading>>

\* A bug: the event is sent outside the select.
WatchDoneNever == watch = "send" /\ FALSE /\ UNCHANGED streamVars

WatchDone ==
    /\ watch = "send" /\ "watch" \in done
    /\ watch' = "closed"
    /\ UNCHANGED <<tick, ticks, source, done, reading>>

StreamsNext ==
    \/ \E c \in {"ticker", "watch"} : Leave(c)
    \/ Tick \/ CancelTicker \/ TickTaken \/ TickSent \/ TickerDone
    \/ Event \/ End \/ Cancel \/ Stop \/ RangeWatch \/ Sent \/ WatchDone

\* A goroutine that can go on does so; a select that finds the context done
\* time and again takes that case in the end, as it chooses at random.  A
\* consumer that has not left receives, and a Stop that has begun ends.
StreamsFairness ==
    /\ WF_streamVars(TickTaken) /\ WF_streamVars(TickSent) /\ SF_streamVars(TickerDone)
    /\ WF_streamVars(RangeWatch) /\ WF_streamVars(Sent) /\ SF_streamVars(WatchDone)
    /\ WF_streamVars(Stop)

\* The channel of a ticker is closed after the end of the context unless the
\* consumer stopped receiving, and that of a watch after Stop whether anyone
\* receives or not, so that no goroutine of a watch is left behind.
StreamsEnd ==
    /\ "ticker" \in done ~> tick = "closed" \/ "ticker" \notin reading
    /\ "watch" \in done ~> watch = "closed"
=============================================================================
