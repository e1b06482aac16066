------------------------- MODULE Broadcaster_proofs -------------------------
(* Proofs of the safety properties of Broadcaster, for any number of         *)
(* subscribers and connections and every channel capacity.                  *)
EXTENDS Broadcaster, SequenceTheorems, TLAPS

\* A call that was not made has left no trace, and no subscriber is ahead of
\* the stream.
Untouched ==
  \A s \in Subs :
    /\ first[s] <= latest
    /\ s \in subs => subscribed[s] = "made"
    /\ subscribed[s] = "new" => /\ s \notin subs
                               /\ closes[s] = 0 /\ dropping[s] = 0
                               /\ buf[s] = <<>> /\ got[s] = <<>>

\* The inductive invariant.
IInv == BroadcasterTypeOK /\ Untouched /\ NoPanic /\ OneStream /\ NothingMissed

-----------------------------------------------------------------------------
(* What a subscriber gets, as a sequence *)

\* Receiving an item moves it from the channel to the consumer.
LEMMA ReceiveKeeps ==
  ASSUME NEW g \in Seq(Nat), NEW b \in Seq(Nat), b # <<>>
  PROVE  Append(g, Head(b)) \o Tail(b) = g \o b
<1> DEFINE l == Append(g, Head(b)) \o Tail(b)
           r == g \o b
<1>1. Head(b) \in Nat /\ Tail(b) \in Seq(Nat) /\ Len(Tail(b)) = Len(b) - 1
      /\ Append(g, Head(b)) \in Seq(Nat) /\ Len(b) \in Nat \ {0} /\ Len(g) \in Nat
  BY HeadTailProperties, EmptySeq, LenProperties
<1>2. l \in Seq(Nat) /\ r \in Seq(Nat) /\ Len(l) = Len(r)
  BY <1>1, ConcatProperties
<1>3. ASSUME NEW i \in 1..Len(l) PROVE l[i] = r[i]
  BY <1>1, <1>2, ConcatProperties, HeadTailProperties
<1> QED
  BY <1>2, <1>3, SeqEqual

\* A sent item comes last.
LEMMA SendAppends ==
  ASSUME NEW g \in Seq(Nat), NEW b \in Seq(Nat), NEW x \in Nat
  PROVE  /\ g \o Append(b, x) \in Seq(Nat)
         /\ g \o b \in Seq(Nat)
         /\ g \o Append(b, x) = Append(g \o b, x)
<1> DEFINE l == g \o Append(b, x)
           r == Append(g \o b, x)
<1>1. Append(b, x) \in Seq(Nat) /\ Len(Append(b, x)) = Len(b) + 1
      /\ Len(b) \in Nat /\ Len(g) \in Nat /\ g \o b \in Seq(Nat)
      /\ Len(g \o b) = Len(g) + Len(b)
  BY ConcatProperties, LenProperties
<1>2. l \in Seq(Nat) /\ r \in Seq(Nat) /\ Len(l) = Len(r)
  BY <1>1, ConcatProperties
<1>3. ASSUME NEW i \in 1..Len(l) PROVE l[i] = r[i]
  BY <1>1, <1>2, ConcatProperties
<1> QED
  BY <1>1, <1>2, <1>3, SeqEqual

\* The numbers after a, n of them, and one more.
LEMMA NumbersAppend ==
  ASSUME NEW a \in Nat, NEW n \in Nat
  PROVE  /\ [i \in 1..n |-> a + i] \in Seq(Nat)
         /\ Append([i \in 1..n |-> a + i], a + n + 1) = [i \in 1..(n + 1) |-> a + i]
<1> DEFINE num(m) == [i \in 1..m |-> a + i]
           l == Append(num(n), a + n + 1)
           r == num(n + 1)
<1>1. ASSUME NEW m \in Nat PROVE num(m) \in Seq(Nat) /\ Len(num(m)) = m
  OBVIOUS
<1>2. l \in Seq(Nat) /\ Len(l) = n + 1 /\ r \in Seq(Nat) /\ Len(r) = n + 1
  BY <1>1
<1>3. ASSUME NEW i \in 1..(n + 1) PROVE l[i] = r[i]
  BY <1>1
<1> QED
  BY <1>1, <1>2, <1>3, SeqEqual
-----------------------------------------------------------------------------
(* The invariant *)

\* The invariant holds before anything has happened.
LEMMA InitIInv == BroadcasterInit => IInv
<1> SUFFICES ASSUME BroadcasterInit PROVE IInv
  OBVIOUS
<1>1. BroadcasterTypeOK
  <2>1. buf \in [Subs -> Seq(Nat)] /\ got \in [Subs -> Seq(Nat)]
    BY EmptySeq DEF BroadcasterInit
  <2>2. \A s \in Subs : Len(buf[s]) <= Cap
    <3> SUFFICES ASSUME NEW s \in Subs PROVE Len(buf[s]) <= Cap
      OBVIOUS
    <3>1. buf[s] = <<>>
      BY DEF BroadcasterInit
    <3> QED
      BY <3>1, BroadcasterAssumption
  <2>3. closes \in [Subs -> Nat] /\ dropping \in [Subs -> Nat] /\ first \in [Subs -> Nat]
    BY DEF BroadcasterInit
  <2> QED
    BY <2>1, <2>2, <2>3 DEF BroadcasterTypeOK, BroadcasterInit, Active
<1>2. Untouched
  <2> SUFFICES ASSUME NEW s \in Subs
               PROVE  /\ first[s] <= latest
                      /\ s \notin subs
                      /\ closes[s] = 0 /\ dropping[s] = 0
                      /\ buf[s] = <<>> /\ got[s] = <<>>
    BY DEF Untouched
  <2>1. first[s] = 0 /\ latest = 0
    BY DEF BroadcasterInit
  <2>2. first[s] <= latest
    BY <2>1
  <2> QED
    BY <2>2 DEF BroadcasterInit
<1>3. NoPanic
  <2> SUFFICES ASSUME NEW s \in Subs PROVE closes[s] <= (IF s \in subs THEN 0 ELSE 1)
    BY DEF NoPanic
  <2>1. closes[s] = 0
    BY DEF BroadcasterInit
  <2> QED
    BY <2>1
<1>4. NothingMissed
  BY DEF NothingMissed, BroadcasterInit
<1>5. OneStream
  BY DEF OneStream, Active, BroadcasterInit
<1> QED
  BY <1>1, <1>2, <1>3, <1>4, <1>5 DEF IInv

\* unsub takes one channel out of the map and closes no other.
LEMMA UnsubType ==
  ASSUME BroadcasterTypeOK, NEW s \in Subs, unsub(s)
  PROVE  closes' \in [Subs -> Nat] /\ subs' \in SUBSET Subs
BY DEF BroadcasterTypeOK, unsub

\* Every step keeps the types.
LEMMA NextTypeOK == BroadcasterTypeOK /\ [BroadcasterNext]_broadcasterVars => BroadcasterTypeOK'
<1> SUFFICES ASSUME BroadcasterTypeOK, [BroadcasterNext]_broadcasterVars PROVE BroadcasterTypeOK'
  OBVIOUS
<1> USE BroadcasterAssumption DEF BroadcasterTypeOK, connVars, history, Active
<1>1. ASSUME NEW s \in Subs, Subscribe(s) PROVE BroadcasterTypeOK'
  BY <1>1 DEF Subscribe, register
<1>2. ASSUME NEW s \in Subs, start(s) PROVE BroadcasterTypeOK'
  BY <1>2 DEF start, register
<1>3. ASSUME NEW s \in Subs, startErr(s) PROVE BroadcasterTypeOK'
  BY <1>3 DEF startErr
<1>4. ASSUME NEW s \in Subs, EndContext(s) PROVE BroadcasterTypeOK'
  BY <1>4 DEF EndContext
<1>5. ASSUME NEW s \in Subs, unsubCancelled(s) PROVE BroadcasterTypeOK'
  <2>1. closes' \in [Subs -> Nat] /\ subs' \in SUBSET Subs
    BY <1>5, UnsubType DEF unsubCancelled
  <2> QED
    BY <1>5, <2>1 DEF unsubCancelled
<1>6. ASSUME NEW s \in Subs, unsubSlow(s) PROVE BroadcasterTypeOK'
  <2>1. closes' \in [Subs -> Nat] /\ subs' \in SUBSET Subs
    BY <1>6, UnsubType DEF unsubSlow
  <2> QED
    <3>1. dropping' \in [Subs -> Nat]
      BY <1>6 DEF unsubSlow
    <3> QED
      BY <1>6, <2>1, <3>1 DEF unsubSlow
<1>7. ASSUME NEW s \in Subs, Receive(s) PROVE BroadcasterTypeOK'
  <2>0. buf[s] \in Seq(Nat) /\ buf[s] # <<>> /\ Len(buf[s]) <= Cap
    BY <1>7 DEF Receive
  <2>1. Head(buf[s]) \in Nat /\ Tail(buf[s]) \in Seq(Nat) /\ Len(Tail(buf[s])) <= Cap
    BY <2>0, HeadTailProperties, LenProperties
  <2>2. got' \in [Subs -> Seq(Nat)] /\ buf' \in [Subs -> Seq(Nat)]
    BY <1>7, <2>1 DEF Receive
  <2>3. \A t \in Subs : Len(buf'[t]) <= Cap
    BY <1>7, <2>1 DEF Receive
  <2> QED
    BY <1>7, <2>2, <2>3 DEF Receive
<1>8. ASSUME NEW c \in Conns, Deliver(c) PROVE BroadcasterTypeOK'
  BY <1>8 DEF Deliver
<1>9. ASSUME NEW c \in Conns, InputClosed(c) PROVE BroadcasterTypeOK'
  BY <1>9 DEF InputClosed
<1>10. ASSUME NEW c \in Conns, broadcast(c) PROVE BroadcasterTypeOK'
  <2>1. ASSUME NEW s \in Subs
        PROVE  /\ Append(buf[s], latest + 1) \in Seq(Nat)
               /\ Len(Append(buf[s], latest + 1)) = Len(buf[s]) + 1
               /\ Len(buf[s]) \in Nat
    BY LenProperties
  <2>2. buf' \in [Subs -> Seq(Nat)]
    BY <1>10, <2>1 DEF broadcast
  <2>3. \A s \in Subs : Len(buf'[s]) <= Cap
    BY <1>10, <2>1 DEF broadcast, hasRoom
  <2> QED
    BY <1>10, <2>2, <2>3 DEF broadcast
<1>11. ASSUME NEW c \in Conns, finish(c) PROVE BroadcasterTypeOK'
  <2>1. closes' \in [Subs -> Nat]
    BY <1>11 DEF finish
  <2> QED
    BY <1>11, <2>1 DEF finish
<1>12. CASE UNCHANGED broadcasterVars
  BY <1>12 DEF broadcasterVars
<1> QED
  BY <1>1, <1>2, <1>3, <1>4, <1>5, <1>6, <1>7, <1>8, <1>9, <1>10, <1>11, <1>12
  DEF BroadcasterNext

\* Nothing happens to a call of Subscribe before it is made.
LEMMA NextUntouched == BroadcasterTypeOK /\ Untouched /\ [BroadcasterNext]_broadcasterVars => Untouched'
<1> SUFFICES ASSUME BroadcasterTypeOK, Untouched, [BroadcasterNext]_broadcasterVars PROVE Untouched'
  OBVIOUS
<1> USE DEF BroadcasterTypeOK, Untouched, connVars, history
<1>1. ASSUME NEW s \in Subs, Subscribe(s) \/ start(s) PROVE Untouched'
  BY <1>1 DEF Subscribe, start, register
<1>2. ASSUME NEW s \in Subs, startErr(s) \/ EndContext(s) PROVE Untouched'
  BY <1>2 DEF startErr, EndContext
<1>3. ASSUME NEW s \in Subs, unsubCancelled(s) PROVE Untouched'
  BY <1>3 DEF unsubCancelled, unsub
<1>4. ASSUME NEW s \in Subs, unsubSlow(s) PROVE Untouched'
  BY <1>4 DEF unsubSlow, unsub
<1>5. ASSUME NEW s \in Subs, Receive(s) PROVE Untouched'
  BY <1>5 DEF Receive
<1>6. ASSUME NEW c \in Conns, Deliver(c) \/ InputClosed(c) PROVE Untouched'
  BY <1>6 DEF Deliver, InputClosed
<1>7. ASSUME NEW c \in Conns, broadcast(c) PROVE Untouched'
  BY <1>7 DEF broadcast
<1>8. ASSUME NEW c \in Conns, finish(c) PROVE Untouched'
  BY <1>8 DEF finish
<1>9. CASE UNCHANGED broadcasterVars
  BY <1>9 DEF broadcasterVars
<1> QED
  BY <1>1, <1>2, <1>3, <1>4, <1>5, <1>6, <1>7, <1>8, <1>9 DEF BroadcasterNext

\* No step closes a channel twice, or one that stays in the map.
LEMMA NextNoPanic == BroadcasterTypeOK /\ Untouched /\ NoPanic /\ [BroadcasterNext]_broadcasterVars => NoPanic'
<1> SUFFICES ASSUME BroadcasterTypeOK, Untouched, NoPanic, [BroadcasterNext]_broadcasterVars PROVE NoPanic'
  OBVIOUS
<1> USE DEF BroadcasterTypeOK, NoPanic, connVars
<1>1. ASSUME NEW s \in Subs, Subscribe(s) \/ start(s) PROVE NoPanic'
  BY <1>1 DEF Subscribe, start, register, Untouched
<1>2. ASSUME NEW s \in Subs, startErr(s) \/ EndContext(s) \/ Receive(s) PROVE NoPanic'
  BY <1>2 DEF startErr, EndContext, Receive
<1>3. ASSUME NEW s \in Subs, unsub(s) PROVE NoPanic'
  BY <1>3 DEF unsub
<1>4. ASSUME NEW s \in Subs, unsubCancelled(s) \/ unsubSlow(s) PROVE NoPanic'
  BY <1>3, <1>4 DEF unsubCancelled, unsubSlow
<1>5. ASSUME NEW c \in Conns, Deliver(c) \/ InputClosed(c) \/ broadcast(c) PROVE NoPanic'
  BY <1>5 DEF Deliver, InputClosed, broadcast
<1>6. ASSUME NEW c \in Conns, finish(c) PROVE NoPanic'
  BY <1>6 DEF finish
<1>7. CASE UNCHANGED broadcasterVars
  BY <1>7 DEF broadcasterVars
<1> QED
  BY <1>1, <1>2, <1>4, <1>5, <1>6, <1>7 DEF BroadcasterNext

\* A stream starts only when there is none, and the last thing it does is to
\* say so.
LEMMA NextOneStream == BroadcasterTypeOK /\ OneStream /\ [BroadcasterNext]_broadcasterVars => OneStream'
<1> SUFFICES ASSUME BroadcasterTypeOK, OneStream, [BroadcasterNext]_broadcasterVars PROVE OneStream'
  OBVIOUS
<1> USE DEF BroadcasterTypeOK, OneStream, Active, connVars
<1>1. ASSUME NEW s \in Subs, Subscribe(s) PROVE OneStream'
  BY <1>1 DEF Subscribe, register
<1>2. ASSUME NEW s \in Subs, start(s) PROVE OneStream'
  <2>1. PICK c \in Conns : stream[c] = "none" /\ stream' = [stream EXCEPT ![c] = "reading"]
    BY <1>2 DEF start
  <2>2. \A d \in Conns : stream[d] \notin Active
    BY <1>2 DEF start
  <2>3. \A d \in Conns : stream'[d] \in Active <=> d = c
    BY <2>1, <2>2
  <2> QED
    BY <1>2, <2>3 DEF start
<1>3. ASSUME NEW s \in Subs, startErr(s) \/ EndContext(s) \/ Receive(s) PROVE OneStream'
  BY <1>3 DEF startErr, EndContext, Receive
<1>4. ASSUME NEW s \in Subs, unsubCancelled(s) \/ unsubSlow(s) PROVE OneStream'
  BY <1>4 DEF unsubCancelled, unsubSlow, unsub
<1>5. ASSUME NEW c \in Conns, Deliver(c) \/ InputClosed(c) \/ broadcast(c) PROVE OneStream'
  <2>1. \A d \in Conns : stream'[d] \in Active <=> stream[d] \in Active
    BY <1>5 DEF Deliver, InputClosed, broadcast
  <2> QED
    BY <1>5, <2>1 DEF Deliver, InputClosed, broadcast
<1>6. ASSUME NEW c \in Conns, finish(c) PROVE OneStream'
  <2>1. \A d \in Conns : stream'[d] \notin Active
    BY <1>6 DEF finish
  <2> QED
    BY <1>6, <2>1 DEF finish
<1>7. CASE UNCHANGED broadcasterVars
  BY <1>7 DEF broadcasterVars
<1> QED
  BY <1>1, <1>2, <1>3, <1>4, <1>5, <1>6, <1>7 DEF BroadcasterNext

\* Every item reaches each subscriber, or starts the goroutine that ends the
\* subscription.
LEMMA NextNothingMissed ==
  BroadcasterTypeOK /\ Untouched /\ NothingMissed /\ [BroadcasterNext]_broadcasterVars => NothingMissed'
<1> SUFFICES ASSUME BroadcasterTypeOK, Untouched, NothingMissed, [BroadcasterNext]_broadcasterVars,
                    NEW t \in subs', dropping'[t] = 0
             PROVE  got'[t] \o buf'[t]
                      = [i \in 1..(latest' - first'[t]) |-> first'[t] + i]
  BY DEF NothingMissed, SentTo
<1> DEFINE Kept == /\ t \in subs /\ dropping[t] = 0
                   /\ got'[t] \o buf'[t] = got[t] \o buf[t]
                   /\ latest' = latest /\ first'[t] = first[t]
           Goal == got'[t] \o buf'[t]
                     = [i \in 1..(latest' - first'[t]) |-> first'[t] + i]
<1>k. ASSUME Kept PROVE Goal
  BY <1>k DEF NothingMissed, SentTo
<1>1. ASSUME NEW s \in Subs, Subscribe(s) \/ start(s) PROVE Goal
  <2>0. register(s) /\ subscribed[s] = "new"
    BY <1>1 DEF Subscribe, start
  <2>1. CASE t = s
    <3>1. got'[t] = <<>> /\ buf'[t] = <<>> /\ first'[t] = latest /\ latest' = latest
      BY <2>0, <2>1 DEF register, Untouched, BroadcasterTypeOK
    <3>2. latest \in Nat
      BY DEF BroadcasterTypeOK
    <3>3. [i \in 1..(latest - latest) |-> latest + i] = <<>>
      BY <3>2
    <3>4. <<>> \o <<>> = <<>>
      BY ConcatEmptySeq, EmptySeq
    <3> QED
      BY <3>1, <3>3, <3>4
  <2>2. CASE t # s
    BY <1>k, <2>0, <2>2 DEF register, BroadcasterTypeOK
  <2> QED
    BY <2>1, <2>2
<1>2. ASSUME NEW s \in Subs, startErr(s) \/ EndContext(s) PROVE Goal
  BY <1>2, <1>k DEF startErr, EndContext, connVars, history
<1>3. ASSUME NEW s \in Subs, unsubCancelled(s) PROVE Goal
  BY <1>3, <1>k DEF unsubCancelled, unsub, connVars, history
<1>4. ASSUME NEW s \in Subs, unsubSlow(s) PROVE Goal
  <2>1. t # s /\ t \in subs
    BY <1>4 DEF unsubSlow, unsub
  <2>2. t \in Subs
    BY <2>1 DEF BroadcasterTypeOK
  <2> QED
    BY <1>4, <1>k, <2>1, <2>2 DEF unsubSlow, BroadcasterTypeOK, connVars, history
<1>5. ASSUME NEW s \in Subs, Receive(s) PROVE Goal
  <2>1. t \in subs /\ t \in Subs /\ dropping[t] = 0 /\ latest' = latest /\ first'[t] = first[t]
    BY <1>5 DEF Receive, BroadcasterTypeOK, connVars
  <2>2. CASE t = s
    <3>1. /\ got[t] \in Seq(Nat) /\ buf[t] \in Seq(Nat) /\ buf[t] # <<>>
          /\ got'[t] = Append(got[t], Head(buf[t])) /\ buf'[t] = Tail(buf[t])
      BY <1>5, <2>1, <2>2 DEF Receive, BroadcasterTypeOK
    <3>2. got'[t] \o buf'[t] = got[t] \o buf[t]
      BY <3>1, ReceiveKeeps
    <3> QED
      BY <1>k, <2>1, <3>2
  <2>3. CASE t # s
    BY <1>5, <1>k, <2>1, <2>3 DEF Receive, BroadcasterTypeOK
  <2> QED
    BY <2>2, <2>3
<1>6. ASSUME NEW c \in Conns, Deliver(c) \/ InputClosed(c) PROVE Goal
  BY <1>6, <1>k DEF Deliver, InputClosed, history
<1>7. ASSUME NEW c \in Conns, broadcast(c) PROVE Goal
  <2>1. /\ t \in subs /\ t \in Subs /\ first'[t] = first[t] /\ got'[t] = got[t]
        /\ latest' = latest + 1
    BY <1>7 DEF broadcast, BroadcasterTypeOK, history
  <2>2. first[t] \in Nat /\ latest \in Nat /\ first[t] <= latest /\ dropping[t] \in Nat
        /\ got[t] \in Seq(Nat) /\ buf[t] \in Seq(Nat)
    BY <2>1 DEF BroadcasterTypeOK, Untouched
  <2>3. hasRoom(t) /\ dropping[t] = 0
    <3>1. dropping'[t] = IF hasRoom(t) THEN dropping[t] ELSE dropping[t] + 1
      BY <1>7, <2>1 DEF broadcast
    <3> QED
      BY <2>2, <3>1
  <2>4. buf'[t] = Append(buf[t], latest + 1)
    BY <1>7, <2>1, <2>3 DEF broadcast
  <2>5. got[t] \o buf[t] = [i \in 1..(latest - first[t]) |-> first[t] + i]
    BY <2>1, <2>3 DEF NothingMissed, SentTo
  <2>6. got'[t] \o buf'[t] = Append(got[t] \o buf[t], latest + 1)
    <3>1. latest + 1 \in Nat
      BY <2>2
    <3>2. got[t] \o Append(buf[t], latest + 1) = Append(got[t] \o buf[t], latest + 1)
      BY <2>2, <3>1, SendAppends
    <3> QED
      BY <2>1, <2>4, <3>2
  <2> DEFINE n == latest - first[t]
  <2>7. n \in Nat /\ first[t] + n + 1 = latest + 1 /\ n + 1 = (latest + 1) - first[t]
    BY <2>2
  <2>8. Append([i \in 1..n |-> first[t] + i], first[t] + n + 1)
          = [i \in 1..(n + 1) |-> first[t] + i]
    BY <2>2, <2>7, NumbersAppend
  <2>9. got'[t] \o buf'[t] = [i \in 1..(n + 1) |-> first[t] + i]
    BY <2>5, <2>6, <2>7, <2>8
  <2>10. [i \in 1..(n + 1) |-> first[t] + i]
           = [i \in 1..(latest' - first'[t]) |-> first'[t] + i]
    BY <2>1, <2>7
  <2> QED
    BY <2>9, <2>10
<1>8. ASSUME NEW c \in Conns, finish(c) PROVE Goal
  BY <1>8 DEF finish
<1>9. CASE UNCHANGED broadcasterVars
  BY <1>9, <1>k DEF broadcasterVars
<1> QED
  BY <1>1, <1>2, <1>3, <1>4, <1>5, <1>6, <1>7, <1>8, <1>9 DEF BroadcasterNext

-----------------------------------------------------------------------------
(* The theorems *)

\* The invariant holds in every reachable state.
THEOREM Invariance == BroadcasterSpec => []IInv
<1>1. IInv /\ [BroadcasterNext]_broadcasterVars => IInv'
  BY NextTypeOK, NextUntouched, NextNoPanic, NextOneStream, NextNothingMissed DEF IInv
<1> QED
  BY InitIInv, <1>1, PTL DEF BroadcasterSpec

\* No variable leaves its type, and no channel holds more than its capacity.
THEOREM TypeCorrect == BroadcasterSpec => []BroadcasterTypeOK
BY Invariance, PTL DEF IInv

\* Neither stream nor unsub ever closes a closed channel or sends to one,
\* whatever the order of cancellations, slow consumers and ends of input.
THEOREM NeverPanics == BroadcasterSpec => []NoPanic
BY Invariance, PTL DEF IInv

\* There is one stream while the broadcaster runs and none otherwise, and
\* there are subscribers only while it runs.
THEOREM SingleStream == BroadcasterSpec => []OneStream
BY Invariance, PTL DEF IInv

\* A subscriber that nobody is about to unsubscribe has got every item since
\* Subscribe, in order.
THEOREM NoSilentGap == BroadcasterSpec => []NothingMissed
BY Invariance, PTL DEF IInv
=============================================================================
