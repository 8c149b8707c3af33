---------------------------- MODULE ServerProofs ----------------------------
(***************************************************************************)
(* Proofs about Server for every number of connections and every capacity  *)
(* of the channels: the fan-out never sends on a closed queue and nobody   *)
(* misses the newest output; on their way from outputChan over lastOutput  *)
(* and a listener's queue to the client outputs never overtake each other, *)
(* and what a queue holds last is the newest a listener has been given.    *)
(***************************************************************************)
EXTENDS Server, SequenceTheorems, TLAPS

-----------------------------------------------------------------------------
\* The steps of Next, one by one.
LEMMA NextCases ==
  ASSUME [Next]_vars
  PROVE  \/ tick \/ receive \/ storeLast \/ rLock \/ rUnlock
         \/ \E c \in Conns :
               \/ offer(c) \/ tooSlow(c) \/ drain(c) \/ push(c)
               \/ addListener(c) \/ accept(c) \/ takePayload(c) \/ write(c)
               \/ submit(c) \/ submitPanics(c)
               \/ readerGone(c) \/ cancel(c) \/ waitReader(c)
               \/ removeListener(c) \/ closeMsgs(c)
               \/ readMessage(c) \/ readError(c) \/ queueMessage(c)
               \/ queueCancelled(c)
         \/ \E s \in Savers : loadLast(s) \/ writeSeed(s)
         \/ UNCHANGED vars
  BY DEF Next, fanStep, handlerStep, readerStep, saveStep

LEMMA TypeInit == Init => TypeOK
<1> SUFFICES ASSUME Init PROVE TypeOK
  OBVIOUS
<1>1. outputChan \in Seq(Nat) /\ Len(outputChan) <= OutCap
  BY CapacityAssumption DEF Init
<1>2. msgs \in [Conns -> Seq(Nat)] /\ pending \in [Conns -> 0 .. ReaderCap]
  BY CapacityAssumption DEF Init
<1> QED  BY <1>1, <1>2 DEF Init, TypeOK

\* Every step keeps the types.
LEMMA TypeStep == TypeOK /\ [Next]_vars => TypeOK'
<1> SUFFICES ASSUME TypeOK, [Next]_vars PROVE TypeOK'
  OBVIOUS
<1> USE CapacityAssumption DEF TypeOK, engine, registry, fanout, handlers, readers,
      saving, clients, At, Goto
<1>1. CASE tick
  BY <1>1 DEF tick, Output, offered
<1>2. CASE receive
  BY <1>2 DEF receive
<1>3. CASE storeLast
  BY <1>3 DEF storeLast
<1>4. CASE rLock
  BY <1>4 DEF rLock
<1>5. CASE rUnlock
  BY <1>5 DEF rUnlock
<1>6. ASSUME NEW c \in Conns, offer(c) PROVE TypeOK'
  <2>1. msgs[c] \in Seq(Nat) /\ queued(msgs[c], o) \in Seq(Nat)
    BY AppendProperties DEF queued
  <2> QED  BY <1>6, <2>1 DEF offer
<1>7. ASSUME NEW c \in Conns, tooSlow(c) PROVE TypeOK'
  BY <1>7 DEF tooSlow, makeRoom
<1>8. ASSUME NEW c \in Conns, drain(c) PROVE TypeOK'
  <2>1. msgs[c] \in Seq(Nat) /\ drained(msgs[c]) \in Seq(Nat)
    BY <1>8, HeadTailProperties DEF drain, drained
  <2> QED  BY <1>8, <2>1 DEF drain
<1>9. ASSUME NEW c \in Conns, push(c) PROVE TypeOK'
  <2>1. msgs[c] \in Seq(Nat) /\ queued(msgs[c], o) \in Seq(Nat)
    BY AppendProperties DEF queued
  <2> QED  BY <1>9, <2>1 DEF push
<1>10. ASSUME NEW c \in Conns, addListener(c) PROVE TypeOK'
  BY <1>10 DEF addListener, CanLock
<1>11. ASSUME NEW c \in Conns, accept(c) PROVE TypeOK'
  BY <1>11 DEF accept
<1>12. ASSUME NEW c \in Conns, takePayload(c) PROVE TypeOK'
  <2>1. Head(msgs[c]) \in Nat /\ Tail(msgs[c]) \in Seq(Nat)
    BY <1>12, HeadTailProperties DEF takePayload
  <2> QED  BY <1>12, <2>1 DEF takePayload
<1>13. ASSUME NEW c \in Conns, write(c) PROVE TypeOK'
  BY <1>13 DEF write, afterError
<1>14. ASSUME NEW c \in Conns, submit(c) PROVE TypeOK'
  <2>1. pending[c] - 1 \in 0 .. ReaderCap
    BY <1>14 DEF submit
  <2>2. CASE Output /\ edit' = [edit EXCEPT ![c] = world']
    <3>1. world' \in Nat /\ outputChan' \in Seq(Nat) /\ Len(outputChan') <= OutCap
      BY <2>2, AppendProperties DEF Output, offered
    <3> QED  BY <1>14, <2>1, <2>2, <3>1 DEF submit
  <2>3. CASE UNCHANGED <<engine, edit>>
    BY <1>14, <2>1, <2>3 DEF submit
  <2> QED  BY <1>14, <2>2, <2>3 DEF submit
<1>15. ASSUME NEW c \in Conns, submitPanics(c) \/ readerGone(c) PROVE TypeOK'
  <2>1. CASE submitPanics(c)
    <3>1. pending[c] - 1 \in 0 .. ReaderCap
      BY <2>1 DEF submitPanics
    <3> QED  BY <2>1, <3>1 DEF submitPanics
  <2>2. CASE readerGone(c)
    BY <2>2 DEF readerGone
  <2> QED  BY <1>15, <2>1, <2>2
<1>16. ASSUME NEW c \in Conns, cancel(c) PROVE TypeOK'
  BY <1>16 DEF cancel, wsCancel
<1>17. ASSUME NEW c \in Conns, waitReader(c) PROVE TypeOK'
  BY <1>17 DEF waitReader
<1>18. ASSUME NEW c \in Conns, removeListener(c) PROVE TypeOK'
  BY <1>18 DEF removeListener, CanLock
<1>19. ASSUME NEW c \in Conns, closeMsgs(c) PROVE TypeOK'
  BY <1>19 DEF closeMsgs
<1>20. ASSUME NEW c \in Conns, readMessage(c) PROVE TypeOK'
  BY <1>20 DEF readMessage
<1>21. ASSUME NEW c \in Conns, readError(c) PROVE TypeOK'
  BY <1>21 DEF readError
<1>22. ASSUME NEW c \in Conns, queueMessage(c) PROVE TypeOK'
  BY <1>22 DEF queueMessage, hasRoom
<1>23. ASSUME NEW c \in Conns, queueCancelled(c) PROVE TypeOK'
  BY <1>23 DEF queueCancelled
<1>24. ASSUME NEW s \in Savers, loadLast(s) PROVE TypeOK'
  BY <1>24 DEF loadLast
<1>25. ASSUME NEW s \in Savers, writeSeed(s) PROVE TypeOK'
  <2>1. loaded[s] \in Nat
    OBVIOUS
  <2> QED  BY <1>25, <2>1 DEF writeSeed, upserted
<1>26. CASE UNCHANGED vars
  BY <1>26 DEF vars
<1> QED
  BY <1>1, <1>2, <1>3, <1>4, <1>5, <1>6, <1>7, <1>8, <1>9, <1>10, <1>11, <1>12,
     <1>13, <1>14, <1>15, <1>16, <1>17, <1>18, <1>19, <1>20, <1>21, <1>22, <1>23,
     <1>24, <1>25, <1>26, NextCases

\* Every variable of the server keeps its type; in particular no channel of the
\* server or the engine ever holds more than its capacity.
THEOREM TypeCorrect == Spec => []TypeOK
  BY TypeInit, TypeStep, PTL DEF Spec

-----------------------------------------------------------------------------
\* The labels of a handler whose listener may be registered.
Serving == {"accept", "select", "write", "cancel", "wait", "remove"}

\* A step that does nothing to the registry, the fan-out and the queues.
Quiet == /\ UNCHANGED <<registry, fanout, open, msgs, given>>
         /\ \A c \in Conns : pc'[c] = pc[c] \/ {pc[c], pc'[c]} \subseteq Serving

LEMMA FanCases ==
  ASSUME TypeOK, [Next]_vars
  PROVE  \/ receive \/ storeLast \/ rLock \/ rUnlock
         \/ \E c \in Conns : \/ offer(c) \/ tooSlow(c) \/ drain(c) \/ push(c)
                             \/ addListener(c) \/ takePayload(c)
                             \/ removeListener(c) \/ closeMsgs(c)
         \/ Quiet
<1> USE DEF TypeOK, Quiet, Serving, engine, registry, fanout, handlers, readers,
            saving, clients, At, Goto
<1>1. CASE tick
  BY <1>1 DEF tick
<1>2. ASSUME NEW c \in Conns, accept(c) \/ write(c) PROVE Quiet
  BY <1>2 DEF accept, write, afterError
<1>3. ASSUME NEW c \in Conns, submit(c) \/ submitPanics(c) \/ readerGone(c) PROVE Quiet
  BY <1>3 DEF submit, submitPanics, readerGone
<1>4. ASSUME NEW c \in Conns, cancel(c) \/ waitReader(c) PROVE Quiet
  BY <1>4 DEF cancel, waitReader
<1>5. ASSUME NEW c \in Conns, readMessage(c) \/ readError(c) PROVE Quiet
  BY <1>5 DEF readMessage, readError
<1>6. ASSUME NEW c \in Conns, queueMessage(c) \/ queueCancelled(c) PROVE Quiet
  BY <1>6 DEF queueMessage, queueCancelled
<1>7. ASSUME NEW s \in Savers, loadLast(s) \/ writeSeed(s) PROVE Quiet
  BY <1>7 DEF loadLast, writeSeed
<1>8. CASE UNCHANGED vars
  BY <1>8 DEF vars
<1> QED
  BY <1>1, <1>2, <1>3, <1>4, <1>5, <1>6, <1>7, <1>8, NextCases

-----------------------------------------------------------------------------
\* The strengthening.

\* The read lock is held exactly while listeners are served, all of them are
\* registered, and at most one is being made room for.
Reading == /\ reading <=> fan \in {"range", "drain", "push"}
           /\ reading => left \subseteq listeners
           /\ full \subseteq left
           /\ full # {} => fan \in {"drain", "push"}
           /\ \A c, d \in full : c = d

\* A registered listener's handler has not started to close its queue.
Registered == \A c \in Conns : /\ c \in listeners => pc[c] \in Serving
                               /\ ~open[c] => pc[c] = "gone"

\* No queue is above its capacity.
QueuesBounded == \A c \in Conns : Len(msgs[c]) <= ListenerCap

\* lastOutput is the newest output: between two outputs everyone has it, while
\* one is given out everyone has it who need not be served any more.
Newest == /\ fan \in {"receive", "store"} => \A c \in listeners : given[c] = lastOutput
          /\ fan \in {"lock", "range", "drain", "push"} => lastOutput = o
          /\ fan \in {"range", "drain", "push"} =>
                \A c \in listeners \ left : given[c] = o

FanInv == Reading /\ Registered /\ QueuesBounded /\ PushHasRoom /\ Newest


LEMMA ReadingStep == TypeOK /\ Reading /\ [Next]_vars => Reading'
<1> SUFFICES ASSUME TypeOK, Reading, [Next]_vars PROVE Reading'
  OBVIOUS
<1> USE DEF TypeOK, Reading, engine, registry, fanout, handlers, readers, saving,
      clients, At, Goto
<1>1. CASE receive
  BY <1>1 DEF receive
<1>2. CASE storeLast
  BY <1>2 DEF storeLast
<1>3. CASE rLock
  BY <1>3 DEF rLock
<1>4. CASE rUnlock
  BY <1>4 DEF rUnlock
<1>5. ASSUME NEW c \in Conns, offer(c) PROVE Reading'
  BY <1>5 DEF offer, queued
<1>6. ASSUME NEW c \in Conns, tooSlow(c) PROVE Reading'
  BY <1>6 DEF tooSlow, makeRoom
<1>7. ASSUME NEW c \in Conns, drain(c) PROVE Reading'
  BY <1>7 DEF drain, drained
<1>8. ASSUME NEW c \in Conns, push(c) PROVE Reading'
  BY <1>8 DEF push, queued
<1>9. ASSUME NEW c \in Conns, addListener(c) PROVE Reading'
  BY <1>9 DEF addListener, CanLock
<1>10. ASSUME NEW c \in Conns, takePayload(c) PROVE Reading'
  BY <1>10 DEF takePayload
<1>11. ASSUME NEW c \in Conns, removeListener(c) PROVE Reading'
  BY <1>11 DEF removeListener, CanLock
<1>12. ASSUME NEW c \in Conns, closeMsgs(c) PROVE Reading'
  BY <1>12 DEF closeMsgs
<1>13. CASE Quiet
  BY <1>13 DEF Quiet, Serving
<1> QED
  BY <1>1, <1>2, <1>3, <1>4, <1>5, <1>6, <1>7, <1>8, <1>9, <1>10, <1>11, <1>12,
     <1>13, FanCases


LEMMA RegisteredStep == TypeOK /\ Registered /\ [Next]_vars => Registered'
<1> SUFFICES ASSUME TypeOK, Registered, [Next]_vars PROVE Registered'
  OBVIOUS
<1> USE DEF TypeOK, Registered, Serving, engine, registry, fanout, handlers, readers,
      saving, clients, At, Goto
<1>1. CASE receive
  BY <1>1 DEF receive
<1>2. CASE storeLast
  BY <1>2 DEF storeLast
<1>3. CASE rLock
  BY <1>3 DEF rLock
<1>4. CASE rUnlock
  BY <1>4 DEF rUnlock
<1>5. ASSUME NEW c \in Conns, offer(c) PROVE Registered'
  BY <1>5 DEF offer, queued
<1>6. ASSUME NEW c \in Conns, tooSlow(c) PROVE Registered'
  BY <1>6 DEF tooSlow, makeRoom
<1>7. ASSUME NEW c \in Conns, drain(c) PROVE Registered'
  BY <1>7 DEF drain, drained
<1>8. ASSUME NEW c \in Conns, push(c) PROVE Registered'
  BY <1>8 DEF push, queued
<1>9. ASSUME NEW c \in Conns, addListener(c) PROVE Registered'
  BY <1>9 DEF addListener, CanLock
<1>10. ASSUME NEW c \in Conns, takePayload(c) PROVE Registered'
  BY <1>10 DEF takePayload
<1>11. ASSUME NEW c \in Conns, removeListener(c) PROVE Registered'
  BY <1>11 DEF removeListener, CanLock
<1>12. ASSUME NEW c \in Conns, closeMsgs(c) PROVE Registered'
  BY <1>12 DEF closeMsgs
<1>13. CASE Quiet
  BY <1>13 DEF Quiet, Serving
<1> QED
  BY <1>1, <1>2, <1>3, <1>4, <1>5, <1>6, <1>7, <1>8, <1>9, <1>10, <1>11, <1>12,
     <1>13, FanCases


LEMMA RoomStep == TypeOK /\ Reading /\ Registered /\ QueuesBounded /\ PushHasRoom
      /\ [Next]_vars
    => (QueuesBounded /\ PushHasRoom)'
<1> SUFFICES ASSUME TypeOK, Reading, Registered, QueuesBounded, PushHasRoom, [Next]_vars
    PROVE (QueuesBounded /\ PushHasRoom)'
  OBVIOUS
<1> USE CapacityAssumption DEF TypeOK, Reading, Registered, Serving, QueuesBounded,
      PushHasRoom, engine, registry, fanout, handlers, readers, saving, clients, At, Goto
<1>1. CASE receive
  BY <1>1 DEF receive
<1>2. CASE storeLast
  BY <1>2 DEF storeLast
<1>3. CASE rLock
  BY <1>3 DEF rLock
<1>4. CASE rUnlock
  BY <1>4 DEF rUnlock
<1>5. ASSUME NEW c \in Conns, offer(c) PROVE (QueuesBounded /\ PushHasRoom)'
  BY <1>5 DEF offer, queued
<1>6. ASSUME NEW c \in Conns, tooSlow(c) PROVE (QueuesBounded /\ PushHasRoom)'
  BY <1>6 DEF tooSlow, makeRoom
<1>7. ASSUME NEW c \in Conns, drain(c) PROVE (QueuesBounded /\ PushHasRoom)'
  <2>1. msgs[c] \in Seq(Nat) /\ Len(Tail(msgs[c])) = Len(msgs[c]) - 1
    BY <1>7 DEF drain
  <2>2. msgs' = [msgs EXCEPT ![c] = Tail(@)] /\ full' = full /\ fan' = "push"
    BY <1>7 DEF drain, drained
  <2>3. full \subseteq {c}
    BY <1>7 DEF drain
  <2> QED  BY <2>1, <2>2, <2>3
<1>8. ASSUME NEW c \in Conns, push(c) PROVE (QueuesBounded /\ PushHasRoom)'
  BY <1>8 DEF push, queued
<1>9. ASSUME NEW c \in Conns, addListener(c) PROVE (QueuesBounded /\ PushHasRoom)'
  BY <1>9 DEF addListener, CanLock
<1>10. ASSUME NEW c \in Conns, takePayload(c) PROVE (QueuesBounded /\ PushHasRoom)'
  <2>1. msgs[c] \in Seq(Nat) /\ Len(Tail(msgs[c])) = Len(msgs[c]) - 1
    BY <1>10 DEF takePayload
  <2>2. msgs' = [msgs EXCEPT ![c] = Tail(@)] /\ full' = full /\ fan' = fan
    BY <1>10 DEF takePayload
  <2>3. msgs'[c] = Tail(msgs[c]) /\ \A d \in Conns : d # c => msgs'[d] = msgs[d]
    BY <2>2
  <2>4. Len(msgs[c]) \in Nat /\ Len(msgs'[c]) = Len(msgs[c]) - 1
    BY <2>1, <2>3
  <2>5. QueuesBounded'
    <3> SUFFICES ASSUME NEW d \in Conns PROVE Len(msgs'[d]) <= ListenerCap
      OBVIOUS
    <3>1. CASE d = c
      BY <2>4, <3>1
    <3>2. CASE d # c
      BY <2>3, <3>2
    <3> QED  BY <3>1, <3>2
  <2>6. PushHasRoom'
    BY <2>2, <2>3, <2>4
  <2> QED  BY <2>5, <2>6
<1>11. ASSUME NEW c \in Conns, removeListener(c) PROVE (QueuesBounded /\ PushHasRoom)'
  BY <1>11 DEF removeListener, CanLock
<1>12. ASSUME NEW c \in Conns, closeMsgs(c) PROVE (QueuesBounded /\ PushHasRoom)'
  BY <1>12 DEF closeMsgs
<1>13. CASE Quiet
  BY <1>13 DEF Quiet, Serving
<1> QED
  BY <1>1, <1>2, <1>3, <1>4, <1>5, <1>6, <1>7, <1>8, <1>9, <1>10, <1>11, <1>12,
     <1>13, FanCases


LEMMA NewestStep == TypeOK /\ Reading /\ Newest /\ [Next]_vars => Newest'
<1> SUFFICES ASSUME TypeOK, Reading, Newest, [Next]_vars PROVE Newest'
  OBVIOUS
<1> USE DEF TypeOK, Reading, Newest, engine, registry, fanout, handlers, readers, saving,
      clients, At, Goto
<1>1. CASE receive
  BY <1>1 DEF receive
<1>2. CASE storeLast
  BY <1>2 DEF storeLast
<1>3. CASE rLock
  BY <1>3 DEF rLock
<1>4. CASE rUnlock
  BY <1>4 DEF rUnlock
<1>5. ASSUME NEW c \in Conns, offer(c) PROVE Newest'
  BY <1>5 DEF offer, queued
<1>6. ASSUME NEW c \in Conns, tooSlow(c) PROVE Newest'
  BY <1>6 DEF tooSlow, makeRoom
<1>7. ASSUME NEW c \in Conns, drain(c) PROVE Newest'
  BY <1>7 DEF drain, drained
<1>8. ASSUME NEW c \in Conns, push(c) PROVE Newest'
  BY <1>8 DEF push, queued
<1>9. ASSUME NEW c \in Conns, addListener(c) PROVE Newest'
  BY <1>9 DEF addListener, CanLock
<1>10. ASSUME NEW c \in Conns, takePayload(c) PROVE Newest'
  BY <1>10 DEF takePayload
<1>11. ASSUME NEW c \in Conns, removeListener(c) PROVE Newest'
  BY <1>11 DEF removeListener, CanLock
<1>12. ASSUME NEW c \in Conns, closeMsgs(c) PROVE Newest'
  BY <1>12 DEF closeMsgs
<1>13. CASE Quiet
  BY <1>13 DEF Quiet, Serving
<1> QED
  BY <1>1, <1>2, <1>3, <1>4, <1>5, <1>6, <1>7, <1>8, <1>9, <1>10, <1>11, <1>12,
     <1>13, FanCases

LEMMA FanInvInit == Init => FanInv
<1> SUFFICES ASSUME Init PROVE FanInv
  OBVIOUS
<1>1. QueuesBounded
  BY CapacityAssumption DEF Init, QueuesBounded
<1> QED
  BY <1>1 DEF Init, FanInv, Reading, Registered, PushHasRoom, Newest

\* FanInv is inductive relative to the types.
LEMMA FanInvHolds == Spec => [](TypeOK /\ FanInv)
<1>1. TypeOK /\ FanInv /\ [Next]_vars => (TypeOK /\ FanInv)'
  BY TypeStep, ReadingStep, RegisteredStep, RoomStep, NewestStep DEF FanInv
<1> QED  BY <1>1, TypeInit, FanInvInit, PTL DEF Spec

-----------------------------------------------------------------------------
\* The fan-out of server.go:68-76 only ever touches queues that are open.
THEOREM OpenQueuesOnly == Spec => []FanServesOpenQueues
<1>1. TypeOK /\ FanInv => FanServesOpenQueues
  BY DEF FanInv, Reading, Registered, Serving, FanServesOpenQueues, TypeOK
<1> QED  BY <1>1, FanInvHolds, PTL

\* The send of server.go:73 never waits, whatever the capacity and however the
\* listener's handler interleaves with it: only the receive before it can.
THEOREM PushNeverWaits == Spec => []PushHasRoom
<1>1. TypeOK /\ FanInv => PushHasRoom
  BY DEF FanInv
<1> QED  BY <1>1, FanInvHolds, PTL

\* Between two outputs every registered listener has been given the newest.
THEOREM LatestReachesAll == Spec => []NobodyMissesTheLatest
<1>1. TypeOK /\ FanInv => NobodyMissesTheLatest
  BY DEF FanInv, Newest, NobodyMissesTheLatest
<1> QED  BY <1>1, FanInvHolds, PTL

-----------------------------------------------------------------------------
\* The numbers in a queue do not fall, and lie between lo and hi.
Rising(q, lo, hi) == /\ \A i \in 1 .. Len(q) : lo <= q[i] /\ q[i] <= hi
                     /\ \A i, j \in 1 .. Len(q) : i <= j => q[i] <= q[j]

-----------------------------------------------------------------------------
LEMMA RisingEmpty ==
  ASSUME NEW lo, NEW hi PROVE Rising(<<>>, lo, hi)
BY DEF Rising

LEMMA RisingOne ==
  ASSUME NEW x \in Nat, NEW lo \in Nat, NEW hi \in Nat, lo <= x, x <= hi
  PROVE  Rising(<<x>>, lo, hi)
BY DEF Rising

\* Wider bounds.
LEMMA RisingWiden ==
  ASSUME NEW q \in Seq(Nat), NEW lo \in Nat, NEW hi \in Nat, Rising(q, lo, hi),
         NEW low \in Nat, NEW high \in Nat, low <= lo, hi <= high
  PROVE  Rising(q, low, high)
<1>1. \A i \in 1 .. Len(q) : q[i] \in Nat
  BY ElementOfSeq
<1> QED  BY <1>1 DEF Rising

\* What comes last is as large as all before it.
LEMMA RisingAppend ==
  ASSUME NEW q \in Seq(Nat), NEW lo \in Nat, NEW hi \in Nat, Rising(q, lo, hi),
         NEW x \in Nat, hi <= x, lo <= x
  PROVE  Rising(Append(q, x), lo, x)
<1> DEFINE n == Len(q)
           longer == Append(q, x)
<1>1. /\ n \in Nat /\ \A i \in 1 .. n : q[i] \in Nat
  BY LenProperties, ElementOfSeq
<1>2. Len(longer) = n + 1 /\ longer[n + 1] = x /\ \A i \in 1 .. n : longer[i] = q[i]
  BY AppendProperties
<1>3. \A i \in 1 .. n : lo <= q[i] /\ q[i] <= x
  BY <1>1 DEF Rising
<1>4. \A i, j \in 1 .. n : i <= j => q[i] <= q[j]
  BY DEF Rising
<1> HIDE DEF n, longer
<1>5. \A i \in 1 .. n + 1 : i = n + 1 \/ i \in 1 .. n
  BY <1>1
<1> QED  BY <1>1, <1>2, <1>3, <1>4, <1>5 DEF Rising, longer

\* The head is at most the rest.
LEMMA RisingTail ==
  ASSUME NEW q \in Seq(Nat), q # <<>>, NEW lo \in Nat, NEW hi \in Nat, Rising(q, lo, hi)
  PROVE  /\ Head(q) \in lo .. hi
         /\ Tail(q) \in Seq(Nat)
         /\ Rising(Tail(q), Head(q), hi)
<1> DEFINE n == Len(q)
           rest == Tail(q)
<1>1. n \in Nat /\ n >= 1 /\ \A i \in 1 .. n : q[i] \in Nat
  BY LenProperties, ElementOfSeq, EmptySeq
<1>2. rest \in Seq(Nat) /\ Len(rest) = n - 1 /\ \A i \in 1 .. n - 1 : rest[i] = q[i + 1]
  BY <1>1, HeadTailProperties
<1>3. Head(q) = q[1]
  OBVIOUS
<1>4. \A i \in 1 .. n : lo <= q[i] /\ q[i] <= hi
  BY DEF Rising
<1>5. \A i, j \in 1 .. n : i <= j => q[i] <= q[j]
  BY DEF Rising
<1> HIDE DEF n, rest
<1>6. \A i \in 1 .. n - 1 : i + 1 \in 1 .. n /\ 1 <= i + 1
  BY <1>1
<1>7. 1 \in 1 .. n /\ n \in 1 .. n
  BY <1>1
<1>8. Rising(rest, Head(q), hi)
  <2>1. \A i \in 1 .. n - 1 : Head(q) <= rest[i] /\ rest[i] <= hi
    BY <1>2, <1>3, <1>4, <1>5, <1>6, <1>7
  <2>2. \A i, j \in 1 .. n - 1 : i <= j => rest[i] <= rest[j]
    <3> SUFFICES ASSUME NEW i \in 1 .. n - 1, NEW j \in 1 .. n - 1, i <= j
                 PROVE  rest[i] <= rest[j]
      OBVIOUS
    <3>1. q[i + 1] <= q[j + 1]
      BY <1>1, <1>5, <1>6
    <3> QED  BY <1>2, <3>1
  <2> QED  BY <1>2, <2>1, <2>2 DEF Rising
<1>9. Head(q) \in lo .. hi
  BY <1>1, <1>3, <1>4, <1>7
<1> QED  BY <1>2, <1>8, <1>9 DEF n, rest

LEMMA LastOfTail ==
  ASSUME NEW q \in Seq(Nat), q # <<>>
  PROVE  /\ Tail(q) # <<>> => Tail(q)[Len(Tail(q))] = q[Len(q)]
         /\ Tail(q) = <<>> => Head(q) = q[Len(q)]
<1> DEFINE n == Len(q)
           rest == Tail(q)
<1>1. n \in Nat /\ n >= 1
  BY LenProperties, EmptySeq
<1>2. rest \in Seq(Nat) /\ Len(rest) = n - 1 /\ \A i \in 1 .. n - 1 : rest[i] = q[i + 1]
  BY <1>1, HeadTailProperties
<1>3. Head(q) = q[1]
  OBVIOUS
<1> HIDE DEF n, rest
<1>4. rest # <<>> => rest[Len(rest)] = q[n]
  <2>1. rest # <<>> => Len(rest) \in 1 .. n - 1
    BY <1>1, <1>2, EmptySeq
  <2> QED  BY <1>1, <1>2, <2>1
<1>5. rest = <<>> => Head(q) = q[n]
  <2>1. rest = <<>> => n = 1
    BY <1>1, <1>2
  <2> QED  BY <1>3, <2>1
<1> QED  BY <1>4, <1>5 DEF n, rest

-----------------------------------------------------------------------------
\* The outputs still to be given out are no older than lastOutput, nor than the
\* one that is being given out.
ChanRises == /\ Rising(outputChan, lastOutput, world)
             /\ Rising(outputChan, o, world)
             /\ lastOutput <= world /\ o <= world
             /\ fan = "store" => lastOutput <= o

\* What a client has, what is written to it, what waits in its queue, what was
\* put into it last: in this order, none newer than lastOutput.
ConnRises(c) == /\ got[c] <= given[c] /\ given[c] <= lastOutput
                /\ Rising(msgs[c], got[c], given[c])
                /\ pc[c] = "write" => /\ got[c] <= payload[c] /\ payload[c] <= given[c]
                                      /\ Rising(msgs[c], payload[c], given[c])

Ordered == ChanRises /\ \A c \in Conns : ConnRises(c)

\* The three ways a step changes the engine's side.
LEMMA OutputRises ==
  ASSUME TypeOK, ChanRises, Output, UNCHANGED <<lastOutput, o, fan>>
  PROVE  ChanRises'
<1>1. world' = world + 1 /\ world \in Nat /\ outputChan \in Seq(Nat)
      /\ lastOutput \in Nat /\ o \in Nat
  BY DEF Output, TypeOK
<1>2. \A lo \in Nat : Rising(outputChan, lo, world) /\ lo <= world
                      => Rising(outputChan', lo, world')
  <2> SUFFICES ASSUME NEW lo \in Nat, Rising(outputChan, lo, world), lo <= world
               PROVE  Rising(outputChan', lo, world')
    OBVIOUS
  <2>1. CASE outputChan' = outputChan
    BY <1>1, <2>1, RisingWiden
  <2>2. CASE outputChan' = Append(outputChan, world')
    <3>1. world' \in Nat /\ world <= world' /\ lo <= world'
      BY <1>1
    <3> QED  BY <1>1, <2>2, <3>1, RisingAppend
  <2> QED  BY <2>1, <2>2 DEF Output, offered
<1> QED  BY <1>1, <1>2 DEF ChanRises

\* Steps that leave the channel and the fan-out alone, or only its place.
LEMMA ChanStays ==
  ASSUME ChanRises, UNCHANGED <<world, outputChan, lastOutput, o>>, fan' = fan \/ fan' # "store"
  PROVE  ChanRises'
BY DEF ChanRises

LEMMA ConnStays ==
  ASSUME NEW c, ConnRises(c), got'[c] = got[c], given'[c] = given[c], msgs'[c] = msgs[c],
         payload'[c] = payload[c], pc'[c] = pc[c] \/ pc'[c] # "write",
         lastOutput' = lastOutput
  PROVE  ConnRises(c)'
BY DEF ConnRises

\* A put into a queue: of what is no older than what the queue was given.
LEMMA ConnQueued ==
  ASSUME TypeOK, NEW c \in Conns, ConnRises(c), NEW x \in Nat, given[c] <= x,
         msgs' = [msgs EXCEPT ![c] = Append(@, x)], given' = [given EXCEPT ![c] = x],
         x <= lastOutput, UNCHANGED <<lastOutput, pc, payload, got>>
  PROVE  ConnRises(c)'
<1>1. /\ msgs[c] \in Seq(Nat) /\ given[c] \in Nat /\ got[c] \in Nat /\ payload[c] \in Nat
      /\ msgs'[c] = Append(msgs[c], x) /\ given'[c] = x
  BY DEF TypeOK
<1>2. got[c] <= x /\ Rising(msgs'[c], got[c], x)
  BY <1>1, RisingAppend DEF ConnRises
<1>3. pc[c] = "write" => payload[c] <= x /\ Rising(msgs'[c], payload[c], x)
  <2> SUFFICES ASSUME pc[c] = "write" PROVE payload[c] <= x /\ Rising(msgs'[c], payload[c], x)
    OBVIOUS
  <2>1. payload[c] <= given[c] /\ Rising(msgs[c], payload[c], given[c])
    BY DEF ConnRises
  <2>2. payload[c] <= x
    BY <1>1, <2>1
  <2> QED  BY <1>1, <2>1, <2>2, RisingAppend
<1> QED  BY <1>1, <1>2, <1>3 DEF ConnRises

\* A queue without its head, or its bounds alone, when the rest stays.
LEMMA ConnDrained ==
  ASSUME TypeOK, NEW c \in Conns, ConnRises(c), msgs[c] # <<>>,
         msgs' = [msgs EXCEPT ![c] = Tail(@)],
         UNCHANGED <<lastOutput, pc, payload, got, given>>
  PROVE  ConnRises(c)'
<1>1. /\ msgs[c] \in Seq(Nat) /\ given[c] \in Nat /\ got[c] \in Nat /\ payload[c] \in Nat
      /\ msgs'[c] = Tail(msgs[c])
  BY DEF TypeOK
<1>2. \A lo \in Nat : Rising(msgs[c], lo, given[c]) => Rising(msgs'[c], lo, given[c])
  <2> SUFFICES ASSUME NEW lo \in Nat, Rising(msgs[c], lo, given[c])
               PROVE  Rising(msgs'[c], lo, given[c])
    OBVIOUS
  <2>1. /\ Head(msgs[c]) \in lo .. given[c] /\ Tail(msgs[c]) \in Seq(Nat)
        /\ Rising(Tail(msgs[c]), Head(msgs[c]), given[c])
    BY <1>1, RisingTail
  <2>2. Head(msgs[c]) \in Nat /\ lo <= Head(msgs[c]) /\ given[c] <= given[c]
    BY <1>1, <2>1
  <2>3. Rising(Tail(msgs[c]), lo, given[c])
    BY <1>1, <2>1, <2>2, RisingWiden
  <2> QED  BY <1>1, <2>3
<1> QED  BY <1>1, <1>2 DEF ConnRises

LEMMA ConnTaken ==
  ASSUME TypeOK, NEW c \in Conns, ConnRises(c), takePayload(c)
  PROVE  ConnRises(c)'
<1>1. /\ msgs[c] \in Seq(Nat) /\ given[c] \in Nat /\ got[c] \in Nat /\ msgs[c] # <<>>
      /\ msgs'[c] = Tail(msgs[c]) /\ payload'[c] = Head(msgs[c])
      /\ UNCHANGED <<lastOutput, got, given>>
  BY DEF TypeOK, takePayload, registry, clients
<1>2. /\ Head(msgs[c]) \in got[c] .. given[c] /\ Tail(msgs[c]) \in Seq(Nat)
      /\ Rising(Tail(msgs[c]), Head(msgs[c]), given[c])
  BY <1>1, RisingTail DEF ConnRises
<1>3. Rising(Tail(msgs[c]), got[c], given[c])
  <2>1. Head(msgs[c]) \in Nat /\ got[c] <= Head(msgs[c]) /\ given[c] <= given[c]
    BY <1>1, <1>2
  <2> QED  BY <1>1, <1>2, <2>1, RisingWiden
<1> QED  BY <1>1, <1>2, <1>3 DEF ConnRises

LEMMA ConnWritten ==
  ASSUME TypeOK, NEW c \in Conns, ConnRises(c), write(c)
  PROVE  ConnRises(c)' /\ got'[c] >= got[c]
<1>1. /\ given[c] \in Nat /\ got[c] \in Nat /\ payload[c] \in Nat
      /\ pc[c] = "write" /\ pc'[c] # "write"
      /\ UNCHANGED <<lastOutput, given, msgs>>
      /\ got'[c] = payload[c] \/ got'[c] = got[c]
  BY DEF TypeOK, write, registry, At, Goto, afterError
<1> QED  BY <1>1 DEF ConnRises

LEMMA ConnAdded ==
  ASSUME TypeOK, NEW c \in Conns, ConnRises(c), addListener(c)
  PROVE  ConnRises(c)'
<1>1. /\ lastOutput \in Nat /\ got[c] \in Nat /\ given[c] \in Nat
      /\ msgs'[c] = (IF lastOutput # 0 THEN <<lastOutput>> ELSE <<>>)
      /\ given'[c] = lastOutput /\ pc'[c] # "write" /\ UNCHANGED <<lastOutput, got>>
  BY DEF TypeOK, addListener, clients, At, Goto
<1>2. got[c] <= lastOutput
  BY <1>1 DEF ConnRises
<1>3. Rising(msgs'[c], got[c], lastOutput)
  BY <1>1, <1>2, RisingEmpty, RisingOne
<1> QED  BY <1>1, <1>2, <1>3 DEF ConnRises

-----------------------------------------------------------------------------
\* Every step keeps the order, and no client's newest output becomes older.
Forward == Ordered' /\ \A c \in Conns : got'[c] >= got[c]

\* Steps of the fan-out or a handler that touch the outputs of one connection.
LEMMA OneMoves ==
  ASSUME TypeOK, Ordered, NEW c \in Conns, ConnRises(c)', got'[c] >= got[c],
         UNCHANGED <<world, outputChan, lastOutput, o>>, fan' = fan \/ fan' # "store",
         \A d \in Conns \ {c} : /\ got'[d] = got[d] /\ given'[d] = given[d]
                                /\ msgs'[d] = msgs[d] /\ payload'[d] = payload[d]
                                /\ pc'[d] = pc[d]
  PROVE  Forward
<1>1. ChanRises'
  BY ChanStays DEF Ordered
<1>2. \A d \in Conns \ {c} : ConnRises(d)'
  <2> SUFFICES ASSUME NEW d \in Conns \ {c} PROVE ConnRises(d)'
    OBVIOUS
  <2> QED  BY ConnStays DEF Ordered
<1>3. \A d \in Conns \ {c} : got'[d] >= got[d]
  BY DEF TypeOK
<1> QED  BY <1>1, <1>2, <1>3 DEF Forward, Ordered

\* Steps that touch no connection's outputs.
LEMMA NoneMoves ==
  ASSUME TypeOK, Ordered, ChanRises',
         UNCHANGED <<lastOutput, got, given, msgs, payload>>,
         \A d \in Conns : pc'[d] = pc[d] \/ pc'[d] # "write"
  PROVE  Forward
<1>1. \A d \in Conns : ConnRises(d)'
  <2> SUFFICES ASSUME NEW d \in Conns PROVE ConnRises(d)'
    OBVIOUS
  <2> QED  BY ConnStays DEF Ordered
<1>2. \A d \in Conns : got'[d] >= got[d]
  BY DEF TypeOK
<1> QED  BY <1>1, <1>2 DEF Forward, Ordered

LEMMA ForwardStep ==
  ASSUME TypeOK, Newest, Ordered, [Next]_vars
  PROVE  Forward
<1> USE DEF engine, registry, fanout, handlers, readers, saving, clients, At, Goto
<1>0. ChanRises /\ \A c \in Conns : ConnRises(c)
  BY DEF Ordered
<1>a. /\ world \in Nat /\ lastOutput \in Nat /\ o \in Nat /\ outputChan \in Seq(Nat)
      /\ \A c \in Conns : /\ got[c] \in Nat /\ given[c] \in Nat /\ payload[c] \in Nat
                          /\ msgs[c] \in Seq(Nat)
  BY DEF TypeOK
<1>1. CASE tick
  <2>1. ChanRises'
    BY <1>0, <1>1, OutputRises DEF tick
  <2> QED  BY <1>1, <2>1, NoneMoves DEF tick
<1>2. CASE receive
  <2>1. /\ Head(outputChan) \in lastOutput .. world /\ Head(outputChan) \in o .. world
        /\ Tail(outputChan) \in Seq(Nat)
        /\ Rising(Tail(outputChan), Head(outputChan), world)
    BY <1>0, <1>2, <1>a, RisingTail DEF receive, ChanRises
  <2>2. Head(outputChan) \in Nat /\ lastOutput <= Head(outputChan) /\ world <= world
    BY <1>a, <2>1
  <2>3. Rising(Tail(outputChan), lastOutput, world)
    BY <1>a, <2>1, <2>2, RisingWiden
  <2>4. ChanRises'
    BY <1>2, <1>a, <1>0, <2>1, <2>2, <2>3 DEF receive, ChanRises
  <2> QED  BY <1>2, <2>4, NoneMoves DEF receive
<1>3. CASE storeLast
  <2>1. ChanRises'
    BY <1>0, <1>3, <1>a DEF storeLast, ChanRises
  <2>2. lastOutput <= o /\ lastOutput' = o
    BY <1>0, <1>3 DEF storeLast, ChanRises
  <2>3. \A c \in Conns : ConnRises(c)' /\ got'[c] >= got[c]
    <3> SUFFICES ASSUME NEW c \in Conns PROVE ConnRises(c)' /\ got'[c] >= got[c]
      OBVIOUS
    <3>1. ConnRises(c) /\ UNCHANGED <<got, given, msgs, payload, pc>>
      BY <1>0, <1>3 DEF storeLast
    <3> QED  BY <1>a, <2>2, <3>1 DEF ConnRises
  <2> QED  BY <2>1, <2>3 DEF Forward, Ordered
<1>4. CASE rLock
  <2>1. ChanRises'
    BY <1>0, <1>4, ChanStays DEF rLock
  <2> QED  BY <1>4, <2>1, NoneMoves DEF rLock
<1>5. CASE rUnlock
  <2>1. Rising(outputChan, 0, world)
    <3>1. Rising(outputChan, lastOutput, world) /\ 0 <= lastOutput /\ world <= world
      BY <1>0, <1>a DEF ChanRises
    <3> QED  BY <1>a, <3>1, RisingWiden
  <2>2. ChanRises'
    BY <1>0, <1>5, <1>a, <2>1 DEF rUnlock, ChanRises
  <2> QED  BY <1>5, <2>2, NoneMoves DEF rUnlock
<1>6. ASSUME NEW c \in Conns, offer(c) PROVE Forward
  <2>1. given[c] <= o /\ o <= lastOutput
    BY <1>0, <1>6, <1>a DEF offer, Newest, ConnRises
  <2>2. ConnRises(c)'
    BY <1>0, <1>6, <1>a, <2>1, ConnQueued DEF offer, queued
  <2>3. /\ UNCHANGED <<world, outputChan, lastOutput, o, fan, got, payload, pc>>
        /\ \A d \in Conns \ {c} : given'[d] = given[d] /\ msgs'[d] = msgs[d]
    BY <1>6 DEF offer, TypeOK
  <2> QED  BY <1>a, <2>2, <2>3, OneMoves
<1>7. ASSUME NEW c \in Conns, tooSlow(c) PROVE Forward
  <2>1. ChanRises'
    BY <1>0, <1>7, ChanStays DEF tooSlow, makeRoom
  <2> QED  BY <1>7, <2>1, NoneMoves DEF tooSlow
<1>8. ASSUME NEW c \in Conns, drain(c) PROVE Forward
  <2>1. ConnRises(c)'
    BY <1>0, <1>8, ConnDrained DEF drain, drained
  <2>2. /\ UNCHANGED <<world, outputChan, lastOutput, o, got, payload, pc, given>>
        /\ fan' = "push"
        /\ \A d \in Conns \ {c} : msgs'[d] = msgs[d]
    BY <1>8 DEF drain, TypeOK
  <2> QED  BY <1>a, <2>1, <2>2, OneMoves
<1>9. ASSUME NEW c \in Conns, push(c) PROVE Forward
  <2>1. given[c] <= o /\ o <= lastOutput
    BY <1>0, <1>9, <1>a DEF push, Newest, ConnRises
  <2>2. ConnRises(c)'
    BY <1>0, <1>9, <1>a, <2>1, ConnQueued DEF push, queued
  <2>3. /\ UNCHANGED <<world, outputChan, lastOutput, o, got, payload, pc>> /\ fan' = "range"
        /\ \A d \in Conns \ {c} : given'[d] = given[d] /\ msgs'[d] = msgs[d]
    BY <1>9 DEF push, TypeOK
  <2> QED  BY <1>a, <2>2, <2>3, OneMoves
<1>10. ASSUME NEW c \in Conns, addListener(c) PROVE Forward
  <2>1. ConnRises(c)'
    BY <1>0, <1>10, ConnAdded
  <2>2. /\ UNCHANGED <<world, outputChan, lastOutput, o, fan, got, payload>>
        /\ \A d \in Conns \ {c} : given'[d] = given[d] /\ msgs'[d] = msgs[d] /\ pc'[d] = pc[d]
    BY <1>10 DEF addListener, TypeOK
  <2> QED  BY <1>a, <2>1, <2>2, OneMoves
<1>11. ASSUME NEW c \in Conns, takePayload(c) PROVE Forward
  <2>1. ConnRises(c)'
    BY <1>0, <1>11, ConnTaken
  <2>2. /\ UNCHANGED <<world, outputChan, lastOutput, o, fan, got, given>>
        /\ \A d \in Conns \ {c} : /\ payload'[d] = payload[d] /\ msgs'[d] = msgs[d]
                                  /\ pc'[d] = pc[d]
    BY <1>11 DEF takePayload, TypeOK
  <2> QED  BY <1>a, <2>1, <2>2, OneMoves
<1>12. ASSUME NEW c \in Conns, write(c) PROVE Forward
  <2>1. ConnRises(c)' /\ got'[c] >= got[c]
    BY <1>0, <1>12, ConnWritten
  <2>2. /\ UNCHANGED <<world, outputChan, lastOutput, o, fan, msgs, given>>
        /\ \A d \in Conns \ {c} : /\ payload'[d] = payload[d] /\ got'[d] = got[d]
                                  /\ pc'[d] = pc[d]
    BY <1>12 DEF write, TypeOK
  <2> QED  BY <2>1, <2>2, OneMoves
<1>13. ASSUME NEW c \in Conns, submit(c) PROVE Forward
  <2>1. UNCHANGED <<lastOutput, o, fan, got, given, msgs, payload, pc>>
    BY <1>13 DEF submit
  <2>2. ChanRises'
    <3>1. CASE Output
      BY <1>0, <2>1, <3>1, OutputRises
    <3>2. CASE UNCHANGED <<engine, edit>>
      BY <1>0, <2>1, <3>2, ChanStays
    <3> QED  BY <1>13, <3>1, <3>2 DEF submit
  <2> QED  BY <2>1, <2>2, NoneMoves
<1>14. ASSUME UNCHANGED <<world, outputChan, lastOutput, o, fan, got, given, msgs, payload>>,
              \A d \in Conns : pc'[d] = pc[d] \/ pc'[d] # "write"
       PROVE  Forward
  <2>1. ChanRises'
    BY <1>0, <1>14, ChanStays
  <2> QED  BY <1>14, <2>1, NoneMoves
<1>15. ASSUME NEW c \in Conns, accept(c) \/ submitPanics(c) \/ readerGone(c) \/ cancel(c)
              \/ waitReader(c)
       PROVE  Forward
  <2>1. /\ UNCHANGED <<world, outputChan, lastOutput, o, fan, got, given, msgs, payload>>
        /\ \A d \in Conns : pc'[d] = pc[d] \/ pc'[d] # "write"
    BY <1>15 DEF accept, submitPanics, readerGone, cancel, waitReader, TypeOK
  <2> QED  BY <1>14, <2>1
<1>16. ASSUME NEW c \in Conns, removeListener(c) \/ closeMsgs(c) PROVE Forward
  <2>1. /\ UNCHANGED <<world, outputChan, lastOutput, o, fan, got, given, msgs, payload>>
        /\ \A d \in Conns : pc'[d] = pc[d] \/ pc'[d] # "write"
    BY <1>16 DEF removeListener, closeMsgs, TypeOK
  <2> QED  BY <1>14, <2>1
<1>17. ASSUME NEW c \in Conns,
              readMessage(c) \/ readError(c) \/ queueMessage(c) \/ queueCancelled(c)
       PROVE  Forward
  <2>1. UNCHANGED <<world, outputChan, lastOutput, o, fan, got, given, msgs, payload, pc>>
    BY <1>17 DEF readMessage, readError, queueMessage, queueCancelled
  <2> QED  BY <1>14, <2>1
<1>18. ASSUME NEW s \in Savers, loadLast(s) \/ writeSeed(s) PROVE Forward
  <2>1. UNCHANGED <<world, outputChan, lastOutput, o, fan, got, given, msgs, payload, pc>>
    BY <1>18 DEF loadLast, writeSeed
  <2> QED  BY <1>14, <2>1
<1>19. CASE UNCHANGED vars
  BY <1>14, <1>19 DEF vars
<1> QED
  BY <1>1, <1>2, <1>3, <1>4, <1>5, <1>6, <1>7, <1>8, <1>9, <1>10, <1>11, <1>12, <1>13,
     <1>15, <1>16, <1>17, <1>18, <1>19, NextCases

LEMMA OrderedInit == Init => Ordered
<1> SUFFICES ASSUME Init PROVE Ordered
  OBVIOUS
<1>1. ChanRises
  <2>1. Rising(outputChan, 0, 1)
    BY RisingOne DEF Init
  <2> QED  BY <2>1 DEF Init, ChanRises
<1>2. \A c \in Conns : ConnRises(c)
  <2> SUFFICES ASSUME NEW c \in Conns PROVE ConnRises(c)
    OBVIOUS
  <2>1. Rising(msgs[c], 0, 0)
    BY RisingEmpty DEF Init
  <2> QED  BY <2>1 DEF Init, ConnRises
<1> QED  BY <1>1, <1>2 DEF Ordered

LEMMA OrderedHolds == Spec => [](TypeOK /\ FanInv /\ Ordered)
<1>1. TypeOK /\ FanInv /\ Ordered /\ [Next]_vars => Ordered'
  BY ForwardStep DEF Forward, FanInv
<1> QED  BY <1>1, OrderedInit, FanInvHolds, PTL DEF Spec

\* No client is ever shown an output older than one it has been shown, for every
\* number of connections, every capacity and however the fan-out, which gives
\* out an output, and addListener, which gives lastOutput, cross.
THEOREM ClientsGoForward == Spec => NeverBack
<1>1. TypeOK /\ FanInv /\ Ordered /\ [Next]_vars => [\A c \in Conns : got'[c] >= got[c]]_vars
  BY ForwardStep DEF Forward, FanInv
<1> QED  BY <1>1, OrderedHolds, PTL DEF Spec, NeverBack

-----------------------------------------------------------------------------
\* The newest output given to a listener is the last in its queue; or, if the
\* queue is empty, the one that is written, or has been.  The queue in which
\* the fan-out has just made room is excepted.
Newly(c) == /\ pc[c] = "new" => got[c] = 0
            /\ pc[c] \in {"accept", "select", "write"} /\ ~(fan = "push" /\ c \in full)
                  => /\ msgs[c] # <<>> => msgs[c][Len(msgs[c])] = given[c]
                     /\ msgs[c] = <<>> => given[c] = IF pc[c] = "write" THEN payload[c]
                                                     ELSE got[c]

LastIsGiven == \A c \in Conns : Newly(c)

\* Steps that leave a connection's outputs alone; it may go from accept to
\* select, or leave.
LEMMA NewlyStays ==
  ASSUME NEW c, Newly(c), got'[c] = got[c], given'[c] = given[c], msgs'[c] = msgs[c],
         payload'[c] = payload[c],
         \/ pc'[c] = pc[c]
         \/ pc[c] = "accept" /\ pc'[c] = "select"
         \/ pc'[c] \in {"cancel", "wait", "remove", "close", "gone"},
         fan = "push" /\ c \in full => fan' = "push" /\ c \in full'
  PROVE  Newly(c)'
BY DEF Newly

LEMMA NewlyQueued ==
  ASSUME TypeOK, NEW c \in Conns, Newly(c), NEW x \in Nat,
         msgs' = [msgs EXCEPT ![c] = Append(@, x)], given' = [given EXCEPT ![c] = x],
         UNCHANGED <<pc, got>>
  PROVE  Newly(c)'
<1>1. msgs[c] \in Seq(Nat) /\ msgs'[c] = Append(msgs[c], x) /\ given'[c] = x
  BY DEF TypeOK
<1>2. msgs'[c] # <<>> /\ msgs'[c][Len(msgs'[c])] = x
  BY <1>1, AppendProperties
<1> QED  BY <1>1, <1>2 DEF Newly

LEMMA NewlyTaken ==
  ASSUME TypeOK, NEW c \in Conns, Newly(c), takePayload(c), UNCHANGED <<fan, full>>
  PROVE  Newly(c)'
<1>1. /\ msgs[c] \in Seq(Nat) /\ msgs[c] # <<>> /\ pc[c] = "select" /\ pc'[c] = "write"
      /\ msgs'[c] = Tail(msgs[c]) /\ payload'[c] = Head(msgs[c]) /\ UNCHANGED given
  BY DEF TypeOK, takePayload, At, Goto
<1>2. /\ Tail(msgs[c]) # <<>> => Tail(msgs[c])[Len(Tail(msgs[c]))] = msgs[c][Len(msgs[c])]
      /\ Tail(msgs[c]) = <<>> => Head(msgs[c]) = msgs[c][Len(msgs[c])]
  BY <1>1, LastOfTail
<1> QED  BY <1>1, <1>2 DEF Newly

LEMMA NewlyWritten ==
  ASSUME TypeOK, NEW c \in Conns, Newly(c), write(c)
  PROVE  Newly(c)'
BY DEF TypeOK, Newly, write, registry, fanout, At, Goto, afterError

LEMMA NewlyAdded ==
  ASSUME TypeOK, NEW c \in Conns, Newly(c), addListener(c)
  PROVE  Newly(c)'
<1>1. /\ pc[c] = "new" /\ pc'[c] = "accept" /\ got'[c] = got[c] /\ given'[c] = lastOutput
      /\ msgs'[c] = (IF lastOutput # 0 THEN <<lastOutput>> ELSE <<>>)
  BY DEF TypeOK, addListener, clients, At, Goto
<1> QED  BY <1>1 DEF Newly

\* Steps that move the outputs of one connection, or of none.
LEMMA NewlyOthers ==
  ASSUME LastIsGiven, NEW c \in Conns, Newly(c)', full' \subseteq full \cup {c},
         fan = "push" => \A d \in full \ {c} : fan' = "push" /\ d \in full',
         \A d \in Conns \ {c} : /\ got'[d] = got[d] /\ given'[d] = given[d]
                                /\ msgs'[d] = msgs[d] /\ payload'[d] = payload[d]
                                /\ pc'[d] = pc[d]
  PROVE  LastIsGiven'
<1>1. \A d \in Conns \ {c} : Newly(d)'
  <2> SUFFICES ASSUME NEW d \in Conns \ {c} PROVE Newly(d)'
    OBVIOUS
  <2> QED  BY NewlyStays DEF LastIsGiven
<1> QED  BY <1>1 DEF LastIsGiven

LEMMA NewlyAll ==
  ASSUME LastIsGiven, UNCHANGED <<got, given, msgs, payload>>,
         \A d \in Conns : \/ pc'[d] = pc[d]
                          \/ pc[d] = "accept" /\ pc'[d] = "select"
                          \/ pc'[d] \in {"cancel", "wait", "remove", "close", "gone"},
         fan = "push" => fan' = "push" /\ full' = full
  PROVE  LastIsGiven'
<1> SUFFICES ASSUME NEW d \in Conns PROVE Newly(d)'
  BY DEF LastIsGiven
<1> QED  BY NewlyStays DEF LastIsGiven

LEMMA LastIsGivenStep ==
  ASSUME TypeOK, Reading, LastIsGiven, [Next]_vars
  PROVE  LastIsGiven'
<1> USE DEF engine, registry, fanout, handlers, readers, saving, clients, At, Goto
<1>0. \A c \in Conns : Newly(c)
  BY DEF LastIsGiven
<1>1. CASE tick \/ receive \/ storeLast \/ rLock \/ rUnlock
  BY <1>1, NewlyAll DEF tick, receive, storeLast, rLock, rUnlock
<1>2. ASSUME NEW c \in Conns, offer(c) PROVE LastIsGiven'
  <2>1. Newly(c)'
    BY <1>0, <1>2, NewlyQueued DEF offer, queued, TypeOK
  <2>2. /\ UNCHANGED <<fan, full, got, payload, pc>>
        /\ \A d \in Conns \ {c} : given'[d] = given[d] /\ msgs'[d] = msgs[d]
    BY <1>2 DEF offer, TypeOK
  <2> QED  BY <2>1, <2>2, NewlyOthers
<1>3. ASSUME NEW c \in Conns, tooSlow(c) PROVE LastIsGiven'
  BY <1>3, NewlyAll DEF tooSlow, makeRoom
<1>4. ASSUME NEW c \in Conns, drain(c) PROVE LastIsGiven'
  <2>1. /\ UNCHANGED <<full, got, given, payload, pc>> /\ fan' = "push" /\ c \in full
        /\ \A d \in Conns \ {c} : msgs'[d] = msgs[d]
    BY <1>4 DEF drain, TypeOK
  <2>2. Newly(c)'
    BY <1>0, <2>1 DEF Newly
  <2> QED  BY <2>1, <2>2, NewlyOthers
<1>5. ASSUME NEW c \in Conns, push(c) PROVE LastIsGiven'
  <2>1. Newly(c)'
    BY <1>0, <1>5, NewlyQueued DEF push, queued, TypeOK
  <2>2. /\ UNCHANGED <<got, payload, pc>> /\ full' = {} /\ c \in full
        /\ \A d \in Conns \ {c} : given'[d] = given[d] /\ msgs'[d] = msgs[d]
    BY <1>5 DEF push, TypeOK
  <2>3. \A d \in full : d = c
    BY <2>2 DEF Reading
  <2> QED  BY <2>1, <2>2, <2>3, NewlyOthers
<1>6. ASSUME NEW c \in Conns, addListener(c) PROVE LastIsGiven'
  <2>1. Newly(c)'
    BY <1>0, <1>6, NewlyAdded
  <2>2. /\ UNCHANGED <<fan, full, got, payload>>
        /\ \A d \in Conns \ {c} : given'[d] = given[d] /\ msgs'[d] = msgs[d] /\ pc'[d] = pc[d]
    BY <1>6 DEF addListener, TypeOK
  <2> QED  BY <2>1, <2>2, NewlyOthers
<1>7. ASSUME NEW c \in Conns, takePayload(c) PROVE LastIsGiven'
  <2>1. /\ UNCHANGED <<fan, full, got, given>>
        /\ \A d \in Conns \ {c} : /\ payload'[d] = payload[d] /\ msgs'[d] = msgs[d]
                                  /\ pc'[d] = pc[d]
    BY <1>7 DEF takePayload, TypeOK
  <2>2. Newly(c)'
    BY <1>0, <1>7, <2>1, NewlyTaken
  <2> QED  BY <2>1, <2>2, NewlyOthers
<1>8. ASSUME NEW c \in Conns, write(c) PROVE LastIsGiven'
  <2>1. Newly(c)'
    BY <1>0, <1>8, NewlyWritten
  <2>2. /\ UNCHANGED <<fan, full, msgs, given>>
        /\ \A d \in Conns \ {c} : /\ payload'[d] = payload[d] /\ got'[d] = got[d]
                                  /\ pc'[d] = pc[d]
    BY <1>8 DEF write, TypeOK
  <2> QED  BY <2>1, <2>2, NewlyOthers
<1>9. ASSUME UNCHANGED <<got, given, msgs, payload, fan, full>>,
             \A d \in Conns : \/ pc'[d] = pc[d]
                              \/ pc[d] = "accept" /\ pc'[d] = "select"
                              \/ pc'[d] \in {"cancel", "wait", "remove", "close", "gone"}
      PROVE  LastIsGiven'
  BY <1>9, NewlyAll
<1>10. ASSUME NEW c \in Conns,
              \/ accept(c) \/ submitPanics(c) \/ readerGone(c) \/ cancel(c)
              \/ waitReader(c)
              \/ removeListener(c) \/ closeMsgs(c) \/ submit(c)
              \/ readMessage(c) \/ readError(c) \/ queueMessage(c) \/ queueCancelled(c)
       PROVE  LastIsGiven'
  <2>1. UNCHANGED <<got, given, msgs, payload, fan, full>>
    BY <1>10 DEF accept, submitPanics, readerGone, cancel, waitReader, removeListener, closeMsgs, submit,
                 readMessage, readError, queueMessage, queueCancelled
  <2>2. \A d \in Conns : \/ pc'[d] = pc[d]
                         \/ pc[d] = "accept" /\ pc'[d] = "select"
                         \/ pc'[d] \in {"cancel", "wait", "remove", "close", "gone"}
    BY <1>10 DEF accept, submitPanics, readerGone, cancel, waitReader, removeListener, closeMsgs, submit,
                 readMessage, readError, queueMessage, queueCancelled, TypeOK
  <2> QED  BY <1>9, <2>1, <2>2
<1>11. ASSUME NEW s \in Savers, loadLast(s) \/ writeSeed(s) PROVE LastIsGiven'
  BY <1>9, <1>11 DEF loadLast, writeSeed
<1>12. CASE UNCHANGED vars
  BY <1>9, <1>12 DEF vars
<1> QED
  BY <1>1, <1>2, <1>3, <1>4, <1>5, <1>6, <1>7, <1>8, <1>10, <1>11, <1>12, NextCases

\* A connection that has written everything queued for it has shown its client
\* the newest output it was given, for every capacity of its queue.
THEOREM DrainedConnectionIsCurrent == Spec => []DrainedIsCurrent
<1>1. Init => LastIsGiven
  BY DEF Init, LastIsGiven, Newly
<1>2. TypeOK /\ FanInv /\ LastIsGiven /\ [Next]_vars => LastIsGiven'
  BY LastIsGivenStep DEF FanInv
<1>3. LastIsGiven => DrainedIsCurrent
  BY DEF LastIsGiven, Newly, DrainedIsCurrent, At
<1> QED  BY <1>1, <1>2, <1>3, FanInvHolds, PTL DEF Spec

=============================================================================
