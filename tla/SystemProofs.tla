---------------------------- MODULE SystemProofs ----------------------------
(***************************************************************************)
(* Proofs about System for every number of connections and savers, every   *)
(* capacity and every number of ends of the process: the server with its   *)
(* queues, saves, crashes and restarts implements Service.                 *)
(***************************************************************************)
EXTENDS System, ServerProofs, ProtocolProofs

\* A save that nothing overlapped stays behind everything that can still be
\* stored: what savers have loaded, lastOutput, and what becomes lastOutput.
Kept == /\ kept \in Nat /\ kept <= seed /\ seed <= world
        /\ lastOutput = 0 \/ kept <= lastOutput
        /\ fan = "store" => kept <= o
        /\ \A i \in 1 .. Len(outputChan) : kept <= outputChan[i]
        /\ \A s \in Savers : request[s] = "write" =>
               kept <= loaded[s] /\ loaded[s] <= lastOutput

SystemInv == TypeOK /\ FanInv /\ Ordered /\ Kept

-----------------------------------------------------------------------------
LEMMA SystemInvInit == SystemInit => SystemInv
<1> SUFFICES ASSUME SystemInit PROVE SystemInv
  OBVIOUS
<1>1. Init /\ kept = 0
  BY DEF SystemInit
<1>2. TypeOK /\ FanInv /\ Ordered
  BY <1>1, TypeInit, FanInvInit, OrderedInit
<1>3. Kept
  BY <1>1 DEF Init, Kept
<1> QED  BY <1>2, <1>3 DEF SystemInv

\* The process has ended: what the server knew is gone, and its invariants hold
\* of what is left.
LEMMA StopInv == SystemInv /\ stop => SystemInv'
<1> SUFFICES ASSUME SystemInv, stop PROVE SystemInv'
  OBVIOUS
<1>1. seed \in Nat /\ Base \in Nat /\ Base >= 1 /\ seed <= Base
  BY DEF SystemInv, TypeOK, Base
<1>2. TypeOK'
  <2>1. /\ world' \in Nat /\ outputChan' \in Seq(Nat) /\ Len(outputChan') <= OutCap
        /\ msgs' \in [Conns -> Seq(Nat)] /\ pending' \in [Conns -> 0 .. ReaderCap]
    BY <1>1, CapacityAssumption DEF stop
  <2> QED  BY <1>1, <2>1 DEF stop, TypeOK
<1>3. FanInv'
  <2>1. QueuesBounded'
    BY CapacityAssumption DEF stop, QueuesBounded
  <2> QED  BY <2>1 DEF stop, FanInv, Reading, Registered, PushHasRoom, Newest
<1>4. Ordered'
  <2>1. ChanRises'
    BY <1>1, RisingEmpty DEF stop, ChanRises
  <2>2. \A c \in Conns : ConnRises(c)'
    <3> SUFFICES ASSUME NEW c \in Conns PROVE ConnRises(c)'
      OBVIOUS
    <3>1. got'[c] = 0 /\ given'[c] = 0 /\ msgs'[c] = <<>> /\ pc'[c] = "new" /\ lastOutput' = 0
      BY DEF stop
    <3> QED  BY <3>1, RisingEmpty DEF ConnRises
  <2> QED  BY <2>1, <2>2 DEF Ordered
<1>5. Kept'
  BY <1>1 DEF stop, Kept
<1> QED  BY <1>2, <1>3, <1>4, <1>5 DEF SystemInv

\* The next life's first output is the world it begins with.
LEMMA StartInv == SystemInv /\ start => SystemInv'
<1> SUFFICES ASSUME SystemInv, start PROVE SystemInv'
  OBVIOUS
<1> USE DEF registry, fanout, handlers, readers, saving, clients
<1>1. /\ world \in Nat /\ lastOutput \in Nat /\ o \in Nat
      /\ lastOutput <= world /\ o <= world /\ kept \in Nat /\ kept <= world
  BY DEF SystemInv, TypeOK, Ordered, ChanRises, Kept
<1>2. /\ outputChan' = <<world>> /\ outputChan' \in Seq(Nat) /\ Len(outputChan') = 1
      /\ outputChan'[1] = world
  BY <1>1 DEF start
<1>3. TypeOK'
  BY <1>2, CapacityAssumption DEF SystemInv, TypeOK, start
<1>4. FanInv'
  BY DEF SystemInv, FanInv, Reading, Registered, QueuesBounded, PushHasRoom, Newest, start
<1>5. Ordered'
  <2>1. Rising(outputChan', lastOutput, world) /\ Rising(outputChan', o, world)
    BY <1>1, <1>2, RisingOne
  <2>2. ChanRises'
    BY <1>1, <2>1 DEF SystemInv, Ordered, ChanRises, start
  <2>3. \A c \in Conns : ConnRises(c)'
    BY DEF SystemInv, Ordered, ConnRises, start
  <2> QED  BY <2>2, <2>3 DEF Ordered
<1>6. Kept'
  BY <1>1, <1>2 DEF SystemInv, Kept, start
<1> QED  BY <1>3, <1>4, <1>5, <1>6 DEF SystemInv

-----------------------------------------------------------------------------
\* What a step of the server does to the world, the seed, the savers and what
\* can still become lastOutput.

LEMMA ServerCases ==
  ASSUME TypeOK, [Next]_vars
  PROVE  \/ Output /\ UNCHANGED <<saving, got, lastOutput, fan, o>>
         \/ receive \/ storeLast
         \/ /\ UNCHANGED <<engine, saving, got, lastOutput>>
            /\ UNCHANGED <<fan, o>> \/ fan' # "store"
         \/ \E c \in Conns : write(c)
         \/ \E s \in Savers : loadLast(s) \/ writeSeed(s)
<1> USE DEF engine, registry, fanout, handlers, readers, saving, clients, At, Goto
<1> DEFINE Rest == /\ UNCHANGED <<engine, saving, got, lastOutput>>
                   /\ UNCHANGED <<fan, o>> \/ fan' # "store"
<1>1. CASE tick
  BY <1>1 DEF tick
<1>2. ASSUME NEW c \in Conns, submit(c)
      PROVE  \/ Output /\ UNCHANGED <<saving, got, lastOutput, fan, o>>
             \/ Rest
  BY <1>2 DEF submit
<1>3. CASE rLock \/ rUnlock
  BY <1>3 DEF rLock, rUnlock
<1>4. ASSUME NEW c \in Conns, offer(c) \/ tooSlow(c) \/ drain(c) \/ push(c) PROVE Rest
  BY <1>4 DEF offer, tooSlow, makeRoom, drain, push
<1>5. ASSUME NEW c \in Conns, addListener(c) \/ accept(c) \/ takePayload(c) PROVE Rest
  BY <1>5 DEF addListener, accept, takePayload
<1>6. ASSUME NEW c \in Conns,
             \/ submitPanics(c) \/ readerGone(c) \/ cancel(c) \/ waitReader(c)
             \/ removeListener(c) \/ closeMsgs(c)
      PROVE  Rest
  BY <1>6 DEF submitPanics, readerGone, cancel, waitReader, removeListener, closeMsgs
<1>7. ASSUME NEW c \in Conns,
             readMessage(c) \/ readError(c) \/ queueMessage(c) \/ queueCancelled(c)
      PROVE  Rest
  BY <1>7 DEF readMessage, readError, queueMessage, queueCancelled
<1>8. CASE UNCHANGED vars
  BY <1>8 DEF vars
<1> QED
  BY <1>1, <1>2, <1>3, <1>4, <1>5, <1>6, <1>7, <1>8, NextCases

\* The step in which a save ends well keeps the seed between kept and the world.
LEMMA SavesKept ==
  ASSUME TypeOK, Ordered, Kept, serverStep, NEW s \in Savers, writeSeed(s)
  PROVE  /\ Kept'
         /\ UNCHANGED <<world, got>>
         /\ \/ UNCHANGED <<seed, kept>>
            \/ seed' \in kept .. world /\ kept' \in {kept, seed'}
<1> USE DEF engine, registry, fanout, handlers, readers, saving, clients
<1>1. /\ world \in Nat /\ seed \in Nat /\ kept \in Nat /\ lastOutput \in Nat /\ o \in Nat
      /\ outputChan \in Seq(Nat) /\ lastOutput <= world
      /\ \A t \in Savers : loaded[t] \in Nat
  BY DEF TypeOK, Ordered, ChanRises, Kept
<1>2. UNCHANGED <<world, outputChan, lastOutput, fan, o, got, loaded>>
  BY DEF writeSeed
<1>3. request[s] = "write" /\ kept <= loaded[s] /\ loaded[s] <= lastOutput
  BY DEF writeSeed, Kept
<1>4. CASE seed' = loaded[s] /\ request' = [request EXCEPT ![s] = "saved"]
  <2>1. /\ Saved(s)
        /\ \A t \in Savers : Saved(t) => t = s
    BY <1>3, <1>4 DEF Saved, TypeOK
  <2>2. kept' = IF Alone(s) THEN loaded[s] ELSE kept
    BY <2>1 DEF serverStep
  <2>3. seed' \in kept .. world /\ kept' \in {kept, seed'}
    BY <1>1, <1>3, <1>4, <2>2
  <2>4. kept' \in Nat /\ kept' <= seed' /\ seed' <= world' /\ kept' <= lastOutput'
    BY <1>1, <1>2, <1>3, <1>4, <2>2
  <2>5. fan' = "store" => kept' <= o'
    BY <1>1, <1>2, <2>4 DEF Ordered, ChanRises
  <2>6. \A i \in 1 .. Len(outputChan') : kept' <= outputChan'[i]
    <3> SUFFICES ASSUME NEW i \in 1 .. Len(outputChan) PROVE kept' <= outputChan[i]
      BY <1>2
    <3>1. lastOutput <= outputChan[i] /\ outputChan[i] \in Nat
      BY <1>1, ElementOfSeq DEF Ordered, ChanRises, Rising
    <3> QED  BY <1>1, <1>2, <2>4, <3>1
  <2>7. \A t \in Savers : request'[t] = "write" =>
            kept' <= loaded'[t] /\ loaded'[t] <= lastOutput'
    <3> SUFFICES ASSUME NEW t \in Savers, request'[t] = "write"
                 PROVE  kept' <= loaded[t] /\ loaded[t] <= lastOutput
      BY <1>2
    <3>1. t # s /\ request[t] = "write"
      BY <1>4 DEF TypeOK
    <3>2. kept' = kept
      BY <2>2, <3>1 DEF Alone
    <3> QED  BY <3>1, <3>2 DEF Kept
  <2> QED  BY <1>2, <2>3, <2>4, <2>5, <2>6, <2>7 DEF Kept
<1>5. CASE request' = [request EXCEPT ![s] = "failed"] /\ UNCHANGED seed
  <2>1. \A t \in Savers : ~Saved(t)
    BY <1>3, <1>5 DEF Saved, TypeOK
  <2>2. kept' = kept
    BY <2>1 DEF serverStep
  <2>3. Kept'
    BY <1>2, <1>5, <2>2 DEF Kept, TypeOK
  <2> QED  BY <1>2, <1>5, <2>2, <2>3
<1> QED  BY <1>4, <1>5 DEF writeSeed, upserted

\* Without a save that ends well, kept stays.
LEMMA KeptStays ==
  ASSUME TypeOK, serverStep, UNCHANGED request \/ \E s \in Savers : loadLast(s)
  PROVE  kept' = kept
<1>1. \A t \in Savers : ~Saved(t)
  BY DEF Saved, loadLast, TypeOK
<1> QED  BY <1>1 DEF serverStep

LEMMA KeptStep == SystemInv /\ serverStep => Kept'
<1> SUFFICES ASSUME SystemInv, serverStep PROVE Kept'
  OBVIOUS
<1> USE DEF engine, registry, fanout, handlers, readers, saving, clients
<1>1. TypeOK /\ Ordered /\ Kept /\ [Next]_vars
  BY DEF SystemInv, serverStep
<1>2. /\ world \in Nat /\ seed \in Nat /\ kept \in Nat /\ lastOutput \in Nat /\ o \in Nat
      /\ outputChan \in Seq(Nat) /\ kept <= seed /\ seed <= world
  BY <1>1 DEF TypeOK, Kept
<1>3. CASE Output /\ UNCHANGED <<saving, got, lastOutput, fan, o>>
  <2>1. kept' = kept /\ world' = world + 1
    BY <1>1, <1>3, KeptStays DEF Output
  <2>2. \A i \in 1 .. Len(outputChan') : kept <= outputChan'[i]
    <3>1. CASE outputChan' = outputChan
      BY <1>1, <3>1 DEF Kept
    <3>2. CASE outputChan' = Append(outputChan, world')
      <4>1. Len(outputChan) \in Nat
        BY <1>2, LenProperties
      <4>2. /\ Len(outputChan') = Len(outputChan) + 1
            /\ outputChan'[Len(outputChan) + 1] = world'
            /\ \A i \in 1 .. Len(outputChan) : outputChan'[i] = outputChan[i]
        BY <1>2, <2>1, <3>2, AppendProperties
      <4>3. \A i \in 1 .. Len(outputChan') :
                i = Len(outputChan) + 1 \/ i \in 1 .. Len(outputChan)
        BY <4>1, <4>2
      <4>4. kept <= world'
        BY <1>2, <2>1
      <4> QED  BY <1>1, <4>2, <4>3, <4>4 DEF Kept
    <3> QED  BY <1>3, <3>1, <3>2 DEF Output, offered
  <2>3. seed' <= world'
    BY <1>2, <1>3, <2>1
  <2> QED  BY <1>1, <1>3, <2>1, <2>2, <2>3 DEF Kept
<1>4. CASE receive
  <2>1. kept' = kept
    BY <1>1, <1>4, KeptStays DEF receive
  <2>2. /\ outputChan # <<>> /\ outputChan' = Tail(outputChan) /\ o' = Head(outputChan)
        /\ UNCHANGED <<world, seed, lastOutput, request, loaded>>
    BY <1>4 DEF receive
  <2>3. Len(outputChan) \in Nat /\ Len(outputChan) >= 1
    BY <1>2, <2>2, LenProperties, EmptySeq
  <2>4. /\ Len(outputChan') = Len(outputChan) - 1
        /\ \A i \in 1 .. Len(outputChan) - 1 : outputChan'[i] = outputChan[i + 1]
    BY <1>2, <2>2, HeadTailProperties
  <2>5. \A i \in 1 .. Len(outputChan) : kept <= outputChan[i]
    BY <1>1 DEF Kept
  <2>6. kept <= o'
    BY <2>2, <2>3, <2>5
  <2>7. \A i \in 1 .. Len(outputChan') : kept <= outputChan'[i]
    <3>1. \A i \in 1 .. Len(outputChan) - 1 : i + 1 \in 1 .. Len(outputChan)
      BY <2>3
    <3> QED  BY <2>4, <2>5, <3>1
  <2> QED  BY <1>1, <2>1, <2>2, <2>6, <2>7 DEF Kept
<1>5. CASE storeLast
  <2>1. kept' = kept
    BY <1>1, <1>5, KeptStays DEF storeLast
  <2>2. lastOutput <= o
    BY <1>1, <1>5 DEF storeLast, Ordered, ChanRises
  <2>3. \A s \in Savers : loaded[s] \in Nat
    BY <1>1 DEF TypeOK
  <2> QED  BY <1>1, <1>2, <1>5, <2>1, <2>2, <2>3 DEF Kept, storeLast
<1>6. CASE /\ UNCHANGED <<engine, saving, got, lastOutput>>
           /\ UNCHANGED <<fan, o>> \/ fan' # "store"
  <2>1. kept' = kept
    BY <1>1, <1>6, KeptStays
  <2> QED  BY <1>1, <1>6, <2>1 DEF Kept
<1>7. ASSUME NEW c \in Conns, write(c) PROVE Kept'
  <2>1. kept' = kept
    BY <1>1, <1>7, KeptStays DEF write
  <2> QED  BY <1>1, <1>7, <2>1 DEF Kept, write
<1>8. ASSUME NEW s \in Savers, loadLast(s) PROVE Kept'
  <2>1. kept' = kept
    BY <1>1, <1>8, KeptStays
  <2>2. /\ UNCHANGED <<world, outputChan, lastOutput, fan, o, seed>>
        /\ request' = [request EXCEPT ![s] = IF lastOutput = 0 THEN "failed" ELSE "write"]
        /\ loaded' = [loaded EXCEPT ![s] = lastOutput]
    BY <1>8 DEF loadLast
  <2>3. \A t \in Savers : request'[t] = "write" =>
            kept <= loaded'[t] /\ loaded'[t] <= lastOutput
    <3> SUFFICES ASSUME NEW t \in Savers, request'[t] = "write"
                 PROVE  kept <= loaded'[t] /\ loaded'[t] <= lastOutput
      OBVIOUS
    <3>1. CASE t = s
      BY <1>1, <1>2, <2>2, <3>1 DEF TypeOK, Kept
    <3>2. CASE t # s
      BY <1>1, <2>2, <3>2 DEF TypeOK, Kept
    <3> QED  BY <3>1, <3>2
  <2> QED  BY <1>1, <2>1, <2>2, <2>3 DEF Kept
<1>9. ASSUME NEW s \in Savers, writeSeed(s) PROVE Kept'
  BY <1>1, <1>9, SavesKept
<1> QED
  BY <1>1, <1>3, <1>4, <1>5, <1>6, <1>7, <1>8, <1>9, ServerCases

LEMMA SystemInvStep == SystemInv /\ [SystemNext]_system => SystemInv'
<1> SUFFICES ASSUME SystemInv, [SystemNext]_system PROVE SystemInv'
  OBVIOUS
<1>1. CASE serverStep
  <2>1. [Next]_vars
    BY <1>1 DEF serverStep
  <2>2. TypeOK' /\ FanInv' /\ Ordered'
    BY <2>1, TypeStep, ReadingStep, RegisteredStep, RoomStep, NewestStep, ForwardStep
       DEF SystemInv, FanInv, Forward
  <2> QED  BY <1>1, <2>2, KeptStep DEF SystemInv
<1>2. ASSUME UNCHANGED vars, UNCHANGED kept PROVE SystemInv'
  <2>1. TypeOK' /\ FanInv' /\ Ordered'
    BY <1>2, TypeStep, ReadingStep, RegisteredStep, RoomStep, NewestStep, ForwardStep
       DEF SystemInv, FanInv, Forward
  <2>2. Kept'
    BY <1>2 DEF SystemInv, Kept, vars
  <2> QED  BY <2>1, <2>2 DEF SystemInv
<1>3. CASE interrupt
  BY <1>2, <1>3 DEF interrupt
<1>4. CASE UNCHANGED system
  BY <1>2, <1>4 DEF system
<1> QED  BY <1>1, <1>3, <1>4, StopInv, StartInv DEF SystemNext

LEMMA SystemInvHolds == SystemSpec => []SystemInv
  BY SystemInvInit, SystemInvStep, PTL DEF SystemSpec

\* The server's variables keep their types over all lives of the process.
THEOREM SystemTypeCorrect == SystemSpec => []TypeOK
<1>1. SystemInv => TypeOK
  BY DEF SystemInv
<1> QED  BY <1>1, SystemInvHolds, PTL

-----------------------------------------------------------------------------
\* Every step of the process is a step of the service, or none.
LEMMA ServiceStep ==
  ASSUME SystemInv, [SystemNext]_system
  PROVE  [Promise!Next]_(Promise!vars)
<1> USE DEF engine, registry, fanout, handlers, readers, saving, clients
<1>1. TypeOK /\ Ordered /\ Kept
  BY DEF SystemInv
<1>2. ASSUME UNCHANGED <<world, got, seed, kept>> PROVE [Promise!Next]_(Promise!vars)
  BY <1>2 DEF Promise!vars
<1>3. CASE serverStep
  <2>1. [Next]_vars
    BY <1>3 DEF serverStep
  <2>2. CASE Output /\ UNCHANGED <<saving, got, lastOutput, fan, o>>
    <3>1. kept' = kept
      BY <1>1, <1>3, <2>2, KeptStays
    <3>2. Promise!Change
      BY <2>2, <3>1 DEF Output, Promise!Change
    <3> QED  BY <3>2 DEF Promise!Next
  <2>3. CASE receive \/ storeLast \/ UNCHANGED <<engine, saving, got, lastOutput>>
    <3>1. UNCHANGED <<world, got, seed, request>>
      BY <2>3 DEF receive, storeLast
    <3>2. kept' = kept
      BY <1>1, <1>3, <3>1, KeptStays
    <3> QED  BY <1>2, <3>1, <3>2
  <2>4. ASSUME NEW c \in Conns, write(c) PROVE [Promise!Next]_(Promise!vars)
    <3>1. UNCHANGED <<world, seed, request>> /\ pc[c] = "write"
      BY <2>4 DEF write, At
    <3>2. kept' = kept
      BY <1>1, <1>3, <3>1, KeptStays
    <3>3. payload[c] \in got[c] .. world
      BY <1>1, <3>1 DEF TypeOK, Ordered, ChanRises, ConnRises
    <3>4. CASE got' = [got EXCEPT ![c] = payload[c]]
      BY <3>1, <3>2, <3>3, <3>4 DEF Promise!Show, Promise!Next
    <3>5. CASE UNCHANGED got
      BY <1>2, <3>1, <3>2, <3>5
    <3> QED  BY <2>4, <3>4, <3>5 DEF write
  <2>5. ASSUME NEW s \in Savers, loadLast(s) PROVE [Promise!Next]_(Promise!vars)
    <3>1. kept' = kept
      BY <1>1, <1>3, <2>5, KeptStays
    <3> QED  BY <1>2, <2>5, <3>1 DEF loadLast
  <2>6. ASSUME NEW s \in Savers, writeSeed(s) PROVE [Promise!Next]_(Promise!vars)
    <3>1. /\ UNCHANGED <<world, got>>
          /\ \/ UNCHANGED <<seed, kept>>
             \/ seed' \in kept .. world /\ kept' \in {kept, seed'}
      BY <1>1, <1>3, <2>6, SavesKept
    <3>2. CASE UNCHANGED <<seed, kept>>
      BY <1>2, <3>1, <3>2
    <3>3. CASE seed' \in kept .. world /\ kept' \in {kept, seed'}
      BY <3>1, <3>3 DEF Promise!Save, Promise!Next
    <3> QED  BY <3>1, <3>2, <3>3
  <2> QED
    BY <1>1, <2>1, <2>2, <2>3, <2>4, <2>5, <2>6, ServerCases
<1>4. CASE interrupt
  BY <1>2, <1>4 DEF interrupt, vars
<1>5. CASE stop
  <2>1. Promise!Stop
    BY <1>5 DEF stop, Base, Promise!Stop, Promise!NothingShown
  <2> QED  BY <2>1 DEF Promise!Next
<1>6. CASE start
  BY <1>2, <1>6 DEF start
<1>7. CASE UNCHANGED system
  BY <1>2, <1>7 DEF system, vars
<1> QED  BY <1>3, <1>4, <1>5, <1>6, <1>7 DEF SystemNext

\* The server, with its queues that drop, its goroutines, its saves that overlap
\* and its crashes, keeps what Service promises: clients see one world go
\* forward, the seed is a world there was, a restart begins with it, and a save
\* that nothing overlapped is never lost.
THEOREM SystemImplementsService == SystemSpec => ImplementsService
<1>1. SystemInit => Promise!Init
  BY DEF SystemInit, Init, Promise!Init, Promise!NothingShown
<1>2. SystemInv /\ [SystemNext]_system => [Promise!Next]_(Promise!vars)
  BY ServiceStep
<1> QED  BY <1>1, <1>2, SystemInvHolds, PTL DEF SystemSpec, ImplementsService, Promise!Spec

-----------------------------------------------------------------------------
\* What an output can contain, with a count that its bytes can hold, and what an
\* empty world contains at first.
ContentsFit == Contents \in Seq(FitOutput) /\ Contents[1] = Defaults

\* The row is the seed's output, a saver writes an output there was, and a
\* process that has ended left the world that the next one begins with.
RowHolds == /\ row = IF seed = 0 THEN <<>> ELSE encodeOutput(Content(seed))
            /\ \A s \in Savers : request[s] = "write" => loaded[s] # 0
            /\ phase = "down" => world = Base

LEMMA ContentFits ==
  ASSUME ContentsFit, NEW n \in Nat, n >= 1
  PROVE  Content(n) \in FitOutput
<1>1. Len(Contents) \in Nat /\ Len(Contents) > 0
  BY SystemAssumption, LenProperties DEF ContentsFit
<1>2. ((n - 1) % Len(Contents)) + 1 \in 1 .. Len(Contents)
  BY <1>1
<1> QED  BY <1>2, ElementOfSeq DEF Content, ContentsFit

LEMMA ContentOne == ContentsFit => Content(1) = Defaults
<1>1. ContentsFit => ((1 - 1) % Len(Contents)) + 1 = 1
  BY SystemAssumption, LenProperties DEF ContentsFit
<1> QED  BY <1>1 DEF Content, ContentsFit

\* An output's bytes are never no bytes.
LEMMA BytesThere == \A m : encodeOutput(m) # <<>>
<1> SUFFICES ASSUME NEW m, encodeOutput(m) = <<>> PROVE FALSE
  OBVIOUS
<1>1. "len" \in DOMAIN encodeOutput(m)
  BY DEF encodeOutput
<1>2. DOMAIN encodeOutput(m) = {}
  OBVIOUS
<1> QED  BY <1>1, <1>2

\* A step of the process stores what it says in the row.
LEMMA ServerRow ==
  ASSUME SystemInv, RowHolds, serverStep PROVE RowHolds'
<1> USE DEF engine, registry, fanout, handlers, readers, saving, clients
<1>1. TypeOK /\ [Next]_vars /\ phase # "down" /\ phase' = phase
  BY DEF SystemInv, serverStep, life
<1>2. ASSUME UNCHANGED <<seed, loaded, request>> PROVE RowHolds'
  <2>1. row' = row
    BY <1>2 DEF serverStep, Saved
  <2> QED  BY <1>1, <1>2, <2>1 DEF RowHolds
<1>3. ASSUME NEW s \in Savers, loadLast(s) PROVE RowHolds'
  <2>1. /\ request' = [request EXCEPT ![s] = IF lastOutput = 0 THEN "failed" ELSE "write"]
        /\ loaded' = [loaded EXCEPT ![s] = lastOutput]
        /\ seed' = seed /\ request[s] # "write"
    BY <1>3 DEF loadLast
  <2>2. \A t \in Savers : ~Saved(t)
    BY <1>1, <2>1 DEF Saved, TypeOK
  <2>3. row' = row
    BY <2>2 DEF serverStep
  <2>4. \A t \in Savers : request'[t] = "write" => loaded'[t] # 0
    BY <1>1, <2>1 DEF RowHolds, TypeOK
  <2> QED  BY <1>1, <2>1, <2>3, <2>4 DEF RowHolds
<1>4. ASSUME NEW s \in Savers, writeSeed(s) PROVE RowHolds'
  <2>1. /\ request[s] = "write" /\ loaded' = loaded /\ loaded[s] # 0
        /\ \/ request' = [request EXCEPT ![s] = "saved"] /\ seed' = loaded[s]
           \/ request' = [request EXCEPT ![s] = "failed"] /\ seed' = seed
    BY <1>4 DEF writeSeed, upserted, RowHolds
  <2>2. \A t \in Savers : request'[t] = "write" => loaded'[t] # 0
    BY <1>1, <2>1 DEF RowHolds, TypeOK
  <2>3. CASE request' = [request EXCEPT ![s] = "saved"] /\ seed' = loaded[s]
    <3>1. Saved(s) /\ \A t \in Savers : Saved(t) => t = s
      BY <1>1, <2>1, <2>3 DEF Saved, TypeOK
    <3>2. row' = encodeOutput(Content(loaded[s]))
      BY <3>1 DEF serverStep
    <3> QED  BY <1>1, <2>1, <2>2, <2>3, <3>2 DEF RowHolds
  <2>4. CASE request' = [request EXCEPT ![s] = "failed"] /\ seed' = seed
    <3>1. \A t \in Savers : ~Saved(t)
      BY <1>1, <2>1, <2>4 DEF Saved, TypeOK
    <3>2. row' = row
      BY <3>1 DEF serverStep
    <3> QED  BY <1>1, <2>2, <2>4, <3>2 DEF RowHolds
  <2> QED  BY <2>1, <2>3, <2>4
<1>5. CASE receive \/ storeLast
  BY <1>2, <1>5 DEF receive, storeLast
<1>6. ASSUME NEW c \in Conns, write(c) PROVE RowHolds'
  BY <1>2, <1>6 DEF write
<1> QED  BY <1>1, <1>2, <1>3, <1>4, <1>5, <1>6, ServerCases

LEMMA RowStep == SystemInv /\ RowHolds /\ [SystemNext]_system => RowHolds'
<1> SUFFICES ASSUME SystemInv, RowHolds, [SystemNext]_system PROVE RowHolds'
  OBVIOUS
<1> USE DEF engine, registry, fanout, handlers, readers, saving, clients
<1>1. CASE interrupt
  BY <1>1 DEF interrupt, vars, RowHolds
<1>2. CASE stop
  <2>1. row' = row /\ seed' = seed /\ world' = Base /\ Base' = Base
    BY <1>2 DEF stop, Base
  <2>2. \A s \in Savers : request'[s] # "write"
    BY <1>2 DEF stop
  <2> QED  BY <2>1, <2>2 DEF RowHolds
<1>3. CASE start
  BY <1>3 DEF start, RowHolds
<1>4. CASE UNCHANGED system
  BY <1>4 DEF system, vars, RowHolds, Base
<1> QED  BY <1>1, <1>2, <1>3, <1>4, ServerRow DEF SystemNext

\* A life begins with what was saved, or with the defaults where nothing was:
\* cells with their ages and colours, state and speed survive the row, for
\* every sequence of contents that fit it.
THEOREM LivesResume ==
  ASSUME ContentsFit PROVE SystemSpec => ResumesAsSaved
<1>1. SystemInit => RowHolds
  BY DEF SystemInit, Init, RowHolds
<1>2. SystemInv /\ RowHolds /\ start => resumed' = Content(world')
  <2> SUFFICES ASSUME SystemInv, RowHolds, start PROVE resumed' = Content(world')
    OBVIOUS
  <2>1. resumed' = setSeed(row) /\ world' = Base /\ seed \in Nat
    BY DEF start, RowHolds, SystemInv, TypeOK
  <2>2. CASE seed = 0
    <3>1. row = <<>> /\ Base = 1
      BY <2>2 DEF RowHolds, Base
    <3> QED  BY <2>1, <3>1, ContentOne DEF setSeed
  <2>3. CASE seed # 0
    <3>1. row = encodeOutput(Content(seed)) /\ row # <<>> /\ Base = seed
      BY <2>3, BytesThere DEF RowHolds, Base
    <3>2. Content(seed) \in FitOutput
      BY <2>1, <2>3, ContentFits
    <3>3. decodeOutput(row) = Decoded(Content(seed))
      BY <3>1, <3>2, OutputRoundTrip
    <3>4. decodeOutput(row).ok /\ decodeOutput(row).msg = Content(seed)
      BY <3>3 DEF Decoded
    <3> QED  BY <2>1, <3>1, <3>4 DEF setSeed
  <2> QED  BY <2>2, <2>3
<1>3. SystemSpec => []RowHolds
  BY <1>1, SystemInvHolds, RowStep, PTL DEF SystemSpec
<1> QED  BY <1>2, <1>3, SystemInvHolds, PTL DEF SystemSpec, ResumesAsSaved

=============================================================================
