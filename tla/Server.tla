------------------------------- MODULE Server -------------------------------
(***************************************************************************)
(* internal/server: the fan-out goroutine that takes the engine's outputs  *)
(* and gives them to every listener, one playHandler with its reader       *)
(* goroutine per websocket connection, and /save, which stores the newest  *)
(* output as the seed.  An output is represented by its number, counted in *)
(* the order in which the engine sends (or drops) its outputs; numbers     *)
(* start at 1, so that 0 is "no output yet".                               *)
(*                                                                         *)
(* The engine appears as the outputs it sends into the bounded outputChan, *)
(* one step for each (module Engine has its goroutines, and the outputs    *)
(* they may send out of order).  One action is one channel operation, one  *)
(* critical section or one socket operation of the server.                 *)
(***************************************************************************)
EXTENDS Integers, Sequences, FiniteSets

CONSTANTS Conns,         \* websocket connections, each served once
          Savers,        \* requests to /save
          OutCap,        \* capacity of the engine's outputChan
          ListenerCap,   \* capacity of listener.msgs, 4 in playHandler
          ReaderCap,     \* capacity of readerMsgChan, 10 in playHandler
          MaxWorld       \* bound on the outputs of the engine

ASSUME CapacityAssumption == /\ OutCap \in Nat \ {0} /\ ListenerCap \in Nat \ {0}
                             /\ ReaderCap \in Nat \ {0}
                             /\ MaxWorld \in Nat

VARIABLES world,        \* number of the engine's newest output
          outputChan,   \* engine.Output()
          lastOutput,   \* server.lastOutput
          listeners,    \* server.listeners, by connection
          reading,      \* the fan-out holds listenersMtx for reading
          fan,          \* where the fan-out goroutine is
          o,            \* the output it is giving out
          left,         \* the listeners it still has to serve
          full,         \* the listener whose queue it found full
          pc,           \* where each playHandler is
          msgs,         \* each listener's queue
          open,         \* ... which has not been closed
          payload,      \* what each handler is writing to its socket
          reader,       \* where each reader goroutine is
          pending,      \* number of messages in each readerMsgChan
          cancelled,    \* each wsCtx has been cancelled
          request,      \* where each request to /save is
          loaded,       \* the output it has loaded
          seed,         \* the row of the database
          given,        \* history: last output put into a listener's queue
          got,          \* history: last output written to a client
          edit          \* history: the output of a client's newest change

engine == <<world, outputChan>>
registry == <<lastOutput, listeners, reading>>
fanout == <<fan, o, left, full>>
handlers == <<pc, open, payload>>
readers == <<reader, pending, cancelled>>
saving == <<request, loaded, seed>>
clients == <<got, edit>>

vars == <<world, outputChan, lastOutput, listeners, reading, fan, o, left, full,
          pc, msgs, open, payload, reader, pending, cancelled, request, loaded,
          seed, given, got, edit>>

Init == /\ world = 1
        /\ outputChan = <<1>>
        /\ lastOutput = 0 /\ listeners = {} /\ reading = FALSE
        /\ fan = "receive" /\ o = 0 /\ left = {} /\ full = {}
        /\ pc = [c \in Conns |-> "new"]
        /\ msgs = [c \in Conns |-> <<>>]
        /\ open = [c \in Conns |-> TRUE]
        /\ payload = [c \in Conns |-> 0]
        /\ reader = [c \in Conns |-> "none"]
        /\ pending = [c \in Conns |-> 0]
        /\ cancelled = [c \in Conns |-> FALSE]
        /\ request = [s \in Savers |-> "none"]
        /\ loaded = [s \in Savers |-> 0]
        /\ seed = 0
        /\ given = [c \in Conns |-> 0]
        /\ got = [c \in Conns |-> 0]
        /\ edit = [c \in Conns |-> 0]

-----------------------------------------------------------------------------
At(c, label) == pc[c] = label

Goto(c, label) == pc' = [pc EXCEPT ![c] = label]

\* addListener and removeListener wait for the fan-out's read lock; among each
\* other they are single steps.  Mutant: nobody locks.
LockFreely == TRUE
CanLock == ~reading

\* A send into a listener's queue.  Mutant: the newest comes out first.
queuedFirst(q, out) == <<out>> \o q
queued(q, out) == Append(q, out)

\* generateOutput sends an output or drops it, after a change of the engine.
\* Mutant: it is never dropped.
offeredUnbounded(chan, out) == Append(chan, out)
offered(chan, out) == IF Len(chan) < OutCap THEN Append(chan, out) ELSE chan

Output == /\ world < MaxWorld
          /\ world' = world + 1
          /\ outputChan' = offered(outputChan, world')

\* A tick of the engine while it is playing.
tick == /\ Output
        /\ UNCHANGED <<registry, fanout, handlers, msgs, readers, saving, given, clients>>

-----------------------------------------------------------------------------
\* The fan-out goroutine of NewServer.
receive == /\ fan = "receive"
           /\ outputChan # <<>>
           /\ o' = Head(outputChan)
           /\ outputChan' = Tail(outputChan)
           /\ fan' = "store"
           /\ UNCHANGED <<world, registry, left, full, handlers, msgs, readers, saving,
                          given, clients>>

storeLast == /\ fan = "store"
             /\ lastOutput' = o
             /\ fan' = "lock"
             /\ UNCHANGED <<engine, listeners, reading, o, left, full, handlers, msgs,
                            readers, saving, given, clients>>

rLock == /\ fan = "lock"
         /\ reading' = TRUE
         /\ left' = listeners
         /\ fan' = "range"
         /\ UNCHANGED <<engine, lastOutput, listeners, o, full, handlers, msgs, readers,
                        saving, given, clients>>

\* The send of the select, where the queue has room.
offer(c) == /\ fan = "range" /\ c \in left
            /\ Len(msgs[c]) < ListenerCap
            /\ msgs' = [msgs EXCEPT ![c] = queued(@, o)]
            /\ given' = [given EXCEPT ![c] = o]
            /\ left' = left \ {c}
            /\ UNCHANGED <<engine, registry, fan, o, full, handlers, readers, saving, clients>>

\* Its default, where the queue is full just now.  Mutant: drop the output.
dropOutput(c) == left' = left \ {c} /\ UNCHANGED <<fan, full>>
makeRoom(c) == fan' = "drain" /\ full' = {c} /\ UNCHANGED left

tooSlow(c) == /\ fan = "range" /\ c \in left
              /\ Len(msgs[c]) >= ListenerCap
              /\ makeRoom(c)
              /\ UNCHANGED <<engine, registry, o, handlers, msgs, readers, saving, given,
                             clients>>

\* <-l.msgs of the default: it waits if the queue has become empty meanwhile.
\* Mutant: nothing is taken out.
keptAll(q) == q
drained(q) == Tail(q)

drain(c) == /\ fan = "drain" /\ c \in full
            /\ msgs[c] # <<>>
            /\ msgs' = [msgs EXCEPT ![c] = drained(@)]
            /\ fan' = "push"
            /\ UNCHANGED <<engine, registry, o, left, full, handlers, readers, saving,
                           given, clients>>

\* l.msgs <- o of the default.
push(c) == /\ fan = "push" /\ c \in full
           /\ Len(msgs[c]) < ListenerCap
           /\ msgs' = [msgs EXCEPT ![c] = queued(@, o)]
           /\ given' = [given EXCEPT ![c] = o]
           /\ fan' = "range"
           /\ left' = left \ {c}
           /\ full' = {}
           /\ UNCHANGED <<engine, registry, o, handlers, readers, saving, clients>>

rUnlock == /\ fan = "range" /\ left = {}
           /\ reading' = FALSE
           /\ o' = 0
           /\ fan' = "receive"
           /\ UNCHANGED <<engine, lastOutput, listeners, left, full, handlers, msgs,
                          readers, saving, given, clients>>

-----------------------------------------------------------------------------
\* playHandler.  addListener's send cannot wait: the queue is new and nobody
\* else can reach it while the lock is held.
addListener(c) ==
    /\ At(c, "new")
    /\ CanLock
    /\ listeners' = listeners \cup {c}
    /\ msgs' = [msgs EXCEPT ![c] = IF lastOutput # 0 THEN <<lastOutput>> ELSE <<>>]
    /\ given' = [given EXCEPT ![c] = lastOutput]
    /\ Goto(c, "accept")
    /\ UNCHANGED <<engine, lastOutput, reading, fanout, open, payload, readers, saving,
                   clients>>

\* websocket.Accept: the reader is started, or only the listener is removed.
accept(c) ==
    /\ At(c, "accept")
    /\ \/ Goto(c, "select") /\ reader' = [reader EXCEPT ![c] = "read"]
       \/ Goto(c, "remove") /\ UNCHANGED reader
    /\ UNCHANGED <<engine, registry, fanout, open, payload, msgs, pending, cancelled,
                   saving, given, clients>>

takePayload(c) ==
    /\ At(c, "select")
    /\ msgs[c] # <<>>
    /\ payload' = [payload EXCEPT ![c] = Head(msgs[c])]
    /\ msgs' = [msgs EXCEPT ![c] = Tail(@)]
    /\ Goto(c, "write")
    /\ UNCHANGED <<engine, registry, fanout, open, readers, saving, given, clients>>

\* socket.Write succeeds, or its error ends the handler.  Mutant: it goes on.
goOn == "select"
afterError == "cancel"

write(c) ==
    /\ At(c, "write")
    /\ \/ Goto(c, "select") /\ got' = [got EXCEPT ![c] = payload[c]]
       \/ Goto(c, afterError) /\ UNCHANGED got
    /\ payload' = [payload EXCEPT ![c] = 0]
    /\ UNCHANGED <<engine, registry, fanout, open, msgs, readers, saving, given, edit>>

\* The next message goes to the engine, which answers with an output or, if it
\* is an error there, with nothing.
submit(c) ==
    /\ At(c, "select")
    /\ pending[c] > 0
    /\ pending' = [pending EXCEPT ![c] = @ - 1]
    /\ \/ Output /\ edit' = [edit EXCEPT ![c] = world']
       \/ UNCHANGED <<engine, edit>>
    /\ UNCHANGED <<registry, fanout, handlers, msgs, reader, cancelled, saving, given,
                   got>>

\* SubmitMessage panics on an empty message, and on one of set cells whose
\* length check has wrapped: the handler ends through its defers.
submitPanics(c) ==
    /\ At(c, "select")
    /\ pending[c] > 0
    /\ pending' = [pending EXCEPT ![c] = @ - 1]
    /\ Goto(c, "cancel")
    /\ UNCHANGED <<engine, registry, fanout, open, payload, msgs, reader, cancelled,
                   saving, given, clients>>

\* The reader's error ends the handler, whatever is still pending.  If
\* readerMsgChan is empty and closed by then, the select may take nil from it
\* instead: SubmitMessage(nil) panics and the handler ends through its defers.
readerGone(c) ==
    /\ At(c, "select")
    /\ reader[c] = "ended"
    /\ Goto(c, "cancel")
    /\ UNCHANGED <<engine, registry, fanout, open, payload, msgs, readers, saving, given,
                   clients>>

\* The defers: wsCancel, wg.Wait, CloseNow, removeListener, close(l.msgs).
\* Mutant: wsCancel is not called.
notCancelled == FALSE
wsCancel == TRUE

cancel(c) ==
    /\ At(c, "cancel")
    /\ cancelled' = [cancelled EXCEPT ![c] = wsCancel]
    /\ Goto(c, "wait")
    /\ UNCHANGED <<engine, registry, fanout, open, payload, msgs, reader, pending, saving,
                   given, clients>>

waitReader(c) ==
    /\ At(c, "wait")
    /\ reader[c] = "ended"
    /\ Goto(c, "remove")
    /\ UNCHANGED <<engine, registry, fanout, open, payload, msgs, readers, saving, given,
                   clients>>

removeListener(c) ==
    /\ At(c, "remove")
    /\ CanLock
    /\ listeners' = listeners \ {c}
    /\ Goto(c, "close")
    /\ UNCHANGED <<engine, lastOutput, reading, fanout, open, payload, msgs, readers,
                   saving, given, clients>>

closeMsgs(c) ==
    /\ At(c, "close")
    /\ open' = [open EXCEPT ![c] = FALSE]
    /\ Goto(c, "gone")
    /\ UNCHANGED <<engine, registry, fanout, payload, msgs, readers, saving, given, clients>>

-----------------------------------------------------------------------------
\* The reader goroutine: socket.Read returns a message, which is queued once
\* there is room, or an error (the client left, or wsCtx was cancelled).
readMessage(c) ==
    /\ reader[c] = "read" /\ ~cancelled[c]
    /\ reader' = [reader EXCEPT ![c] = "queue"]
    /\ UNCHANGED <<engine, registry, fanout, handlers, msgs, pending, cancelled, saving,
                   given, clients>>

readError(c) ==
    /\ reader[c] = "read"
    /\ reader' = [reader EXCEPT ![c] = "ended"]
    /\ UNCHANGED <<engine, registry, fanout, handlers, msgs, pending, cancelled, saving,
                   given, clients>>

hasRoom(c) == pending[c] < ReaderCap

queueMessage(c) ==
    /\ reader[c] = "queue"
    /\ hasRoom(c)
    /\ pending' = [pending EXCEPT ![c] = @ + 1]
    /\ reader' = [reader EXCEPT ![c] = "read"]
    /\ UNCHANGED <<engine, registry, fanout, handlers, msgs, cancelled, saving, given, clients>>

queueCancelled(c) ==
    /\ reader[c] = "queue"
    /\ cancelled[c]
    /\ reader' = [reader EXCEPT ![c] = "ended"]
    /\ UNCHANGED <<engine, registry, fanout, handlers, msgs, pending, cancelled, saving,
                   given, clients>>

-----------------------------------------------------------------------------
\* /save: the load of lastOutput ("no seed" if there is none), then WriteSeed.
loadLast(s) ==
    /\ request[s] = "none"
    /\ request' = [request EXCEPT ![s] = IF lastOutput = 0 THEN "failed" ELSE "write"]
    /\ loaded' = [loaded EXCEPT ![s] = lastOutput]
    /\ UNCHANGED <<engine, registry, fanout, handlers, msgs, readers, seed, given, clients>>

\* The row is inserted, or replaced.  Mutant: it is only inserted.
inserted(s) == IF seed = 0 THEN loaded[s] ELSE seed
upserted(s) == loaded[s]

writeSeed(s) ==
    /\ request[s] = "write"
    /\ \/ seed' = upserted(s) /\ request' = [request EXCEPT ![s] = "saved"]
       \/ request' = [request EXCEPT ![s] = "failed"] /\ UNCHANGED seed
    /\ UNCHANGED <<engine, registry, fanout, handlers, msgs, readers, loaded, given, clients>>

-----------------------------------------------------------------------------
fanStep == \/ receive \/ storeLast \/ rLock \/ rUnlock
           \/ \E c \in Conns : offer(c) \/ tooSlow(c) \/ drain(c) \/ push(c)

handlerStep(c) == \/ addListener(c) \/ accept(c)     \/ takePayload(c) \/ write(c)
                  \/ submit(c)      \/ submitPanics(c)
                  \/ readerGone(c)  \/ cancel(c) \/ waitReader(c)
                  \/ removeListener(c) \/ closeMsgs(c)

readerStep(c) == readMessage(c) \/ readError(c) \/ queueMessage(c) \/ queueCancelled(c)

saveStep(s) == loadLast(s) \/ writeSeed(s)

Next == \/ tick
        \/ fanStep
        \/ \E c \in Conns : handlerStep(c) \/ readerStep(c)
        \/ \E s \in Savers : saveStep(s)

Spec == Init /\ [][Next]_vars

\* Goroutines that can run do run, a goroutine waiting for listenersMtx gets it
\* in the end, a select takes every ready case again and again, and a read on a
\* cancelled connection returns.  Clients need not send, leave or save.
Fairness ==
    /\ WF_vars(fanStep)
    /\ \A c \in Conns : /\ WF_vars(handlerStep(c))
                        /\ SF_vars(addListener(c)) /\ SF_vars(removeListener(c))
                        /\ SF_vars(takePayload(c)) /\ SF_vars(submit(c))
                        /\ SF_vars(readerGone(c))
                        /\ WF_vars(cancelled[c] /\ readError(c))
                        /\ WF_vars(queueMessage(c)) /\ WF_vars(queueCancelled(c))

FairSpec == Spec /\ Fairness

-----------------------------------------------------------------------------
TypeOK == /\ world \in Nat /\ outputChan \in Seq(Nat) /\ Len(outputChan) <= OutCap
          /\ lastOutput \in Nat /\ listeners \subseteq Conns /\ reading \in BOOLEAN
          /\ fan \in {"receive", "store", "lock", "range", "drain", "push"}
          /\ o \in Nat /\ left \subseteq Conns /\ full \subseteq Conns
          /\ pc \in [Conns -> {"new", "accept", "select", "write", "cancel", "wait",
                               "remove", "close", "gone"}]
          /\ msgs \in [Conns -> Seq(Nat)]
          /\ open \in [Conns -> BOOLEAN] /\ cancelled \in [Conns -> BOOLEAN]
          /\ payload \in [Conns -> Nat]
          /\ reader \in [Conns -> {"none", "read", "queue", "ended"}]
          /\ pending \in [Conns -> 0 .. ReaderCap]
          /\ request \in [Savers -> {"none", "write", "saved", "failed"}]
          /\ loaded \in [Savers -> Nat] /\ seed \in Nat
          /\ given \in [Conns -> Nat] /\ got \in [Conns -> Nat]
          /\ edit \in [Conns -> Nat]

\* The fan-out never sends on a closed queue: whoever it still has to serve is
\* a registered listener, whose handler closes the queue only after it has
\* removed itself under the write lock.
FanServesOpenQueues ==
    reading => \A c \in left \cup full : c \in listeners /\ open[c]

\* The second send to a slow listener finds the room the first receive made.
PushHasRoom == fan = "push" => \A c \in full : Len(msgs[c]) < ListenerCap

\* Whenever the fan-out is between two outputs, every registered listener has
\* been given the newest one, however it interleaved with addListener and
\* however slow the listener is: what is dropped is always older.
NobodyMissesTheLatest ==
    fan = "receive" => \A c \in listeners : given[c] = lastOutput

\* A connection that has written everything queued for it has shown its client
\* the newest output the fan-out has put into its queue.
DrainedIsCurrent ==
    \A c \in Conns : At(c, "select") /\ msgs[c] = <<>> /\ fan # "push" => got[c] = given[c]

\* The client of a connection gets the outputs in the order in which the engine
\* sent them, even where the one of addListener and the fan-out's cross.
NeverBack == [][\A c \in Conns : got'[c] >= got[c]]_vars

\* Every client that connects receives the game state ("Expect to receive a
\* message (the initial game state)"), unless its connection ends.
EveryClientGetsState ==
    \A c \in Conns :
        <>(got[c] # 0 \/ pc[c] \in {"remove", "cancel", "wait", "close", "gone"})

\* Once the engine has processed an edit and nothing is under way to the server,
\* a save contains the edit ("Check that the seed was written and contains the
\* expected cell" in the integration test).
SettledSaveHasEdit ==
    [][\A s \in Savers, c \in Conns :
           loadLast(s) /\ fan = "receive" /\ outputChan = <<>>
               => loaded'[s] >= edit[c]]_vars

=============================================================================
