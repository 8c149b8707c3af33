------------------------------- MODULE Engine -------------------------------
(***************************************************************************)
(* internal/engine: the goroutines that share one world.  Every client     *)
(* connection calls SubmitMessage from its own goroutine; the ticker       *)
(* goroutine (Start) advances the world while the state is playing.  state,*)
(* speed and speedChanged are atomics read and written without the mutex;  *)
(* the world (internal/conway) and the output buffers are only used under  *)
(* it.  Every output is sent without blocking into outputChan, from which  *)
(* the server's fan-out goroutine takes it.                                *)
(*                                                                         *)
(* One action is one atomic step of a goroutine: an atomic load, store or  *)
(* swap, or a critical section in which nothing else can be observed.      *)
(* generateOutput's critical section is split in two, because it loads     *)
(* state and speed at different instants.  The world is represented by its *)
(* revision: how often it was changed (module Conway has its contents).    *)
(***************************************************************************)
EXTENDS Integers, Sequences, FiniteSets

CONSTANTS Clients,     \* goroutines that call SubmitMessage
          Ticker,      \* the goroutine that runs Start
          None,        \* no goroutine
          Types,       \* the types of message the clients send
          Speeds,      \* milliseconds a tick may be set to (a uint16)
          OutCap,      \* capacity of outputChan, 2 in NewEngine
          MaxWorld     \* bound on the world's revision: later changes do not count

Procs == Clients \cup {Ticker}

ASSUME ProcsAssumption == /\ IsFiniteSet(Clients)
                          /\ Ticker \notin Clients
                          /\ None \notin Procs

ASSUME TypesAssumption ==
    Types \subseteq {"Clear", "Next", "Pause", "Play", "Randomise", "SetCells", "SetSpeed",
                     "Unknown"}

ASSUME BoundsAssumption == /\ Speeds \subseteq Nat
                           /\ OutCap \in Nat \ {0}
                           /\ MaxWorld \in Nat

Messages == [type : Types \ {"SetSpeed"}, speed : {0}]
            \cup [type : Types \cap {"SetSpeed"}, speed : Speeds]

Outputs == [world : Nat, playing : BOOLEAN, speed : Nat]

VARIABLES state,         \* "paused" or "playing"
          speed,         \* the speed clients have set
          speedChanged,  \* tells the ticker to take over a new speed
          mutex,         \* who holds it, or None
          world,         \* revision of the world
          output,        \* the shared protocol.Output being encoded
          outputChan,    \* outputs waiting for the server
          closed,        \* outputChan has been closed
          ctxDone,       \* the engine's context has been cancelled
          period,        \* what the time.Ticker really ticks at
          pc,            \* where each goroutine is
          msg,           \* the message each client goroutine handles
          out,           \* the encoded output each goroutine is about to send
          mine,          \* history: revision of a goroutine's last own change
          stateBy,       \* history: who stored state last
          speedBy,       \* history: who swapped speed last
          late           \* history: generations ticked while paused, until Play

shared == <<state, speed, speedChanged, world>>
channel == <<outputChan, closed>>
history == <<mine, stateBy, speedBy, late>>

vars == <<state, speed, speedChanged, mutex, world, output, outputChan, closed,
          ctxDone, period, pc, msg, out, mine, stateBy, speedBy, late>>

NoMessage == [type |-> "None", speed |-> 0]

Blank == [world |-> 0, playing |-> FALSE, speed |-> 0]

\* NewEngine: the seed (or its defaults) decides state and speed, and a first
\* output is generated before anybody else runs.
Init == /\ state \in {"paused", "playing"}
        /\ speed \in Speeds
        /\ speedChanged = FALSE
        /\ mutex = None
        /\ world = 0
        /\ output = [world |-> 0, playing |-> state = "playing", speed |-> speed]
        /\ outputChan = <<output>>
        /\ closed = FALSE
        /\ ctxDone = FALSE
        /\ period = 0
        /\ pc = [p \in Procs |-> IF p = Ticker THEN "start" ELSE "idle"]
        /\ msg = [c \in Clients |-> NoMessage]
        /\ out = [p \in Procs |-> Blank]
        /\ mine = [p \in Procs |-> 0]
        /\ stateBy = None
        /\ speedBy = None
        /\ late = 0

-----------------------------------------------------------------------------
At(p, label) == pc[p] = label

\* A panic of the ticker goroutine ends the process, after its deferred function
\* if there is one by then: nobody moves afterwards.
Up == ~At(Ticker, "panicked")

Goto(p, label) == Up /\ pc' = [pc EXCEPT ![p] = label]

\* The end of a call: its locals are gone, and its history with them.
Return(c) == /\ Goto(c, "idle")
             /\ msg' = [msg EXCEPT ![c] = NoMessage]

Handling(c, types) == At(c, "handle") /\ msg[c].type \in types

\* What waits for the mutex.  Mutant: nobody locks.
LockFreely == TRUE
CanLock == mutex = None

\* An edit or a generation inside one critical section.  It may leave the world
\* as it was: a SetCells without cells, a Clear or a generation of a dead world.
ChangeWorld(p) == /\ CanLock
                  /\ world' \in {world} \cup {w \in {world + 1} : w <= MaxWorld}
                  /\ mine' = [mine EXCEPT ![p] = world']

-----------------------------------------------------------------------------
\* SubmitMessage, from its call to the handler of the message.  A message that
\* cannot be decoded is an error and nothing happens.
SubmitMessage(c, m) ==
    /\ At(c, "idle")
    /\ msg' = [msg EXCEPT ![c] = m]
    /\ Goto(c, "handle")
    /\ UNCHANGED <<shared, channel, history, mutex, output, ctxDone, period, out>>

\* handleCommand(Clear), handleCommand(Randomise) and an accepted SetCells.
handleEdit(c) ==
    /\ Handling(c, {"Clear", "Randomise", "SetCells"})
    /\ ChangeWorld(c)
    /\ Goto(c, "snapshot")
    /\ UNCHANGED <<state, speed, speedChanged, channel, mutex, output, ctxDone,
                   period, msg, out, stateBy, speedBy, late>>

\* A SetCells that meets a live cell is an error: nothing changes, no output.
handleSetCellsFails(c) ==
    /\ Handling(c, {"SetCells"})
    /\ CanLock
    /\ Return(c)
    /\ UNCHANGED <<shared, channel, history, mutex, output, ctxDone, period, out>>

\* A command that handleCommand does not know: an output and nothing else.
handleUnknown(c) ==
    /\ Handling(c, {"Unknown"})
    /\ Goto(c, "snapshot")
    /\ UNCHANGED <<shared, channel, history, mutex, output, ctxDone, period, msg, out>>

\* Next is an error while playing; the check and the step are two instants.
handleNext(c) ==
    /\ Handling(c, {"Next"})
    /\ IF state = "playing" THEN Return(c) ELSE Goto(c, "calc") /\ UNCHANGED msg
    /\ UNCHANGED <<shared, channel, history, mutex, output, ctxDone, period, out>>

Wanted(c) == IF msg[c].type = "Play" THEN "playing" ELSE "paused"

\* Pause and Play: the load and its error, then the store.
handlePausePlay(c) ==
    /\ Handling(c, {"Pause", "Play"})
    /\ IF state = Wanted(c) THEN Return(c) ELSE Goto(c, "store") /\ UNCHANGED msg
    /\ UNCHANGED <<shared, channel, history, mutex, output, ctxDone, period, out>>

storeState(c) ==
    /\ At(c, "store")
    /\ state' = Wanted(c)
    /\ stateBy' = c
    /\ late' = IF Wanted(c) = "playing" THEN 0 ELSE late
    /\ Goto(c, "snapshot")
    /\ UNCHANGED <<speed, speedChanged, world, channel, mutex, output, ctxDone,
                   period, msg, out, mine, speedBy>>

\* handleSetSpeed: the swap and its error, then the flag for the ticker.
handleSetSpeed(c) ==
    /\ Handling(c, {"SetSpeed"})
    /\ speed' = msg[c].speed
    /\ IF speed = msg[c].speed THEN Return(c) /\ UNCHANGED speedBy
                               ELSE Goto(c, "flag") /\ speedBy' = c /\ UNCHANGED msg
    /\ UNCHANGED <<state, speedChanged, world, channel, mutex, output, ctxDone,
                   period, out, mine, stateBy, late>>

flagSpeed(c) ==
    /\ At(c, "flag")
    /\ speedChanged' = TRUE
    /\ Goto(c, "snapshot")
    /\ UNCHANGED <<state, speed, world, channel, history, mutex, output, ctxDone,
                   period, msg, out>>

\* calcNextGen, called for Next by a client and for a tick by the ticker.
calcNextGen(p) ==
    /\ At(p, "calc")
    /\ ChangeWorld(p)
    /\ late' = IF p = Ticker /\ state = "paused" THEN late + 1 ELSE late
    /\ Goto(p, "snapshot")
    /\ UNCHANGED <<state, speed, speedChanged, channel, mutex, output, ctxDone,
                   period, msg, out, stateBy, speedBy>>

-----------------------------------------------------------------------------
\* generateOutput up to the load of state: the cells are copied under the lock.
snapshot(p) ==
    /\ At(p, "snapshot")
    /\ CanLock
    /\ mutex' = p
    /\ output' = [output EXCEPT !.world = world, !.playing = (state = "playing")]
    /\ Goto(p, "encode")
    /\ UNCHANGED <<shared, channel, history, ctxDone, period, msg, out>>

\* Mutants: the cells are not copied; the ticker's period passes for the speed.
encodedWithoutCells == [output EXCEPT !.speed = speed, !.world = 0]
encodedPeriod == [output EXCEPT !.speed = period]
encoded == [output EXCEPT !.speed = speed]

\* Mutant: a path without the unlock.
KeepLocked == mutex' = mutex
Unlock == mutex' = None

\* The load of speed, Encode into the shared buffer, the copy, the unlock.
encode(p) ==
    /\ At(p, "encode")
    /\ output' = encoded
    /\ out' = [out EXCEPT ![p] = encoded]
    /\ Unlock
    /\ Goto(p, "send")
    /\ UNCHANGED <<shared, channel, history, ctxDone, period, msg>>

\* At the end of generateOutput a goroutine's locals are gone.
Forget(p) ==
    /\ out' = [out EXCEPT ![p] = Blank]
    /\ mine' = [mine EXCEPT ![p] = 0]
    /\ stateBy' = IF stateBy = p THEN None ELSE stateBy
    /\ speedBy' = IF speedBy = p THEN None ELSE speedBy

\* The select of generateOutput: a full channel drops the output ("NOPE").
\* Mutant: the channel has no limit.
offeredUnbounded(o) == Append(outputChan, o)
offered(o) == IF Len(outputChan) < OutCap THEN Append(outputChan, o) ELSE outputChan

send(p) ==
    /\ At(p, "send")
    /\ ~closed
    /\ outputChan' = offered(out[p])
    /\ Forget(p)
    /\ IF p = Ticker THEN Goto(p, "check") /\ UNCHANGED msg ELSE Return(p)
    /\ UNCHANGED <<shared, late, mutex, output, closed, ctxDone, period>>

\* A send on the closed channel panics; the HTTP framework recovers the
\* connection's goroutine, which is gone afterwards.
sendPanics(p) ==
    /\ At(p, "send")
    /\ closed
    /\ Forget(p)
    /\ Goto(p, "panicked")
    /\ msg' = [c \in Clients |-> IF c = p THEN NoMessage ELSE msg[c]]
    /\ UNCHANGED <<shared, late, channel, mutex, output, ctxDone, period>>

-----------------------------------------------------------------------------
\* Start: a new ticker, which panics on a period of zero before anything is
\* deferred, then one of the two ready cases of the select.
start == /\ At(Ticker, "start")
         /\ period' = speed
         /\ Goto(Ticker, IF speed = 0 THEN "panicked" ELSE "select")
         /\ UNCHANGED <<shared, channel, history, mutex, output, ctxDone, msg, out>>

\* Mutants: a tick does not look at state; it takes paused for playing.
afterTickAlways == "calc"
afterTickInverted == IF state = "paused" THEN "calc" ELSE "check"
afterTick == IF state = "playing" THEN "calc" ELSE "check"

tick == /\ At(Ticker, "select")
        /\ Goto(Ticker, afterTick)
        /\ UNCHANGED <<shared, channel, history, mutex, output, ctxDone, period, msg, out>>

checkSpeed == /\ At(Ticker, "check")
              /\ Goto(Ticker, IF speedChanged THEN "reset" ELSE "select")
              /\ UNCHANGED <<shared, channel, history, mutex, output, ctxDone,
                             period, msg, out>>

\* ticker.Reset panics on a period of zero.
resetTicker == /\ At(Ticker, "reset")
               /\ period' = IF speed = 0 THEN period ELSE speed
               /\ Goto(Ticker, IF speed = 0 THEN "unwind" ELSE "unflag")
               /\ UNCHANGED <<shared, channel, history, mutex, output, ctxDone, msg, out>>

unflagSpeed == /\ At(Ticker, "unflag")
               /\ speedChanged' = FALSE
               /\ Goto(Ticker, "select")
               /\ UNCHANGED <<state, speed, world, channel, history, mutex, output,
                              ctxDone, period, msg, out>>

\* Mutants: the loop may end any time; the channel is left open.
DoneAnyTime == TRUE
Done == ctxDone
LeaveOpen == closed' = closed
CloseOutput == closed' = TRUE

\* The panic runs the deferred function, which closes outputChan, and then ends
\* the process; in between the other goroutines go on.
unwind == /\ At(Ticker, "unwind")
          /\ CloseOutput
          /\ Goto(Ticker, "unwound")
          /\ UNCHANGED <<shared, outputChan, history, mutex, output,
                         ctxDone, period, msg, out>>

die == /\ At(Ticker, "unwound")
       /\ Goto(Ticker, "panicked")
       /\ UNCHANGED <<shared, channel, history, mutex, output, ctxDone, period, msg, out>>

stop == /\ At(Ticker, "select")
        /\ Done
        /\ CloseOutput
        /\ Goto(Ticker, "stopped")
        /\ UNCHANGED <<shared, outputChan, history, mutex, output,
                       ctxDone, period, msg, out>>

-----------------------------------------------------------------------------
\* The fan-out goroutine of the server takes an output until the context ends.
receive == /\ Up /\ outputChan # <<>>
           /\ outputChan' = Tail(outputChan)
           /\ UNCHANGED <<shared, closed, history, mutex, output, ctxDone, period,
                          pc, msg, out>>

cancel == /\ Up /\ ~ctxDone
          /\ ctxDone' = TRUE
          /\ UNCHANGED <<shared, channel, history, mutex, output, period, pc, msg, out>>

clientStep(c) == \/ handleEdit(c)     \/ handleSetCellsFails(c) \/ handleUnknown(c)
                 \/ handleNext(c)     \/ handlePausePlay(c) \/ storeState(c)
                 \/ handleSetSpeed(c) \/ flagSpeed(c)

outputStep(p) == calcNextGen(p) \/ snapshot(p) \/ encode(p) \/ send(p) \/ sendPanics(p)

tickerStep == \/ start       \/ tick   \/ checkSpeed \/ resetTicker
              \/ unflagSpeed \/ unwind \/ die        \/ stop

Next == \/ \E c \in Clients, m \in Messages : SubmitMessage(c, m)
        \/ \E c \in Clients : clientStep(c)
        \/ \E p \in Procs : outputStep(p)
        \/ tickerStep
        \/ receive
        \/ cancel

Spec == Init /\ [][Next]_vars

\* The Go scheduler runs every goroutine that can run, a goroutine that waits
\* for a sync.Mutex gets it in the end (starvation mode), a select picks every
\* case that is ready again and again, and the ticker keeps ticking.  Nothing
\* makes a client send or the context end.
Fairness ==
    /\ \A c \in Clients : /\ WF_vars(clientStep(c))
                          /\ SF_vars(handleEdit(c) \/ handleSetCellsFails(c))
    /\ \A p \in Procs : /\ WF_vars(encode(p) \/ send(p) \/ sendPanics(p))
                        /\ SF_vars(calcNextGen(p) \/ snapshot(p))
    /\ WF_vars(tickerStep)
    /\ SF_vars(stop)
    /\ WF_vars(~ctxDone /\ receive)

FairSpec == Spec /\ Fairness

-----------------------------------------------------------------------------
ClientLabels == {"idle", "handle", "calc", "store", "flag", "snapshot", "encode",
                 "send", "panicked"}
TickerLabels == {"start", "select", "calc", "snapshot", "encode", "send", "check",
                 "reset", "unflag", "unwind", "unwound", "stopped", "panicked"}

TypeOK == /\ state \in {"paused", "playing"}
          /\ speed \in Speeds
          /\ speedChanged \in BOOLEAN
          /\ mutex \in Procs \cup {None}
          /\ world \in Nat
          /\ output \in Outputs
          /\ outputChan \in Seq(Outputs) /\ Len(outputChan) <= OutCap
          /\ closed \in BOOLEAN /\ ctxDone \in BOOLEAN
          /\ period \in Nat
          /\ pc \in [Procs -> ClientLabels \cup TickerLabels]
          /\ msg \in [Clients -> Messages \cup {NoMessage}]
          /\ out \in [Procs -> Outputs]
          /\ mine \in [Procs -> Nat]
          /\ stateBy \in Clients \cup {None} /\ speedBy \in Clients \cup {None}
          /\ late \in Nat

\* While a goroutine encodes, it holds the mutex alone and the shared output
\* shows the world as it is: neither another encoder nor a change of the world
\* (a tick, an edit) gets between the copy of the cells and the encoded bytes.
EncoderAlone == \A p \in Procs :
                   /\ At(p, "encode") <=> mutex = p
                   /\ At(p, "encode") => output.world = world

\* The output a call sends contains the change the call has made to the world,
\* however the other goroutines interleave.
OutputHasOwnChange == \A p \in Procs : At(p, "send") => out[p].world >= mine[p]

\* The output sent for Pause, Play or SetSpeed shows what was asked for, unless
\* another client has overwritten it.
OutputHasOwnSetting ==
    \A c \in Clients : At(c, "send") =>
        /\ stateBy = c => (out[c].playing <=> msg[c].type = "Play")
        /\ speedBy = c => out[c].speed = msg[c].speed

\* After Pause was stored the ticker computes at most one more generation, the
\* one it had already decided on, until a client stores playing again.
AtMostOneLateGeneration == late <= 1

\* A client panics on a send only when the ticker goroutine has left its loop for
\* good: stopped by cancellation, or on its way to end the process because a
\* client has set its period to zero.
TickerLeft == \/ At(Ticker, "stopped") /\ ctxDone
              \/ At(Ticker, "unwound") \/ At(Ticker, "panicked")

NoPanicWhileRunning == \A c \in Clients : At(c, "panicked") => TickerLeft

\* Outputs wait in the order of the worlds they show: the clients take the last
\* output they received for the latest ("Cache the latest data").
OutputsInOrder ==
    \A i, j \in DOMAIN outputChan : i < j => outputChan[i].world <= outputChan[j].world

\* Every SubmitMessage returns: the ticker cannot keep the mutex from a client.
CallsReturn == \A c \in Clients : At(c, "handle") ~> At(c, "idle") \/ At(c, "panicked") \/ ~Up

\* While the state is playing the ticker computes one generation after the other,
\* and one it has decided on is computed even if the state is paused meanwhile,
\* although the clients may take the mutex again and again without end.
PlayingAdvances ==
    /\ state = "playing" ~> At(Ticker, "snapshot") \/ state = "paused" \/ ctxDone \/ ~Up
    /\ At(Ticker, "calc") ~> At(Ticker, "snapshot")

\* Cancellation ends the ticker goroutine and closes outputChan.
CancelCloses == ctxDone ~> closed \/ ~Up

\* A speed that stays set becomes the ticker's period ("[S] Decrease speed
\* (+ 1ms)" in the help of the terminal client).
SpeedTakesEffect ==
    \A s \in Speeds :
        <>[](speed = s /\ state = "paused" /\ ~ctxDone) => <>[](period = s)

=============================================================================
