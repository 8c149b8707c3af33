---------------------------- MODULE EngineProofs ----------------------------
(***************************************************************************)
(* Proofs about Engine for every number of client goroutines, every        *)
(* capacity of outputChan, every set of speeds and every bound.            *)
(***************************************************************************)
EXTENDS Engine, SequenceTheorems, TLAPS

-----------------------------------------------------------------------------
\* The steps of Next, one by one.
LEMMA NextCases ==
  ASSUME [Next]_vars
  PROVE  \/ \E c \in Clients, m \in Messages : SubmitMessage(c, m)
         \/ \E c \in Clients : \/ handleEdit(c) \/ handleSetCellsFails(c)
                               \/ handleNext(c) \/ handlePausePlay(c)
                               \/ storeState(c) \/ handleSetSpeed(c) \/ flagSpeed(c)
                               \/ handleUnknown(c)
         \/ \E p \in Procs : \/ calcNextGen(p) \/ snapshot(p) \/ encode(p)
                             \/ send(p) \/ sendPanics(p)
         \/ start \/ tick \/ checkSpeed \/ resetTicker \/ unflagSpeed \/ stop
         \/ unwind \/ die
         \/ receive \/ cancel \/ UNCHANGED vars
  BY DEF Next, clientStep, outputStep, tickerStep

LEMMA Names == /\ Ticker \in Procs /\ Ticker \notin Clients
               /\ Clients \subseteq Procs /\ None \notin Procs
  BY ProcsAssumption DEF Procs

LEMMA TypeInit == Init => TypeOK
<1> SUFFICES ASSUME Init PROVE TypeOK
  OBVIOUS
<1>1. output \in Outputs /\ Blank \in Outputs
  BY BoundsAssumption DEF Init, Outputs, Blank
<1>2. outputChan \in Seq(Outputs) /\ Len(outputChan) <= OutCap
  BY <1>1, BoundsAssumption DEF Init
<1> QED  BY <1>1, <1>2, BoundsAssumption DEF Init, TypeOK, ClientLabels, TickerLabels

\* A goroutine that is not the ticker is a client.
LEMMA Others == \A p \in Procs : p # Ticker => p \in Clients
  BY DEF Procs

LEMMA TypeStep == TypeOK /\ [Next]_vars => TypeOK'
<1> SUFFICES ASSUME TypeOK, [Next]_vars PROVE TypeOK'
  OBVIOUS
<1> USE Names DEF TypeOK, shared, channel, history, Goto, At, Return, Handling,
                  ClientLabels, TickerLabels
<1>1. ASSUME NEW c \in Clients, NEW m \in Messages, SubmitMessage(c, m) PROVE TypeOK'
  BY <1>1 DEF SubmitMessage
<1>2. ASSUME NEW c \in Clients, handleEdit(c) PROVE TypeOK'
  BY <1>2 DEF handleEdit, ChangeWorld, CanLock
<1>3. ASSUME NEW c \in Clients, handleSetCellsFails(c) PROVE TypeOK'
  BY <1>3 DEF handleSetCellsFails, CanLock
<1>4. ASSUME NEW c \in Clients, handleNext(c) PROVE TypeOK'
  BY <1>4 DEF handleNext
<1>5. ASSUME NEW c \in Clients, handlePausePlay(c) PROVE TypeOK'
  BY <1>5 DEF handlePausePlay
<1>6. ASSUME NEW c \in Clients, storeState(c) PROVE TypeOK'
  BY <1>6 DEF storeState, Wanted
<1>7. ASSUME NEW c \in Clients, handleSetSpeed(c) PROVE TypeOK'
  <2>1. msg[c].speed \in Speeds
    BY <1>7 DEF handleSetSpeed, Messages, NoMessage
  <2> QED  BY <1>7, <2>1 DEF handleSetSpeed
<1>8. ASSUME NEW c \in Clients, flagSpeed(c) PROVE TypeOK'
  BY <1>8 DEF flagSpeed
<1>9. ASSUME NEW p \in Procs, calcNextGen(p) PROVE TypeOK'
  BY <1>9 DEF calcNextGen, ChangeWorld, CanLock
<1>10. ASSUME NEW p \in Procs, snapshot(p) PROVE TypeOK'
  BY <1>10 DEF snapshot, CanLock, Outputs
<1>11. ASSUME NEW p \in Procs, encode(p) PROVE TypeOK'
  <2>1. output' \in Outputs
    BY <1>11, BoundsAssumption DEF encode, encoded, Unlock, Outputs
  <2> QED  BY <1>11, <2>1 DEF encode, encoded, Unlock
<1>12. ASSUME NEW p \in Procs, send(p) PROVE TypeOK'
  <2>1. outputChan' \in Seq(Outputs) /\ Len(outputChan') <= OutCap
    BY <1>12, BoundsAssumption, AppendProperties DEF send, offered
  <2>2. Blank \in Outputs
    BY DEF Outputs, Blank
  <2> QED  BY <1>12, <2>1, <2>2, Others DEF send, offered, Forget
<1>13. ASSUME NEW p \in Procs, sendPanics(p) PROVE TypeOK'
  <2>1. Blank \in Outputs
    BY DEF Outputs, Blank
  <2> QED  BY <1>13, <2>1 DEF sendPanics, Forget
<1>14. CASE start
  BY <1>14, BoundsAssumption DEF start
<1>15. CASE tick
  BY <1>15 DEF tick, afterTick
<1>16. CASE checkSpeed
  BY <1>16 DEF checkSpeed
<1>17. CASE resetTicker
  BY <1>17, BoundsAssumption DEF resetTicker
<1>18. CASE unflagSpeed
  BY <1>18 DEF unflagSpeed
<1>19. CASE stop
  BY <1>19 DEF stop, Done, CloseOutput
<1>20. CASE receive
  <2>1. outputChan' \in Seq(Outputs) /\ Len(outputChan') <= OutCap
    BY <1>20, BoundsAssumption, HeadTailProperties DEF receive
  <2> QED  BY <1>20, <2>1 DEF receive
<1>21. CASE cancel
  BY <1>21 DEF cancel
<1>23. ASSUME NEW c \in Clients, handleUnknown(c) PROVE TypeOK'
  BY <1>23 DEF handleUnknown
<1>24. CASE unwind
  BY <1>24 DEF unwind, CloseOutput
<1>25. CASE die
  BY <1>25 DEF die
<1>22. CASE UNCHANGED vars
  BY <1>22 DEF vars
<1> QED
  BY <1>1, <1>2, <1>3, <1>4, <1>5, <1>6, <1>7, <1>8, <1>9, <1>10, <1>11, <1>12, <1>13,
     <1>14, <1>15, <1>16, <1>17, <1>18, <1>19, <1>20, <1>21, <1>22, <1>23, <1>24, <1>25,
     NextCases

\* Every variable of the engine keeps its type, for any number of clients; in
\* particular outputChan never holds more than its capacity.
THEOREM TypeCorrect == Spec => []TypeOK
  BY TypeInit, TypeStep, PTL DEF Spec

-----------------------------------------------------------------------------
\* The strengthening.  Every part speaks of one piece of shared state.

\* A goroutine's own change is not newer than the world.
MineSeen == \A p \in Procs : mine[p] <= world

\* The client that stored state last, while its call lasts: state is still what
\* it asked for, and so is what its output says.
StateOwner ==
    \A c \in Clients : stateBy = c =>
        /\ pc[c] \in {"snapshot", "encode", "send"}
        /\ msg[c].type \in {"Pause", "Play"}
        /\ state = IF msg[c].type = "Play" THEN "playing" ELSE "paused"
        /\ At(c, "encode") => (output.playing <=> state = "playing")
        /\ At(c, "send") => (out[c].playing <=> state = "playing")

\* The same for the client that swapped speed last.
SpeedOwner ==
    \A c \in Clients : speedBy = c =>
        /\ pc[c] \in {"flag", "snapshot", "encode", "send"}
        /\ speed = msg[c].speed
        /\ At(c, "send") => out[c].speed = speed

\* What the labels of a client say about its message.
LabelFits == \A c \in Clients : At(c, "store") => msg[c].type \in {"Pause", "Play"}

\* A late generation needs a tick that saw playing.
LateBounded == /\ late <= 1
               /\ state = "playing" => late = 0
               /\ At(Ticker, "calc") => late = 0

\* Only a ticker goroutine at its end closes the channel, only a closed channel
\* panics.
ClosedAtTheEnd == /\ closed => TickerLeft
                  /\ \A c \in Clients : At(c, "panicked") => closed

LEMMA EncoderStep == TypeOK /\ EncoderAlone /\ [Next]_vars => EncoderAlone'
<1> SUFFICES ASSUME TypeOK, EncoderAlone, [Next]_vars PROVE EncoderAlone'
  OBVIOUS
<1> USE Names DEF TypeOK, shared, channel, history, Goto, At, Return, Handling, EncoderAlone
<1>1. ASSUME NEW c \in Clients, NEW m \in Messages, SubmitMessage(c, m) PROVE EncoderAlone'
  BY <1>1 DEF SubmitMessage
<1>2. ASSUME NEW c \in Clients, handleEdit(c) PROVE EncoderAlone'
  BY <1>2 DEF handleEdit, ChangeWorld, CanLock
<1>3. ASSUME NEW c \in Clients, handleSetCellsFails(c) PROVE EncoderAlone'
  BY <1>3 DEF handleSetCellsFails, CanLock
<1>4. ASSUME NEW c \in Clients, handleNext(c) PROVE EncoderAlone'
  BY <1>4 DEF handleNext
<1>5. ASSUME NEW c \in Clients, handlePausePlay(c) PROVE EncoderAlone'
  BY <1>5 DEF handlePausePlay, Wanted
<1>6. ASSUME NEW c \in Clients, storeState(c) PROVE EncoderAlone'
  BY <1>6 DEF storeState, Wanted
<1>7. ASSUME NEW c \in Clients, handleSetSpeed(c) PROVE EncoderAlone'
  BY <1>7 DEF handleSetSpeed
<1>8. ASSUME NEW c \in Clients, flagSpeed(c) PROVE EncoderAlone'
  BY <1>8 DEF flagSpeed
<1>9. ASSUME NEW p \in Procs, calcNextGen(p) PROVE EncoderAlone'
  BY <1>9 DEF calcNextGen, ChangeWorld, CanLock
<1>10. ASSUME NEW p \in Procs, snapshot(p) PROVE EncoderAlone'
  BY <1>10 DEF snapshot, CanLock
<1>11. ASSUME NEW p \in Procs, encode(p) PROVE EncoderAlone'
  BY <1>11 DEF encode, encoded, Unlock
<1>12. ASSUME NEW p \in Procs, send(p) PROVE EncoderAlone'
  BY <1>12 DEF send, offered, Forget
<1>13. ASSUME NEW p \in Procs, sendPanics(p) PROVE EncoderAlone'
  BY <1>13 DEF sendPanics, Forget
<1>14. CASE start
  BY <1>14 DEF start
<1>15. CASE tick
  BY <1>15 DEF tick, afterTick
<1>16. CASE checkSpeed
  BY <1>16 DEF checkSpeed
<1>17. CASE resetTicker
  BY <1>17 DEF resetTicker
<1>18. CASE unflagSpeed
  BY <1>18 DEF unflagSpeed
<1>19. CASE stop
  BY <1>19 DEF stop, Done, CloseOutput
<1>20. CASE receive
  BY <1>20 DEF receive
<1>21. CASE cancel
  BY <1>21 DEF cancel
<1>23. ASSUME NEW c \in Clients, handleUnknown(c) PROVE EncoderAlone'
  BY <1>23 DEF handleUnknown
<1>24. CASE unwind
  BY <1>24 DEF unwind, CloseOutput
<1>25. CASE die
  BY <1>25 DEF die
<1>22. CASE UNCHANGED vars
  BY <1>22 DEF vars
<1> QED
  BY <1>1, <1>2, <1>3, <1>4, <1>5, <1>6, <1>7, <1>8, <1>9, <1>10, <1>11, <1>12, <1>13,
     <1>14, <1>15, <1>16, <1>17, <1>18, <1>19, <1>20, <1>21, <1>22, <1>23, <1>24, <1>25,
     NextCases

LEMMA MineStep == TypeOK /\ MineSeen /\ [Next]_vars => MineSeen'
<1> SUFFICES ASSUME TypeOK, MineSeen, [Next]_vars PROVE MineSeen'
  OBVIOUS
<1> USE Names DEF TypeOK, shared, channel, history, Goto, At, Return, Handling, MineSeen
<1>1. ASSUME NEW c \in Clients, NEW m \in Messages, SubmitMessage(c, m) PROVE MineSeen'
  BY <1>1 DEF SubmitMessage
<1>2. ASSUME NEW c \in Clients, handleEdit(c) PROVE MineSeen'
  BY <1>2 DEF handleEdit, ChangeWorld, CanLock
<1>3. ASSUME NEW c \in Clients, handleSetCellsFails(c) PROVE MineSeen'
  BY <1>3 DEF handleSetCellsFails, CanLock
<1>4. ASSUME NEW c \in Clients, handleNext(c) PROVE MineSeen'
  BY <1>4 DEF handleNext
<1>5. ASSUME NEW c \in Clients, handlePausePlay(c) PROVE MineSeen'
  BY <1>5 DEF handlePausePlay, Wanted
<1>6. ASSUME NEW c \in Clients, storeState(c) PROVE MineSeen'
  BY <1>6 DEF storeState, Wanted
<1>7. ASSUME NEW c \in Clients, handleSetSpeed(c) PROVE MineSeen'
  BY <1>7 DEF handleSetSpeed
<1>8. ASSUME NEW c \in Clients, flagSpeed(c) PROVE MineSeen'
  BY <1>8 DEF flagSpeed
<1>9. ASSUME NEW p \in Procs, calcNextGen(p) PROVE MineSeen'
  BY <1>9 DEF calcNextGen, ChangeWorld, CanLock
<1>10. ASSUME NEW p \in Procs, snapshot(p) PROVE MineSeen'
  BY <1>10 DEF snapshot, CanLock
<1>11. ASSUME NEW p \in Procs, encode(p) PROVE MineSeen'
  BY <1>11 DEF encode, encoded, Unlock
<1>12. ASSUME NEW p \in Procs, send(p) PROVE MineSeen'
  BY <1>12 DEF send, offered, Forget
<1>13. ASSUME NEW p \in Procs, sendPanics(p) PROVE MineSeen'
  BY <1>13 DEF sendPanics, Forget
<1>14. CASE start
  BY <1>14 DEF start
<1>15. CASE tick
  BY <1>15 DEF tick, afterTick
<1>16. CASE checkSpeed
  BY <1>16 DEF checkSpeed
<1>17. CASE resetTicker
  BY <1>17 DEF resetTicker
<1>18. CASE unflagSpeed
  BY <1>18 DEF unflagSpeed
<1>19. CASE stop
  BY <1>19 DEF stop, Done, CloseOutput
<1>20. CASE receive
  BY <1>20 DEF receive
<1>21. CASE cancel
  BY <1>21 DEF cancel
<1>23. ASSUME NEW c \in Clients, handleUnknown(c) PROVE MineSeen'
  BY <1>23 DEF handleUnknown
<1>24. CASE unwind
  BY <1>24 DEF unwind, CloseOutput
<1>25. CASE die
  BY <1>25 DEF die
<1>22. CASE UNCHANGED vars
  BY <1>22 DEF vars
<1> QED
  BY <1>1, <1>2, <1>3, <1>4, <1>5, <1>6, <1>7, <1>8, <1>9, <1>10, <1>11, <1>12, <1>13,
     <1>14, <1>15, <1>16, <1>17, <1>18, <1>19, <1>20, <1>21, <1>22, <1>23, <1>24, <1>25,
     NextCases

LEMMA OwnChangeStep == TypeOK /\ EncoderAlone /\ MineSeen /\ OutputHasOwnChange
      /\ [Next]_vars
    => OutputHasOwnChange'
<1> SUFFICES ASSUME TypeOK, EncoderAlone, MineSeen, OutputHasOwnChange, [Next]_vars
    PROVE OutputHasOwnChange'
  OBVIOUS
<1> USE Names DEF TypeOK, shared, channel, history, Goto, At, Return, Handling,
      EncoderAlone, MineSeen, OutputHasOwnChange
<1>1. ASSUME NEW c \in Clients, NEW m \in Messages, SubmitMessage(c, m)
    PROVE OutputHasOwnChange'
  BY <1>1 DEF SubmitMessage
<1>2. ASSUME NEW c \in Clients, handleEdit(c) PROVE OutputHasOwnChange'
  BY <1>2 DEF handleEdit, ChangeWorld, CanLock
<1>3. ASSUME NEW c \in Clients, handleSetCellsFails(c) PROVE OutputHasOwnChange'
  BY <1>3 DEF handleSetCellsFails, CanLock
<1>4. ASSUME NEW c \in Clients, handleNext(c) PROVE OutputHasOwnChange'
  BY <1>4 DEF handleNext
<1>5. ASSUME NEW c \in Clients, handlePausePlay(c) PROVE OutputHasOwnChange'
  BY <1>5 DEF handlePausePlay, Wanted
<1>6. ASSUME NEW c \in Clients, storeState(c) PROVE OutputHasOwnChange'
  BY <1>6 DEF storeState, Wanted
<1>7. ASSUME NEW c \in Clients, handleSetSpeed(c) PROVE OutputHasOwnChange'
  BY <1>7 DEF handleSetSpeed
<1>8. ASSUME NEW c \in Clients, flagSpeed(c) PROVE OutputHasOwnChange'
  BY <1>8 DEF flagSpeed
<1>9. ASSUME NEW p \in Procs, calcNextGen(p) PROVE OutputHasOwnChange'
  BY <1>9 DEF calcNextGen, ChangeWorld, CanLock
<1>10. ASSUME NEW p \in Procs, snapshot(p) PROVE OutputHasOwnChange'
  BY <1>10 DEF snapshot, CanLock
<1>11. ASSUME NEW p \in Procs, encode(p) PROVE OutputHasOwnChange'
  BY <1>11 DEF encode, encoded, Unlock
<1>12. ASSUME NEW p \in Procs, send(p) PROVE OutputHasOwnChange'
  BY <1>12 DEF send, offered, Forget
<1>13. ASSUME NEW p \in Procs, sendPanics(p) PROVE OutputHasOwnChange'
  BY <1>13 DEF sendPanics, Forget
<1>14. CASE start
  BY <1>14 DEF start
<1>15. CASE tick
  BY <1>15 DEF tick, afterTick
<1>16. CASE checkSpeed
  BY <1>16 DEF checkSpeed
<1>17. CASE resetTicker
  BY <1>17 DEF resetTicker
<1>18. CASE unflagSpeed
  BY <1>18 DEF unflagSpeed
<1>19. CASE stop
  BY <1>19 DEF stop, Done, CloseOutput
<1>20. CASE receive
  BY <1>20 DEF receive
<1>21. CASE cancel
  BY <1>21 DEF cancel
<1>23. ASSUME NEW c \in Clients, handleUnknown(c) PROVE OutputHasOwnChange'
  BY <1>23 DEF handleUnknown
<1>24. CASE unwind
  BY <1>24 DEF unwind, CloseOutput
<1>25. CASE die
  BY <1>25 DEF die
<1>22. CASE UNCHANGED vars
  BY <1>22 DEF vars
<1> QED
  BY <1>1, <1>2, <1>3, <1>4, <1>5, <1>6, <1>7, <1>8, <1>9, <1>10, <1>11, <1>12, <1>13,
     <1>14, <1>15, <1>16, <1>17, <1>18, <1>19, <1>20, <1>21, <1>22, <1>23, <1>24, <1>25,
     NextCases

LEMMA LabelStep == TypeOK /\ LabelFits /\ [Next]_vars => LabelFits'
<1> SUFFICES ASSUME TypeOK, LabelFits, [Next]_vars PROVE LabelFits'
  OBVIOUS
<1> USE Names DEF TypeOK, shared, channel, history, Goto, At, Return, Handling, LabelFits
<1>1. ASSUME NEW c \in Clients, NEW m \in Messages, SubmitMessage(c, m) PROVE LabelFits'
  BY <1>1 DEF SubmitMessage
<1>2. ASSUME NEW c \in Clients, handleEdit(c) PROVE LabelFits'
  BY <1>2 DEF handleEdit, ChangeWorld, CanLock
<1>3. ASSUME NEW c \in Clients, handleSetCellsFails(c) PROVE LabelFits'
  BY <1>3 DEF handleSetCellsFails, CanLock
<1>4. ASSUME NEW c \in Clients, handleNext(c) PROVE LabelFits'
  BY <1>4 DEF handleNext
<1>5. ASSUME NEW c \in Clients, handlePausePlay(c) PROVE LabelFits'
  BY <1>5 DEF handlePausePlay, Wanted
<1>6. ASSUME NEW c \in Clients, storeState(c) PROVE LabelFits'
  BY <1>6 DEF storeState, Wanted
<1>7. ASSUME NEW c \in Clients, handleSetSpeed(c) PROVE LabelFits'
  BY <1>7 DEF handleSetSpeed
<1>8. ASSUME NEW c \in Clients, flagSpeed(c) PROVE LabelFits'
  BY <1>8 DEF flagSpeed
<1>9. ASSUME NEW p \in Procs, calcNextGen(p) PROVE LabelFits'
  BY <1>9 DEF calcNextGen, ChangeWorld, CanLock
<1>10. ASSUME NEW p \in Procs, snapshot(p) PROVE LabelFits'
  BY <1>10 DEF snapshot, CanLock
<1>11. ASSUME NEW p \in Procs, encode(p) PROVE LabelFits'
  BY <1>11 DEF encode, encoded, Unlock
<1>12. ASSUME NEW p \in Procs, send(p) PROVE LabelFits'
  BY <1>12 DEF send, offered, Forget
<1>13. ASSUME NEW p \in Procs, sendPanics(p) PROVE LabelFits'
  BY <1>13 DEF sendPanics, Forget
<1>14. CASE start
  BY <1>14 DEF start
<1>15. CASE tick
  BY <1>15 DEF tick, afterTick
<1>16. CASE checkSpeed
  BY <1>16 DEF checkSpeed
<1>17. CASE resetTicker
  BY <1>17 DEF resetTicker
<1>18. CASE unflagSpeed
  BY <1>18 DEF unflagSpeed
<1>19. CASE stop
  BY <1>19 DEF stop, Done, CloseOutput
<1>20. CASE receive
  BY <1>20 DEF receive
<1>21. CASE cancel
  BY <1>21 DEF cancel
<1>23. ASSUME NEW c \in Clients, handleUnknown(c) PROVE LabelFits'
  BY <1>23 DEF handleUnknown
<1>24. CASE unwind
  BY <1>24 DEF unwind, CloseOutput
<1>25. CASE die
  BY <1>25 DEF die
<1>22. CASE UNCHANGED vars
  BY <1>22 DEF vars
<1> QED
  BY <1>1, <1>2, <1>3, <1>4, <1>5, <1>6, <1>7, <1>8, <1>9, <1>10, <1>11, <1>12, <1>13,
     <1>14, <1>15, <1>16, <1>17, <1>18, <1>19, <1>20, <1>21, <1>22, <1>23, <1>24, <1>25,
     NextCases

LEMMA StateOwnerStep == TypeOK /\ EncoderAlone /\ LabelFits /\ StateOwner /\ [Next]_vars
    => StateOwner'
<1> SUFFICES ASSUME TypeOK, EncoderAlone, LabelFits, StateOwner, [Next]_vars PROVE StateOwner'
  OBVIOUS
<1> USE Names DEF TypeOK, shared, channel, history, Goto, At, Return, Handling,
      EncoderAlone, LabelFits, StateOwner
<1>1. ASSUME NEW c \in Clients, NEW m \in Messages, SubmitMessage(c, m) PROVE StateOwner'
  BY <1>1 DEF SubmitMessage
<1>2. ASSUME NEW c \in Clients, handleEdit(c) PROVE StateOwner'
  BY <1>2 DEF handleEdit, ChangeWorld, CanLock
<1>3. ASSUME NEW c \in Clients, handleSetCellsFails(c) PROVE StateOwner'
  BY <1>3 DEF handleSetCellsFails, CanLock
<1>4. ASSUME NEW c \in Clients, handleNext(c) PROVE StateOwner'
  BY <1>4 DEF handleNext
<1>5. ASSUME NEW c \in Clients, handlePausePlay(c) PROVE StateOwner'
  BY <1>5 DEF handlePausePlay, Wanted
<1>6. ASSUME NEW c \in Clients, storeState(c) PROVE StateOwner'
  BY <1>6 DEF storeState, Wanted
<1>7. ASSUME NEW c \in Clients, handleSetSpeed(c) PROVE StateOwner'
  BY <1>7 DEF handleSetSpeed
<1>8. ASSUME NEW c \in Clients, flagSpeed(c) PROVE StateOwner'
  BY <1>8 DEF flagSpeed
<1>9. ASSUME NEW p \in Procs, calcNextGen(p) PROVE StateOwner'
  BY <1>9 DEF calcNextGen, ChangeWorld, CanLock
<1>10. ASSUME NEW p \in Procs, snapshot(p) PROVE StateOwner'
  <2>1. output'.playing <=> state = "playing"
    BY <1>10 DEF snapshot, CanLock, Outputs
  <2>2. pc' = [pc EXCEPT ![p] = "encode"] /\ UNCHANGED <<state, stateBy, msg, out>>
    BY <1>10 DEF snapshot, CanLock
  <2>3. \A c \in Clients : At(c, "send")' => At(c, "send")
    BY <2>2
  <2> QED  BY <1>10, <2>1, <2>2, <2>3 DEF snapshot, CanLock
<1>11. ASSUME NEW p \in Procs, encode(p) PROVE StateOwner'
  BY <1>11 DEF encode, encoded, Unlock
<1>12. ASSUME NEW p \in Procs, send(p) PROVE StateOwner'
  BY <1>12 DEF send, offered, Forget
<1>13. ASSUME NEW p \in Procs, sendPanics(p) PROVE StateOwner'
  BY <1>13 DEF sendPanics, Forget
<1>14. CASE start
  BY <1>14 DEF start
<1>15. CASE tick
  BY <1>15 DEF tick, afterTick
<1>16. CASE checkSpeed
  BY <1>16 DEF checkSpeed
<1>17. CASE resetTicker
  BY <1>17 DEF resetTicker
<1>18. CASE unflagSpeed
  BY <1>18 DEF unflagSpeed
<1>19. CASE stop
  BY <1>19 DEF stop, Done, CloseOutput
<1>20. CASE receive
  BY <1>20 DEF receive
<1>21. CASE cancel
  BY <1>21 DEF cancel
<1>23. ASSUME NEW c \in Clients, handleUnknown(c) PROVE StateOwner'
  BY <1>23 DEF handleUnknown
<1>24. CASE unwind
  BY <1>24 DEF unwind, CloseOutput
<1>25. CASE die
  BY <1>25 DEF die
<1>22. CASE UNCHANGED vars
  BY <1>22 DEF vars
<1> QED
  BY <1>1, <1>2, <1>3, <1>4, <1>5, <1>6, <1>7, <1>8, <1>9, <1>10, <1>11, <1>12, <1>13,
     <1>14, <1>15, <1>16, <1>17, <1>18, <1>19, <1>20, <1>21, <1>22, <1>23, <1>24, <1>25,
     NextCases

LEMMA SpeedOwnerStep == TypeOK /\ EncoderAlone /\ SpeedOwner /\ [Next]_vars => SpeedOwner'
<1> SUFFICES ASSUME TypeOK, EncoderAlone, SpeedOwner, [Next]_vars PROVE SpeedOwner'
  OBVIOUS
<1> USE Names DEF TypeOK, shared, channel, history, Goto, At, Return, Handling,
      EncoderAlone, SpeedOwner
<1>1. ASSUME NEW c \in Clients, NEW m \in Messages, SubmitMessage(c, m) PROVE SpeedOwner'
  BY <1>1 DEF SubmitMessage
<1>2. ASSUME NEW c \in Clients, handleEdit(c) PROVE SpeedOwner'
  BY <1>2 DEF handleEdit, ChangeWorld, CanLock
<1>3. ASSUME NEW c \in Clients, handleSetCellsFails(c) PROVE SpeedOwner'
  BY <1>3 DEF handleSetCellsFails, CanLock
<1>4. ASSUME NEW c \in Clients, handleNext(c) PROVE SpeedOwner'
  BY <1>4 DEF handleNext
<1>5. ASSUME NEW c \in Clients, handlePausePlay(c) PROVE SpeedOwner'
  BY <1>5 DEF handlePausePlay, Wanted
<1>6. ASSUME NEW c \in Clients, storeState(c) PROVE SpeedOwner'
  BY <1>6 DEF storeState, Wanted
<1>7. ASSUME NEW c \in Clients, handleSetSpeed(c) PROVE SpeedOwner'
  BY <1>7 DEF handleSetSpeed
<1>8. ASSUME NEW c \in Clients, flagSpeed(c) PROVE SpeedOwner'
  BY <1>8 DEF flagSpeed
<1>9. ASSUME NEW p \in Procs, calcNextGen(p) PROVE SpeedOwner'
  BY <1>9 DEF calcNextGen, ChangeWorld, CanLock
<1>10. ASSUME NEW p \in Procs, snapshot(p) PROVE SpeedOwner'
  BY <1>10 DEF snapshot, CanLock
<1>11. ASSUME NEW p \in Procs, encode(p) PROVE SpeedOwner'
  BY <1>11 DEF encode, encoded, Unlock
<1>12. ASSUME NEW p \in Procs, send(p) PROVE SpeedOwner'
  BY <1>12 DEF send, offered, Forget
<1>13. ASSUME NEW p \in Procs, sendPanics(p) PROVE SpeedOwner'
  BY <1>13 DEF sendPanics, Forget
<1>14. CASE start
  BY <1>14 DEF start
<1>15. CASE tick
  BY <1>15 DEF tick, afterTick
<1>16. CASE checkSpeed
  BY <1>16 DEF checkSpeed
<1>17. CASE resetTicker
  BY <1>17 DEF resetTicker
<1>18. CASE unflagSpeed
  BY <1>18 DEF unflagSpeed
<1>19. CASE stop
  BY <1>19 DEF stop, Done, CloseOutput
<1>20. CASE receive
  BY <1>20 DEF receive
<1>21. CASE cancel
  BY <1>21 DEF cancel
<1>23. ASSUME NEW c \in Clients, handleUnknown(c) PROVE SpeedOwner'
  BY <1>23 DEF handleUnknown
<1>24. CASE unwind
  BY <1>24 DEF unwind, CloseOutput
<1>25. CASE die
  BY <1>25 DEF die
<1>22. CASE UNCHANGED vars
  BY <1>22 DEF vars
<1> QED
  BY <1>1, <1>2, <1>3, <1>4, <1>5, <1>6, <1>7, <1>8, <1>9, <1>10, <1>11, <1>12, <1>13,
     <1>14, <1>15, <1>16, <1>17, <1>18, <1>19, <1>20, <1>21, <1>22, <1>23, <1>24, <1>25,
     NextCases

LEMMA LateStep == TypeOK /\ LateBounded /\ [Next]_vars => LateBounded'
<1> SUFFICES ASSUME TypeOK, LateBounded, [Next]_vars PROVE LateBounded'
  OBVIOUS
<1> USE Names DEF TypeOK, shared, channel, history, Goto, At, Return, Handling, LateBounded
<1>1. ASSUME NEW c \in Clients, NEW m \in Messages, SubmitMessage(c, m) PROVE LateBounded'
  BY <1>1 DEF SubmitMessage
<1>2. ASSUME NEW c \in Clients, handleEdit(c) PROVE LateBounded'
  BY <1>2 DEF handleEdit, ChangeWorld, CanLock
<1>3. ASSUME NEW c \in Clients, handleSetCellsFails(c) PROVE LateBounded'
  BY <1>3 DEF handleSetCellsFails, CanLock
<1>4. ASSUME NEW c \in Clients, handleNext(c) PROVE LateBounded'
  BY <1>4 DEF handleNext
<1>5. ASSUME NEW c \in Clients, handlePausePlay(c) PROVE LateBounded'
  BY <1>5 DEF handlePausePlay, Wanted
<1>6. ASSUME NEW c \in Clients, storeState(c) PROVE LateBounded'
  BY <1>6 DEF storeState, Wanted
<1>7. ASSUME NEW c \in Clients, handleSetSpeed(c) PROVE LateBounded'
  BY <1>7 DEF handleSetSpeed
<1>8. ASSUME NEW c \in Clients, flagSpeed(c) PROVE LateBounded'
  BY <1>8 DEF flagSpeed
<1>9. ASSUME NEW p \in Procs, calcNextGen(p) PROVE LateBounded'
  BY <1>9 DEF calcNextGen, ChangeWorld, CanLock
<1>10. ASSUME NEW p \in Procs, snapshot(p) PROVE LateBounded'
  BY <1>10 DEF snapshot, CanLock
<1>11. ASSUME NEW p \in Procs, encode(p) PROVE LateBounded'
  BY <1>11 DEF encode, encoded, Unlock
<1>12. ASSUME NEW p \in Procs, send(p) PROVE LateBounded'
  BY <1>12 DEF send, offered, Forget
<1>13. ASSUME NEW p \in Procs, sendPanics(p) PROVE LateBounded'
  BY <1>13 DEF sendPanics, Forget
<1>14. CASE start
  BY <1>14 DEF start
<1>15. CASE tick
  BY <1>15 DEF tick, afterTick
<1>16. CASE checkSpeed
  BY <1>16 DEF checkSpeed
<1>17. CASE resetTicker
  BY <1>17 DEF resetTicker
<1>18. CASE unflagSpeed
  BY <1>18 DEF unflagSpeed
<1>19. CASE stop
  BY <1>19 DEF stop, Done, CloseOutput
<1>20. CASE receive
  BY <1>20 DEF receive
<1>21. CASE cancel
  BY <1>21 DEF cancel
<1>23. ASSUME NEW c \in Clients, handleUnknown(c) PROVE LateBounded'
  BY <1>23 DEF handleUnknown
<1>24. CASE unwind
  BY <1>24 DEF unwind, CloseOutput
<1>25. CASE die
  BY <1>25 DEF die
<1>22. CASE UNCHANGED vars
  BY <1>22 DEF vars
<1> QED
  BY <1>1, <1>2, <1>3, <1>4, <1>5, <1>6, <1>7, <1>8, <1>9, <1>10, <1>11, <1>12, <1>13,
     <1>14, <1>15, <1>16, <1>17, <1>18, <1>19, <1>20, <1>21, <1>22, <1>23, <1>24, <1>25,
     NextCases

LEMMA ClosedStep == TypeOK /\ ClosedAtTheEnd /\ [Next]_vars => ClosedAtTheEnd'
<1> SUFFICES ASSUME TypeOK, ClosedAtTheEnd, [Next]_vars PROVE ClosedAtTheEnd'
  OBVIOUS
<1> USE Names DEF TypeOK, shared, channel, history, Goto, At, Return, Handling,
      ClosedAtTheEnd, TickerLeft
<1>1. ASSUME NEW c \in Clients, NEW m \in Messages, SubmitMessage(c, m)
    PROVE ClosedAtTheEnd'
  BY <1>1 DEF SubmitMessage
<1>2. ASSUME NEW c \in Clients, handleEdit(c) PROVE ClosedAtTheEnd'
  BY <1>2 DEF handleEdit, ChangeWorld, CanLock
<1>3. ASSUME NEW c \in Clients, handleSetCellsFails(c) PROVE ClosedAtTheEnd'
  BY <1>3 DEF handleSetCellsFails, CanLock
<1>4. ASSUME NEW c \in Clients, handleNext(c) PROVE ClosedAtTheEnd'
  BY <1>4 DEF handleNext
<1>5. ASSUME NEW c \in Clients, handlePausePlay(c) PROVE ClosedAtTheEnd'
  BY <1>5 DEF handlePausePlay, Wanted
<1>6. ASSUME NEW c \in Clients, storeState(c) PROVE ClosedAtTheEnd'
  BY <1>6 DEF storeState, Wanted
<1>7. ASSUME NEW c \in Clients, handleSetSpeed(c) PROVE ClosedAtTheEnd'
  BY <1>7 DEF handleSetSpeed
<1>8. ASSUME NEW c \in Clients, flagSpeed(c) PROVE ClosedAtTheEnd'
  BY <1>8 DEF flagSpeed
<1>9. ASSUME NEW p \in Procs, calcNextGen(p) PROVE ClosedAtTheEnd'
  BY <1>9 DEF calcNextGen, ChangeWorld, CanLock
<1>10. ASSUME NEW p \in Procs, snapshot(p) PROVE ClosedAtTheEnd'
  BY <1>10 DEF snapshot, CanLock
<1>11. ASSUME NEW p \in Procs, encode(p) PROVE ClosedAtTheEnd'
  BY <1>11 DEF encode, encoded, Unlock
<1>12. ASSUME NEW p \in Procs, send(p) PROVE ClosedAtTheEnd'
  BY <1>12 DEF send, offered, Forget
<1>13. ASSUME NEW p \in Procs, sendPanics(p) PROVE ClosedAtTheEnd'
  BY <1>13 DEF sendPanics, Forget
<1>14. CASE start
  BY <1>14 DEF start
<1>15. CASE tick
  BY <1>15 DEF tick, afterTick
<1>16. CASE checkSpeed
  BY <1>16 DEF checkSpeed
<1>17. CASE resetTicker
  BY <1>17 DEF resetTicker
<1>18. CASE unflagSpeed
  BY <1>18 DEF unflagSpeed
<1>19. CASE stop
  BY <1>19 DEF stop, Done, CloseOutput
<1>20. CASE receive
  BY <1>20 DEF receive
<1>21. CASE cancel
  BY <1>21 DEF cancel
<1>23. ASSUME NEW c \in Clients, handleUnknown(c) PROVE ClosedAtTheEnd'
  BY <1>23 DEF handleUnknown
<1>24. CASE unwind
  BY <1>24 DEF unwind, CloseOutput
<1>25. CASE die
  BY <1>25 DEF die
<1>22. CASE UNCHANGED vars
  BY <1>22 DEF vars
<1> QED
  BY <1>1, <1>2, <1>3, <1>4, <1>5, <1>6, <1>7, <1>8, <1>9, <1>10, <1>11, <1>12, <1>13,
     <1>14, <1>15, <1>16, <1>17, <1>18, <1>19, <1>20, <1>21, <1>22, <1>23, <1>24, <1>25,
     NextCases

-----------------------------------------------------------------------------
\* The inductive invariant.
IInv == /\ TypeOK /\ EncoderAlone /\ MineSeen /\ OutputHasOwnChange /\ LabelFits
        /\ StateOwner /\ SpeedOwner /\ LateBounded /\ ClosedAtTheEnd

LEMMA InvInit == Init => IInv
<1> SUFFICES ASSUME Init PROVE IInv
  OBVIOUS
<1>1. TypeOK
  BY TypeInit
<1> QED
  BY <1>1, Names DEF Init, IInv, At, EncoderAlone, MineSeen, OutputHasOwnChange, LabelFits,
     StateOwner, SpeedOwner, LateBounded, ClosedAtTheEnd

LEMMA InvStep == IInv /\ [Next]_vars => IInv'
  BY TypeStep, EncoderStep, MineStep, OwnChangeStep, LabelStep, StateOwnerStep,
     SpeedOwnerStep, LateStep, ClosedStep DEF IInv

LEMMA Invariance == Spec => []IInv
  BY InvInit, InvStep, PTL DEF Spec

\* Mutual exclusion of the shared output and encode buffers: while one
\* goroutine encodes, it alone holds the mutex and the world stands still.
THEOREM EncodersExclude == Spec => []EncoderAlone
<1>1. IInv => EncoderAlone
  BY DEF IInv
<1> QED  BY <1>1, Invariance, PTL

\* Read your writes: the output of a call contains the call's own change.
THEOREM OwnChangeIsSent == Spec => []OutputHasOwnChange
<1>1. IInv => OutputHasOwnChange
  BY DEF IInv
<1> QED  BY <1>1, Invariance, PTL

\* The output of Pause, Play and SetSpeed shows the setting, if it still holds.
THEOREM OwnSettingIsSent == Spec => []OutputHasOwnSetting
<1>1. IInv => OutputHasOwnSetting
  BY DEF IInv, StateOwner, SpeedOwner, OutputHasOwnSetting, At
<1> QED  BY <1>1, Invariance, PTL

\* At most one generation is computed after a Pause has been stored.
THEOREM PauseStopsTheTicker == Spec => []AtMostOneLateGeneration
<1>1. IInv => AtMostOneLateGeneration
  BY DEF IInv, LateBounded, AtMostOneLateGeneration
<1> QED  BY <1>1, Invariance, PTL

\* No client goroutine sends on the closed channel before the ticker goroutine has
\* left its loop: cancelled, or unwound by the panic of a zero period.
THEOREM NoPanicBeforeTheEnd == Spec => []NoPanicWhileRunning
<1>1. IInv => NoPanicWhileRunning
  BY DEF IInv, ClosedAtTheEnd, NoPanicWhileRunning
<1> QED  BY <1>1, Invariance, PTL

=============================================================================
