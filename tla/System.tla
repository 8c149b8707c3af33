------------------------------- MODULE System -------------------------------
(***************************************************************************)
(* The api process over several lives, cmd/api/main.go: GetSeed, the       *)
(* engine made from the seed, the server of module Server, an interrupt    *)
(* that shuts the HTTP server down, a crash at any time, and the database  *)
(* that outlives them.  A connection's name is used again in the next      *)
(* life.  The row holds an output as module Protocol encodes it.           *)
(***************************************************************************)
EXTENDS Server, Protocol

CONSTANTS Contents,   \* what output number i of the world contains, in turn
          MaxStops    \* bound on the ends of a process

ASSUME SystemAssumption == Len(Contents) > 0 /\ MaxStops \in Nat

VARIABLES phase,      \* "up", "closing" after an interrupt, or "down"
          row,        \* the bytes of the row
          resumed,    \* what the first output of this life contains
          kept,       \* history: the newest output of a save without overlap
          stops       \* number of processes that have ended

life == <<phase, resumed, stops>>
system == <<vars, phase, row, resumed, kept, stops>>

Content(n) == Contents[((n - 1) % Len(Contents)) + 1]

SystemInit == /\ Init
              /\ phase = "up"
              /\ row = <<>>
              /\ resumed = Content(1)
              /\ kept = 0
              /\ stops = 0

-----------------------------------------------------------------------------
\* The save that ends well in this step, if one does, and whether it was the
\* only one under way.
Saved(s) == request[s] = "write" /\ request'[s] = "saved"

Alone(s) == \A t \in Savers \ {s} : request[t] # "write"

\* After Shutdown has begun nothing new is accepted; open sockets go on.
Accepts == phase = "closing" =>
               /\ \A c \in Conns : At(c, "new") => pc'[c] = "new"
               /\ \A s \in Savers : request[s] = "none" => request'[s] = "none"

\* A step of the process.
serverStep ==
    /\ phase # "down"
    /\ Next
    /\ Accepts
    /\ \/ \E s \in Savers : /\ Saved(s)
                            /\ row' = encodeOutput(Content(loaded[s]))
                            /\ kept' = IF Alone(s) THEN loaded[s] ELSE kept
       \/ (\A s \in Savers : ~Saved(s)) /\ UNCHANGED <<row, kept>>
    /\ UNCHANGED life

\* main's select receives the signal, or ListenAndServe's error.
interrupt == /\ phase = "up"
             /\ phase' = "closing"
             /\ UNCHANGED <<vars, row, resumed, kept, stops>>

\* The process ends: a crash, or main returns when Shutdown has, or has waited
\* for five seconds.  Nothing is saved.  The world in memory becomes the seed's,
\* or the empty one.
Base == IF seed = 0 THEN 1 ELSE seed

stop == /\ phase # "down"
        /\ stops < MaxStops
        /\ stops' = stops + 1
        /\ phase' = "down"
        /\ world' = Base
        /\ outputChan' = <<>>
        /\ lastOutput' = 0 /\ listeners' = {} /\ reading' = FALSE
        /\ fan' = "receive" /\ o' = 0 /\ left' = {} /\ full' = {}
        /\ pc' = [c \in Conns |-> "new"]
        /\ msgs' = [c \in Conns |-> <<>>]
        /\ open' = [c \in Conns |-> TRUE]
        /\ payload' = [c \in Conns |-> 0]
        /\ reader' = [c \in Conns |-> "none"]
        /\ pending' = [c \in Conns |-> 0]
        /\ cancelled' = [c \in Conns |-> FALSE]
        /\ request' = [s \in Savers |-> "none"]
        /\ loaded' = [s \in Savers |-> 0]
        /\ given' = [c \in Conns |-> 0]
        /\ got' = [c \in Conns |-> 0]
        /\ edit' = [c \in Conns |-> 0]
        /\ kept' = seed
        /\ UNCHANGED <<seed, row, resumed>>

\* setSeed: an empty row is too short to decode, and NewEngine's defaults stay.
Defaults == [playing |-> FALSE, speed |-> 100, count |-> 0, cells |-> <<>>]

setSeed(bytes) ==
    IF bytes = <<>> \/ ~decodeOutput(bytes).ok THEN Defaults ELSE decodeOutput(bytes).msg

\* The next start, where GetSeed succeeds; where it fails main ends at once.
start == /\ phase = "down"
         /\ phase' = "up"
         /\ outputChan' = <<world>>
         /\ resumed' = setSeed(row)
         /\ UNCHANGED <<world, registry, fanout, handlers, msgs, readers, saving, given,
                        clients, row, kept, stops>>

SystemNext == serverStep \/ interrupt \/ stop \/ start

SystemSpec == SystemInit /\ [][SystemNext]_system

\* While the process runs, its goroutines do: a handler whose reader has ended
\* goes on, and a read, or a send, under a cancelled context returns.  Weak
\* fairness, with what enables the step written out.
Ends(c) == At(c, "wait") /\ reader[c] = "ended"
Returns(c) == cancelled[c] /\ reader[c] \in {"read", "queue"}

RunningFairness ==
    \A c \in Conns :
        /\ []<>~(phase # "down" /\ Ends(c)) \/ []<><<waitReader(c)>>_system
        /\ []<>~(phase # "down" /\ Returns(c))
               \/ []<><<Returns(c) /\ (readError(c) \/ queueCancelled(c))>>_system

FairSystemSpec == SystemSpec /\ RunningFairness

-----------------------------------------------------------------------------
\* The detailed server, with its queues and its goroutines, and with crashes,
\* does what Service promises: clients see the world go forward, the seed is a
\* world there was, and a save that was not overlapped is never lost.
Promise == INSTANCE Service WITH current <- world, shown <- got

ImplementsService == Promise!Spec

\* A life begins with what was saved: cells with their ages and colours, state
\* and speed, after a round through the bytes of the row.
ResumesAsSaved == [][start => resumed' = Content(world')]_system

\* A handler that ends does not hang on its reader, unless the process ends.
HandlersEnd == \A c \in Conns : At(c, "wait") ~> At(c, "remove") \/ phase = "down"

=============================================================================
