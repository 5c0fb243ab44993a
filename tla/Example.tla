------------------------------- MODULE Example ------------------------------
(***************************************************************************)
(* examples/base-nic/main.cpp: a program around one port.  main()          *)
(* configures and starts the port, runs four threads until a signal clears *)
(* g_running, joins them and stops the port.  The receive side of the port *)
(* is VNicRx; of the transmit side, only how many frames are in the TX     *)
(* pipe matters here.                                                      *)
(***************************************************************************)
EXTENDS VNicRx

CONSTANT TxDepth  \* Link::Config::txQueueDepth

ASSUME ExampleAssumption == TxDepth \in Nat \ {0}

Workers == {"producer", "consumer", "txProducer", "txConsumer"}

VARIABLES running,  \* g_running
          main,     \* where main() is
          worker,   \* where each thread is
          txPipe    \* frames in the TX pipe

exampleVars == <<vars, running, main, worker, txPipe>>

ExampleInit == /\ Init /\ config.rss
               /\ running = TRUE
               /\ main = "configure"
               /\ worker = [w \in Workers |-> "none"]
               /\ txPipe = 0

-----------------------------------------------------------------------------
(* The threads. *)

Move(w, from, to) == /\ worker[w] = from
                     /\ worker' = [worker EXCEPT ![w] = to]
                     /\ UNCHANGED <<running, main>>

\* The head of each loop.
Test(w) == Move(w, "test", IF running THEN "work" ELSE "exited") /\ UNCHANGED <<vars, txPipe>>

\* putRx() of a new frame, or the pipe is full; sleep.
Produce == /\ Move("producer", "work", "test")
           /\ UNCHANGED txPipe
           /\ (\E f \in Frame : PutRx(f)) \/ UNCHANGED vars

\* Mutant: the loop ends between rx() and freeRx().
AfterRxTesting == IF running THEN "free" ELSE "exited"

\* What was taken is dumped and freed in the same turn.
AfterRx == "free"

\* rx(0), or there was nothing and it sleeps.
Consume == /\ UNCHANGED txPipe
           /\ \/ Move("consumer", "work", AfterRx) /\ Rx(0)
              \/ Move("consumer", "work", "test") /\ queue[0] = <<>> /\ UNCHANGED vars

\* freeRx(0) of everything taken.
Free == Move("consumer", "free", "test") /\ FreeRx(0, out[0]) /\ UNCHANGED txPipe

\* tx(0) of one descriptor, or malloc fails or the pipe is full; its buffer is
\* freed in the same turn.
Transmit == /\ Move("txProducer", "work", "test")
            /\ UNCHANGED vars
            /\ (txPipe < TxDepth /\ txPipe' = txPipe + 1) \/ UNCHANGED txPipe

\* Mutant: a timeout does not lead back to the test.
AfterTxTimeoutWaiting == "work"

AfterTxTimeout == "test"

\* takeTx() gets a frame or times out.
TxConsume == /\ UNCHANGED vars
             /\ \/ Move("txConsumer", "work", "test") /\ txPipe > 0 /\ txPipe' = txPipe - 1
                \/ Move("txConsumer", "work", AfterTxTimeout) /\ txPipe = 0 /\ UNCHANGED txPipe

-----------------------------------------------------------------------------
(* main(). *)

MainTo(from, to) == main = from /\ main' = to

\* configure() of the port and of each queue, and up(); a failure ends the program.
ConfigureAll == /\ \/ MainTo("configure", "start") /\ up' = TRUE
                   \/ MainTo("configure", "returned") /\ UNCHANGED up
                /\ UNCHANGED <<portVars, pipe, pollVars, reta, queue, appVars, stats, hist, running,
                               worker, txPipe>>

\* start(), and the four threads; or start() fails.
StartAll == /\ \/ MainTo("start", "join") /\ Start /\ worker' = [w \in Workers |-> "test"]
               \/ MainTo("start", "returned") /\ UNCHANGED <<vars, worker>>
            /\ UNCHANGED <<running, txPipe>>

\* The joins return when all four threads have ended, in whatever order; then
\* stop() requests the poll thread to stop ...
Join == /\ MainTo("join", "stop")
        /\ \A w \in Workers : worker[w] = "exited"
        /\ RequestStop
        /\ UNCHANGED <<running, worker, txPipe>>

\* ... and returns when the queues are drained.
Stopped == MainTo("stop", "returned") /\ JoinAndDrain /\ UNCHANGED <<running, worker, txPipe>>

\* SIGINT or SIGTERM, at any time.
Signal == running /\ running' = FALSE /\ UNCHANGED <<vars, main, worker, txPipe>>

Ended == main = "returned" /\ UNCHANGED exampleVars

PollStep == Poll /\ UNCHANGED <<running, main, worker, txPipe>>

MainStep == ConfigureAll \/ StartAll \/ Join \/ Stopped

WorkerStep(w) == Test(w) \/ CASE w = "producer"   -> Produce
                              [] w = "consumer"   -> Consume \/ Free
                              [] w = "txProducer" -> Transmit
                              [] w = "txConsumer" -> TxConsume

ExampleNext == MainStep \/ PollStep \/ Signal \/ Ended \/ \E w \in Workers : WorkerStep(w)

\* Every thread of the program keeps running.
ExampleSpec == /\ ExampleInit /\ [][ExampleNext]_exampleVars
               /\ WF_exampleVars(MainStep) /\ WF_exampleVars(PollStep)
               /\ \A w \in Workers : WF_exampleVars(WorkerStep(w))

-----------------------------------------------------------------------------
(* Properties. *)

\* When main() calls stop(), no descriptor is with the application and no
\* thread is inside a call of the port: the condition under which stop()
\* returns and the next start() finds its descriptors.
StopIsQuiet == port = "joining" => /\ \A q \in Queues : out[q] = 0
                                   /\ \A w \in Workers : worker[w] = "exited"

\* After a signal the program ends, however many frames are on their way and
\* whether or not they fit the queues nobody reads.
ShutsDown == ~running ~> main = "returned"

=============================================================================
