---------------------------- MODULE VNicControl -----------------------------
(***************************************************************************)
(* The control plane of the port: utils/stateful.h driving VNic and its    *)
(* queues, and the configuration code of vnic/vnic.cpp.                    *)
(*                                                                         *)
(* Controllers are threads calling configure(), start(), stop() and        *)
(* updateReta().  A call that the automaton refuses changes nothing and    *)
(* is left out.  rxQueues_ and txQueues_ are kept in one sequence, RX      *)
(* queues first, the order in which every loop of vnic.cpp visits them.    *)
(* The RETA is the set of its entries.                                     *)
(*                                                                         *)
(* Where the code allocates, std::bad_alloc may pass through it: the scope *)
(* guards on its way run, Stateful does not catch it, and the state stays  *)
(* what it was.                                                            *)
(***************************************************************************)
EXTENDS Naturals, Sequences, FiniteSets

CONSTANTS Controllers,
          Configs,              \* arguments of configure(const Config&)
          Retas,                \* arguments of updateReta()
          RetaSize,             \* entries of a default table
          StopDuringStart,      \* may stop() be called before start() returned?
          UpdateDuringConfigure \* may updateReta() overlap configure()?

\* ok stands for the checks of mtu, link, key, VLAN ids and MAC address.
ConfigType == [rx : Nat, tx : Nat, rss : BOOLEAN, reta : SUBSET Nat, ok : BOOLEAN]

ASSUME VNicControlAssumption == /\ Configs \subseteq ConfigType
                                /\ Retas \subseteq SUBSET Nat
                                /\ RetaSize \in Nat \ {0}
                                /\ StopDuringStart \in BOOLEAN
                                /\ UpdateDuringConfigure \in BOOLEAN

VARIABLES state,   \* VNic's Stateful::state_
          config,  \* config_
          queues,  \* rxQueues_ and txQueues_: kind and state of each queue
          reta,    \* reta_
          thread,  \* thread_: no thread, running, asked to stop, exited
          call,    \* where each controller is, and the locals of its call
          broken   \* history: an exception left configure() or start()

port == <<config, queues, reta, thread>>
vars == <<state, port, call, broken>>

\* Config{}: one RX queue, no TX queue, no RSS.
NoConfig == [rx |-> 1, tx |-> 0, rss |-> FALSE, reta |-> {}, ok |-> TRUE]

\* arg: the argument; k: the loop index; n: how many queues a rollback has to
\* stop; failed: firstError of stopQueues is set, or an exception is in flight.
Idle == [at |-> "idle", arg |-> NoConfig, k |-> 1, n |-> 0, failed |-> FALSE]

At(c) == call[c].at

Call(c, step, arg, k) ==
    call' = [call EXCEPT ![c] = [Idle EXCEPT !.at = step, !.arg = arg, !.k = k]]
Goto(c, step) == call' = [call EXCEPT ![c].at = step]
Return(c) == call' = [call EXCEPT ![c] = Idle]
Advance(c) == call' = [call EXCEPT ![c].k = @ + 1]

\* The exception reaches the caller.
Throw(c) == Return(c) /\ broken' = TRUE /\ UNCHANGED state

\* A fresh port has no queue yet.
Init == /\ state = "Stopped" /\ config = NoConfig
        /\ queues = <<>> /\ reta = {} /\ thread = "none" /\ broken = FALSE
        /\ call = [c \in Controllers |-> Idle]

-----------------------------------------------------------------------------
(* configure(const Config&). *)

\* Mutant: a call under way does not exclude another.
ConfigurableWhileConfiguring == state \in {"Stopped", "Configured", "Error", "Configuring"}

Configurable == state \in {"Stopped", "Configured", "Error"}

Configure(c, cfg) == /\ At(c) = "idle"
                     /\ Configurable
                     /\ UpdateDuringConfigure \/ \A d \in Controllers : At(d) # "retaWrite"
                     /\ state' = "Configuring"
                     /\ Call(c, "cfgApply", cfg, 1)
                     /\ UNCHANGED <<port, broken>>

\* Config::validate.
Valid(cfg) == /\ cfg.ok
              /\ cfg.rss => cfg.rx # 0 /\ \A e \in cfg.reta : e < cfg.rx

\* An invalid configuration is refused before anything is touched.  The copy
\* may throw at one of the members that allocate, the RETA or a later one, with
\* no guard set yet.  The steps after this one return no error for a validated
\* configuration.
CfgApply(c) ==
    LET arg == call[c].arg
    IN  /\ At(c) = "cfgApply"
        /\ \/ /\ Valid(arg)
              /\ config' = arg
              /\ Goto(c, "cfgQueues")
              /\ UNCHANGED <<state, broken>>
           \/ /\ Valid(arg)
              /\ \E r \in {arg.reta, config.reta} : config' = [arg EXCEPT !.reta = r]
              /\ Throw(c)
           \/ /\ ~Valid(arg)
              /\ state' = "Error"
              /\ Return(c)
              /\ UNCHANGED <<config, broken>>
        /\ UNCHANGED <<queues, reta, thread>>

\* An allocation in configureQueues or configureRss throws: the guard of
\* configureImpl clears everything.
CfgThrows(c) == /\ At(c) \in {"cfgQueues", "cfgRss"}
                /\ queues' = <<>> /\ reta' = {} /\ config' = NoConfig
                /\ Throw(c)
                /\ UNCHANGED thread

FreshQueues(cfg) == [i \in 1 .. cfg.rx + cfg.tx |->
                        [kind |-> IF i <= cfg.rx THEN "rx" ELSE "tx", st |-> "Stopped"]]

\* configureQueues destroys the old queues; without RSS the RETA stays as it was.
CfgQueues(c) == /\ At(c) = "cfgQueues"
                /\ queues' = FreshQueues(config)
                /\ \/ config.rss /\ Goto(c, "cfgRss") /\ UNCHANGED state
                   \/ ~config.rss /\ Return(c) /\ state' = "Configured"
                /\ UNCHANGED <<config, reta, thread, broken>>

\* Mutant: a table that is there is kept.
TableKeeping(cfg) == IF reta # {} THEN reta ELSE {i % cfg.rx : i \in 0 .. RetaSize - 1}

\* initReta: the explicit table, or round-robin over the RX queues.
Table(cfg) == IF cfg.reta # {} THEN cfg.reta ELSE {i % cfg.rx : i \in 0 .. RetaSize - 1}

CfgRss(c) == /\ At(c) = "cfgRss"
             /\ reta' = Table(config)
             /\ state' = "Configured"
             /\ Return(c)
             /\ UNCHANGED <<config, queues, thread, broken>>

-----------------------------------------------------------------------------
(* configure(queueId, RxQueue::Config or TxQueue::Config). *)

ConfigureQueue(c, i) == /\ At(c) = "idle"
                        /\ Configurable
                        /\ state' = "Configuring"
                        /\ Call(c, "cfgQueue", NoConfig, i)
                        /\ UNCHANGED <<port, broken>>

\* A bad queue id or size, and a queue that refuses, put the port in Error.
CfgQueue(c) == /\ At(c) = "cfgQueue"
               /\ \/ /\ call[c].k \in DOMAIN queues
                     /\ queues[call[c].k].st # "Started"
                     /\ queues' = [queues EXCEPT ![call[c].k].st = "Configured"]
                     /\ state' = "Configured"
                  \/ state' = "Error" /\ UNCHANGED queues
               /\ Return(c)
               /\ UNCHANGED <<config, reta, thread, broken>>

-----------------------------------------------------------------------------
(* start(). *)

\* Mutant: a stopped port starts again without configure().
StartStopped(c) == /\ At(c) = "idle"
                   /\ state \in {"Configured", "Stopped"}
                   /\ state' = "Starting"
                   /\ Call(c, "publish", NoConfig, 1)
                   /\ UNCHANGED <<port, broken>>

Start(c) == /\ At(c) = "idle"
            /\ state = "Configured"
            /\ state' = "Starting"
            /\ Call(c, "publish", NoConfig, 1)
            /\ UNCHANGED <<port, broken>>

\* Started is published before startImpl runs.
Publish(c) == /\ At(c) = "publish"
              /\ state' = "Started"
              /\ Goto(c, "startQueue")
              /\ UNCHANGED <<port, broken>>

\* RxQueue::start configures a stopped queue first; TxQueue has no such start.
Startable(q) == q.st = "Configured" \/ (q.kind = "rx" /\ q.st = "Stopped")

\* A guard runs: the first m queues are to be stopped again.
Rollback(c, m, thrown) ==
    call' = [call EXCEPT ![c] = [@ EXCEPT !.at = "undo", !.k = 1, !.n = m, !.failed = thrown]]

\* The loops of startQueues.  A start fails when the automaton of the queue
\* refuses, or when RxQueue::startImpl finds its free list full; it throws when
\* a push on that list does, which leaves the queue Started and its lists empty.
StartQueue(c) ==
    LET k == call[c].k
    IN  /\ At(c) = "startQueue"
        /\ \/ /\ k <= Len(queues) /\ Startable(queues[k])
              /\ queues' = [queues EXCEPT ![k].st = "Started"]
              /\ Advance(c)
           \/ /\ k <= Len(queues) /\ Startable(queues[k]) /\ queues[k].kind = "rx"
              /\ \E thrown \in BOOLEAN :
                    /\ queues' = [queues EXCEPT ![k].st = IF thrown THEN "Started" ELSE "Error"]
                    /\ Rollback(c, k - 1, thrown)
           \/ /\ k <= Len(queues) /\ ~Startable(queues[k])
              /\ Rollback(c, k - 1, FALSE)
              /\ UNCHANGED queues
           \/ /\ k > Len(queues)
              /\ Goto(c, "spawn")
              /\ UNCHANGED queues
        /\ UNCHANGED <<state, config, reta, thread, broken>>

\* thread_ = std::jthread{...}; on success start() returns and leaves the state
\* alone.  An older thread would be stopped and joined by the assignment, but
\* there is one only in states that already violate PollOnlyWhenStarted.
Spawn(c) == /\ At(c) = "spawn"
            /\ \/ /\ thread = "none"
                  /\ thread' = "running"
                  /\ Return(c)
               \/ /\ Rollback(c, Len(queues), FALSE)   \* startImpl catches the exception
                  /\ UNCHANGED thread
            /\ UNCHANGED <<state, config, queues, reta, broken>>

\* queue.stop(): the automaton of a queue that is not Started refuses.
Stopped(qs, i) == [qs EXCEPT ![i].st = IF @ = "Started" THEN "Stopped" ELSE @]

\* Mutant: the last queue started is forgotten.
UndoneEarly(c) == call[c].k >= call[c].n

Undone(c) == call[c].k > call[c].n

\* The guards of startQueues and startImpl stop what was started; then start()
\* fails, or the exception goes on.
Undo(c) == /\ At(c) = "undo"
           /\ \/ /\ ~Undone(c)
                 /\ queues' = Stopped(queues, call[c].k)
                 /\ Advance(c)
                 /\ UNCHANGED <<state, broken>>
              \/ /\ Undone(c) /\ ~call[c].failed
                 /\ state' = "Error"
                 /\ Return(c)
                 /\ UNCHANGED <<queues, broken>>
              \/ /\ Undone(c) /\ call[c].failed
                 /\ Throw(c)
                 /\ UNCHANGED queues
           /\ UNCHANGED <<config, reta, thread>>

-----------------------------------------------------------------------------
(* stop() and the destructor. *)

InStart(c) == At(c) \in {"publish", "startQueue", "spawn", "undo"}

Stop(c) == /\ At(c) = "idle"
           /\ state = "Started"
           /\ StopDuringStart \/ \A d \in Controllers : ~InStart(d)
           /\ state' = "Stopping"
           /\ Call(c, "request", NoConfig, 1)
           /\ UNCHANGED <<port, broken>>

\* ~VNic: nobody else uses the port any more.
Destroy(c) == /\ \A d \in Controllers : At(d) = "idle"
              /\ state # "Destroyed"
              /\ state' = "Destroyed"
              /\ Call(c, "request", NoConfig, 1)
              /\ UNCHANGED <<port, broken>>

RequestStop(c) == /\ At(c) = "request"
                  /\ thread' = IF thread = "running" THEN "asked" ELSE thread
                  /\ Goto(c, "join")
                  /\ UNCHANGED <<state, config, queues, reta, broken>>

\* Mutant: nobody waits for the thread.
JoinedAtOnce == TRUE

Joined == thread \in {"none", "exited"}

Join(c) == /\ At(c) = "join"
           /\ Joined
           /\ thread' = IF thread = "exited" THEN "none" ELSE thread
           /\ Goto(c, "stopQueue")
           /\ UNCHANGED <<state, config, queues, reta, broken>>

\* Mutant: a queue that refuses to stop is tried again.
AfterInsisting(k) == IF queues[k].st = "Started" THEN k + 1 ELSE k

After(k) == k + 1

\* stopQueues goes on after a queue that refuses, and reports it at the end.
StopQueue(c) ==
    LET k == call[c].k
    IN  /\ At(c) = "stopQueue"
        /\ \/ /\ k <= Len(queues)
              /\ queues' = Stopped(queues, k)
              /\ call' = [call EXCEPT ![c] =
                             [@ EXCEPT !.k = After(k),
                                       !.failed = call[c].failed \/ queues[k].st # "Started"]]
              /\ UNCHANGED <<state, broken>>
           \/ /\ k > Len(queues)
              /\ state' = IF state = "Destroyed" THEN state
                          ELSE IF call[c].failed THEN "Error" ELSE "Stopped"
              /\ Return(c)
              /\ broken' = FALSE
              /\ UNCHANGED queues
        /\ UNCHANGED <<config, reta, thread>>

\* poll() sees the stop request at the head of its loop.
PollExit == /\ thread = "asked"
            /\ thread' = "exited"
            /\ UNCHANGED <<state, config, queues, reta, call, broken>>

-----------------------------------------------------------------------------
(* updateReta(), in any state: checked against config_, then written. *)

InConfigure(c) == At(c) \in {"cfgApply", "cfgQueues", "cfgRss", "cfgQueue"}

UpdateReta(c, R) == /\ At(c) = "idle"
                    /\ state # "Destroyed"
                    /\ UpdateDuringConfigure \/ \A d \in Controllers : ~InConfigure(d)
                    /\ R # {} /\ \A e \in R : e < config.rx
                    /\ Call(c, "retaWrite", [NoConfig EXCEPT !.reta = R], 1)
                    /\ UNCHANGED <<state, port, broken>>

RetaWrite(c) == /\ At(c) = "retaWrite"
                /\ reta' = call[c].arg.reta
                /\ Return(c)
                /\ UNCHANGED <<state, config, queues, thread, broken>>

-----------------------------------------------------------------------------

\* A controller makes a call ...
Begin(c) == \/ \E cfg \in Configs : Configure(c, cfg)
            \/ \E i \in 1 .. Len(queues) + 1 : ConfigureQueue(c, i)
            \/ Start(c) \/ Stop(c) \/ Destroy(c)
            \/ \E R \in Retas : UpdateReta(c, R)

\* ... or takes the next step of the one it made.
Continue(c) == \/ CfgApply(c) \/ CfgQueues(c) \/ CfgRss(c) \/ CfgThrows(c) \/ CfgQueue(c)
               \/ Publish(c) \/ StartQueue(c) \/ Spawn(c) \/ Undo(c)
               \/ RequestStop(c) \/ Join(c) \/ StopQueue(c)
               \/ RetaWrite(c)

\* The port is gone.
Gone == /\ state = "Destroyed" /\ \A c \in Controllers : At(c) = "idle"
        /\ UNCHANGED vars

Next == (\E c \in Controllers : Begin(c) \/ Continue(c)) \/ PollExit \/ Gone

Spec == Init /\ [][Next]_vars

\* A controller inside a call keeps running, and so does the poll thread.
Fairness == WF_vars(PollExit) /\ \A c \in Controllers : WF_vars(Continue(c))

FairSpec == Spec /\ Fairness

-----------------------------------------------------------------------------
(* Properties. *)

InStop(c) == At(c) \in {"request", "join", "stopQueue"}

\* The CAS automaton lets one controller at a time into configureImpl,
\* startImpl and stopImpl, which share thread_ and the queue vectors.
OneTransition == \A c, d \in Controllers :
                    /\ InConfigure(c) \/ InStart(c) \/ InStop(c)
                    /\ InConfigure(d) \/ InStart(d) \/ InStop(d)
                    => c = d

StartedQueues == {i \in DOMAIN queues : queues[i].st = "Started"}

Settled == \A c \in Controllers : At(c) \in {"idle", "retaWrite"}

\* start() and stop() are all or nothing: between calls the port is Started
\* with its thread and every queue running, or it rests and nothing of it runs,
\* whichever queue or thread creation failed on the way.  After an exception
\* the state is stuck in Configuring, or claims Started until stop() is called,
\* but nothing was half built that runs: there is no thread, and no queue but
\* the one that threw counts as started.
AllOrNothing ==
    Settled =>
        \/ /\ state = "Started" /\ ~broken
           /\ thread = "running" /\ StartedQueues = DOMAIN queues
        \/ /\ state \in {"Stopped", "Configured", "Error", "Destroyed"} /\ ~broken
           /\ thread = "none" /\ StartedQueues = {}
        \/ /\ state = "Configuring" /\ broken
           /\ thread = "none" /\ StartedQueues = {}
        \/ /\ state = "Started" /\ broken
           /\ thread = "none" /\ Cardinality(StartedQueues) = 1

\* The poll loop runs only over started queues, and while the state is Started
\* or stop() (or the destructor) waits for it.
PollOnlyWhenStarted == thread \in {"running", "asked"} =>
                          /\ state \in {"Started", "Stopping", "Destroyed"}
                          /\ StartedQueues = DOMAIN queues

RxQueues == {i \in DOMAIN queues : queues[i].kind = "rx"}

\* Whatever table the poll loop may look up names only queues that exist: the
\* assertion queueId < rxQueues_.size() of distribute().
RetaInRange == thread \in {"running", "asked"} /\ config.rss =>
                  \A e \in reta : e < Cardinality(RxQueues)

Life == INSTANCE Lifecycle WITH polls <- thread \in {"running", "asked"}

\* The port implements Lifecycle: whatever the controllers call at once and
\* whatever fails, its state moves only along the documented transitions,
\* although all but the first store of a call are unconditional, and the poll
\* thread comes and goes only where they allow it.
FollowsLifecycle == Life!Spec

\* Every call returns: stop() and the destructor get their thread, start()
\* comes to an end.
CallsReturn == \A c \in Controllers : At(c) # "idle" ~> At(c) = "idle"

=============================================================================
