-------------------------- MODULE VNicControlProofs -------------------------
(***************************************************************************)
(* Theorems about VNicControl: for any number of controllers, queues,      *)
(* configurations and tables, and whatever fails or throws, provided that  *)
(* nobody calls stop() before start() returned, or updateReta() beside     *)
(* configure().                                                            *)
(***************************************************************************)
EXTENDS VNicControl, FiniteSetTheorems, SequenceTheorems, TLAPS

-----------------------------------------------------------------------------
(* The inductive invariant. *)

Queue == [kind : {"rx", "tx"}, st : {"Stopped", "Configured", "Started", "Error"}]

Steps == {"idle", "cfgApply", "cfgQueues", "cfgRss", "cfgQueue", "publish", "startQueue", "spawn",
          "undo", "request", "join", "stopQueue", "retaWrite"}

CallType == [at : Steps, arg : ConfigType, k : Nat, n : Nat, failed : BOOLEAN]

TypeInv ==
    /\ state \in {"Stopped", "Configuring", "Configured", "Starting", "Started", "Stopping",
                  "Error", "Destroyed"}
    /\ config \in ConfigType
    /\ queues \in Seq(Queue)
    /\ reta \in SUBSET Nat
    /\ thread \in {"none", "running", "asked", "exited"}
    /\ broken \in BOOLEAN
    /\ call \in [Controllers -> CallType]

Busy(c) == InConfigure(c) \/ InStart(c) \/ InStop(c)

\* The state says which call is under way.
Phase(c) ==
    /\ Busy(c) \/ At(c) \in {"idle", "retaWrite"}
    /\ InConfigure(c) => state = "Configuring"
    /\ At(c) = "publish" => state = "Starting"
    /\ At(c) \in {"startQueue", "spawn", "undo"} => state = "Started"
    /\ InStop(c) => state \in {"Stopping", "Destroyed"}

\* What runs of the port at each step of a call.
RunInv(c) ==
    LET k == call[c].k
        n == call[c].n
    IN  /\ InConfigure(c) \/ InStart(c) => thread = "none" /\ ~broken
        /\ InConfigure(c) \/ At(c) = "publish" => StartedQueues = {}
        /\ At(c) = "publish" => k = 1
        /\ At(c) = "startQueue" => k \in 1 .. Len(queues) + 1 /\ StartedQueues = 1 .. k - 1
        /\ At(c) = "spawn" => StartedQueues = 1 .. Len(queues)
        /\ At(c) = "undo" => /\ k \in 1 .. n + 1
                             /\ n <= Len(queues)
                             /\ ~call[c].failed => StartedQueues = k .. n
                             /\ call[c].failed => /\ n < Len(queues)
                                                  /\ StartedQueues = k .. n + 1
        /\ At(c) = "request" => thread \in {"none", "running"}
        /\ At(c) = "join" => thread \in {"none", "asked", "exited"}
        /\ At(c) \in {"request", "join"} /\ thread # "none" => StartedQueues = 1 .. Len(queues)
        /\ At(c) \in {"request", "join"} => k = 1
        /\ At(c) = "stopQueue" => /\ thread = "none"
                                  /\ k \in 1 .. Len(queues) + 1
                                  /\ StartedQueues \subseteq k .. Len(queues)

\* Queues and table belong to the configuration, once configure() is done with
\* them and as long as the port can still use them.
InUse == \/ state \notin {"Configuring", "Destroyed"}
         \/ thread \in {"running", "asked"}
         \/ \E c \in Controllers : At(c) \in {"cfgApply", "cfgQueue"}

Below(es, m) == \A e \in es : e < m

RetaInv ==
    /\ InUse /\ config.rss => Below(reta, config.rx)
    /\ \A c \in Controllers : At(c) = "retaWrite" =>
          /\ Below(call[c].arg.reta, config.rx)
          /\ \A d \in Controllers : At(d) \notin {"cfgApply", "cfgQueues", "cfgRss"}

\* Only the entries of the table depend on when updateReta() is called.
TableInv ==
    /\ InUse /\ config.rss => RxQueues = 1 .. config.rx
    /\ \A c \in Controllers :
          /\ At(c) \in {"cfgQueues", "cfgRss"} => Valid(config)
          /\ At(c) = "cfgRss" => config.rss /\ RxQueues = 1 .. config.rx
    /\ UpdateDuringConfigure \/ RetaInv

IInv == /\ TypeInv
        /\ OneTransition
        /\ AllOrNothing
        /\ \A c \in Controllers : Phase(c) /\ RunInv(c)
        /\ TableInv

-----------------------------------------------------------------------------
(* What the parts of the actions do to a controller and to a queue. *)

Untouched(c) == \A d \in Controllers \ {c} : call'[d] = call[d]

\* The locals of one controller change.
LEMMA CallUpdate ==
  ASSUME TypeInv, NEW c \in Controllers, NEW r \in CallType, call' = [call EXCEPT ![c] = r]
  PROVE  call' \in [Controllers -> CallType] /\ call'[c] = r /\ Untouched(c)
  BY DEF TypeInv, Untouched

\* The locals of a controller outside every call.
LEMMA IdleType == Idle \in CallType /\ Idle.at = "idle" /\ ~Idle.failed
  <1>1. NoConfig \in ConfigType
    <2>1. 1 \in Nat /\ 0 \in Nat /\ {} \in SUBSET Nat
      OBVIOUS
    <2> QED
      BY <2>1, Zenon DEF NoConfig, ConfigType
  <1>2. 1 \in Nat /\ 0 \in Nat /\ "idle" \in Steps
    BY DEF Steps
  <1>3. Idle \in CallType
    BY <1>1, <1>2, Zenon DEF Idle, CallType
  <1>4. Idle.at = "idle" /\ Idle.failed = FALSE
    BY DEF Idle
  <1> QED
    BY <1>3, <1>4, Zenon

\* A call begins with fresh locals.
LEMMA CallEffect ==
  ASSUME TypeInv, NEW c \in Controllers, NEW step \in Steps, NEW arg \in ConfigType,
         NEW k \in Nat, Call(c, step, arg, k)
  PROVE  /\ call' \in [Controllers -> CallType] /\ Untouched(c)
         /\ call'[c].at = step /\ call'[c].arg = arg /\ call'[c].k = k /\ ~call'[c].failed
  <1> DEFINE r == [Idle EXCEPT !.at = step, !.arg = arg, !.k = k]
  <1>1. /\ r \in CallType /\ r.at = step /\ r.arg = arg /\ r.k = k
        /\ r.failed = Idle.failed
    BY IdleType DEF CallType
  <1> QED
    BY <1>1, IdleType, CallUpdate DEF Call

\* A step of a call changes where the controller is and keeps its locals.
LEMMA GotoEffect ==
  ASSUME TypeInv, NEW c \in Controllers, NEW step \in Steps, Goto(c, step)
  PROVE  /\ call' \in [Controllers -> CallType] /\ Untouched(c)
         /\ call'[c].at = step /\ call'[c].arg = call[c].arg /\ call'[c].k = call[c].k
  <1> DEFINE r == [call[c] EXCEPT !.at = step]
  <1>1. call[c] \in CallType
    BY DEF TypeInv
  <1>2. r \in CallType /\ r.at = step /\ r.arg = call[c].arg /\ r.k = call[c].k
    BY <1>1 DEF CallType
  <1> QED
    BY <1>2, CallUpdate DEF Goto

\* A loop goes on with the next queue.
LEMMA AdvanceEffect ==
  ASSUME TypeInv, NEW c \in Controllers, Advance(c)
  PROVE  /\ call' \in [Controllers -> CallType] /\ Untouched(c)
         /\ call'[c].at = call[c].at /\ call'[c].k = call[c].k + 1 /\ call'[c].n = call[c].n
         /\ call'[c].failed = call[c].failed
  <1> DEFINE r == [call[c] EXCEPT !.k = @ + 1]
  <1>1. call[c] \in CallType
    BY DEF TypeInv
  <1>2. /\ r \in CallType /\ r.at = call[c].at /\ r.k = call[c].k + 1 /\ r.n = call[c].n
        /\ r.failed = call[c].failed
    BY <1>1 DEF CallType
  <1> QED
    BY <1>2, CallUpdate DEF Advance

\* A guard starts to run.
LEMMA RollbackEffect ==
  ASSUME TypeInv, NEW c \in Controllers, NEW m \in Nat, NEW thrown \in BOOLEAN,
         Rollback(c, m, thrown)
  PROVE  /\ call' \in [Controllers -> CallType] /\ Untouched(c)
         /\ call'[c].at = "undo" /\ call'[c].k = 1 /\ call'[c].n = m /\ call'[c].failed = thrown
  <1> DEFINE r == [call[c] EXCEPT !.at = "undo", !.k = 1, !.n = m, !.failed = thrown]
  <1>1. call[c] \in CallType
    BY DEF TypeInv
  <1>2. r.at = "undo" /\ r.k = 1 /\ r.n = m
    BY <1>1 DEF CallType
  <1>3. r.failed = thrown
    BY <1>1, Zenon DEF CallType
  <1>4. 1 \in Nat /\ "undo" \in Steps
    BY DEF Steps
  <1>5. r \in CallType
    BY <1>1, <1>4, Zenon DEF CallType
  <1> QED
    BY <1>2, <1>3, <1>5, CallUpdate DEF Rollback

\* A call returns.
LEMMA ReturnEffect ==
  ASSUME TypeInv, NEW c \in Controllers, Return(c)
  PROVE  call' \in [Controllers -> CallType] /\ Untouched(c) /\ call'[c].at = "idle"
  BY IdleType, CallUpdate DEF Return

\* One queue changes its state.
LEMMA QueueEffect ==
  ASSUME TypeInv, NEW i \in 1 .. Len(queues),
         NEW s \in {"Stopped", "Configured", "Started", "Error"},
         queues' = [queues EXCEPT ![i].st = s]
  PROVE  /\ queues' \in Seq(Queue)
         /\ Len(queues') = Len(queues)
         /\ RxQueues' = RxQueues
         /\ s = "Started" => StartedQueues' = StartedQueues \cup {i}
         /\ s # "Started" => StartedQueues' = StartedQueues \ {i}
  <1>1. queues \in Seq(Queue) /\ Len(queues) \in Nat /\ DOMAIN queues = 1 .. Len(queues)
    BY LenProperties DEF TypeInv
  <1>2. queues[i] \in Queue
    BY <1>1, ElementOfSeq
  <1>3. [queues[i] EXCEPT !.st = s] \in Queue /\ [queues[i] EXCEPT !.st = s].kind = queues[i].kind
        /\ [queues[i] EXCEPT !.st = s].st = s
    BY <1>2 DEF Queue
  <1>4. queues' = [queues EXCEPT ![i] = [queues[i] EXCEPT !.st = s]]
    BY <1>1
  <1>5. queues' \in Seq(Queue) /\ Len(queues') = Len(queues) /\ DOMAIN queues' = DOMAIN queues
        /\ \A j \in DOMAIN queues : queues'[j] = IF j = i THEN [queues[i] EXCEPT !.st = s] ELSE queues[j]
    BY <1>1, <1>3, <1>4, ExceptSeq
  <1> QED
    BY <1>1, <1>3, <1>5 DEF RxQueues, StartedQueues

\* queue.stop() leaves the queue not started.
LEMMA StoppedEffect ==
  ASSUME TypeInv, NEW i \in 1 .. Len(queues), queues' = Stopped(queues, i)
  PROVE  /\ queues' \in Seq(Queue)
         /\ Len(queues') = Len(queues)
         /\ RxQueues' = RxQueues
         /\ StartedQueues' = StartedQueues \ {i}
  <1> DEFINE s == IF queues[i].st = "Started" THEN "Stopped" ELSE queues[i].st
  <1>1. queues[i] \in Queue /\ i \in DOMAIN queues
    BY ElementOfSeq, LenProperties DEF TypeInv
  <1>2. s \in {"Stopped", "Configured", "Started", "Error"} /\ s # "Started"
    BY <1>1 DEF Queue
  <1>3. queues' = [queues EXCEPT ![i].st = s]
    BY <1>1 DEF Stopped
  <1> QED
    BY <1>2, <1>3, QueueEffect

-----------------------------------------------------------------------------
(* What a step of one controller has to show. *)

\* While the state allows a new transition, and while c is in one, no other
\* controller is in any.
LEMMA Alone ==
  ASSUME IInv, NEW c \in Controllers,
         \/ Busy(c) \/ Configurable
         \/ state = "Started" /\ \A d \in Controllers : ~InStart(d)
  PROVE  \A d \in Controllers \ {c} : ~Busy(d)
  <1>1. CASE Busy(c)
    BY <1>1 DEF IInv, OneTransition, Busy
  <1>2. CASE Configurable
    BY <1>2 DEF IInv, Phase, Busy, Configurable, InStart
  <1>3. CASE state = "Started" /\ \A d \in Controllers : ~InStart(d)
    BY <1>3 DEF IInv, Phase, Busy
  <1> QED
    BY <1>1, <1>2, <1>3

\* A step of the only controller in a transition concerns no other one.
LEMMA StepOfOne ==
  ASSUME IInv, NEW c \in Controllers, Untouched(c),
         \A d \in Controllers \ {c} : ~Busy(d),
         Phase(c)', RunInv(c)', ~Busy(c)' => AllOrNothing'
  PROVE  /\ OneTransition'
         /\ AllOrNothing'
         /\ \A d \in Controllers : Phase(d)' /\ RunInv(d)'
  <1>1. ASSUME NEW d \in Controllers \ {c}
        PROVE  call'[d] = call[d] /\ ~Busy(d)' /\ At(d)' \in {"idle", "retaWrite"}
    <2>1. call'[d] = call[d]
      BY DEF Untouched
    <2>2. ~Busy(d) /\ Phase(d)
      BY DEF IInv
    <2> QED
      BY <2>1, <2>2 DEF Phase, Busy, InConfigure, InStart, InStop, At
  <1>2. ASSUME NEW d \in Controllers \ {c} PROVE Phase(d)' /\ RunInv(d)'
    BY <1>1 DEF Phase, RunInv, Busy, InConfigure, InStart, InStop, At
  <1>3. OneTransition'
    BY <1>1 DEF OneTransition, Busy
  <1>4. AllOrNothing'
    BY DEF AllOrNothing, Settled, Busy, InConfigure, InStart, InStop, At
  <1> QED
    BY <1>2, <1>3, <1>4

\* A step that leaves configuration, kinds of queues and table alone keeps
\* their agreement, unless the port comes into use by it.
LEMMA TableKept ==
  ASSUME IInv, NEW c \in Controllers, Untouched(c),
         config' = config, reta' = reta, RxQueues' = RxQueues,
         InUse' => InUse,
         At(c)' \notin {"cfgQueues", "cfgRss", "retaWrite"},
         \/ At(c)' # "cfgApply"
         \/ UpdateDuringConfigure
         \/ \A d \in Controllers : At(d) # "retaWrite"
  PROVE  TableInv'
  <1>1. ASSUME NEW d \in Controllers \ {c} PROVE call'[d] = call[d]
    BY DEF Untouched
  <1>2. (InUse /\ config.rss => RxQueues = 1 .. config.rx)'
    BY DEF IInv, TableInv
  <1>3. ASSUME NEW d \in Controllers
        PROVE  (/\ At(d) \in {"cfgQueues", "cfgRss"} => Valid(config)
                /\ At(d) = "cfgRss" => config.rss /\ RxQueues = 1 .. config.rx)'
    BY <1>1 DEF IInv, TableInv, Valid, At
  <1>4. ASSUME ~UpdateDuringConfigure PROVE RetaInv'
    <2>1. RetaInv
      BY <1>4 DEF IInv, TableInv
    <2>2. (InUse /\ config.rss => Below(reta, config.rx))'
      BY <2>1 DEF RetaInv, Below
    <2>3. ASSUME NEW d \in Controllers, (At(d) = "retaWrite")'
          PROVE  (/\ Below(call[d].arg.reta, config.rx)
                  /\ \A e \in Controllers : At(e) \notin {"cfgApply", "cfgQueues", "cfgRss"})'
      <3>1. d # c /\ call'[d] = call[d] /\ At(d) = "retaWrite"
        BY <1>1, <2>3 DEF At
      <3>2. At(c)' # "cfgApply"
        BY <1>4, <3>1
      <3>3. /\ Below(call[d].arg.reta, config.rx)
            /\ \A e \in Controllers : At(e) \notin {"cfgApply", "cfgQueues", "cfgRss"}
        BY <2>1, <3>1 DEF RetaInv
      <3> QED
        BY <1>1, <3>1, <3>2, <3>3 DEF Below, At
    <2> QED
      BY <2>2, <2>3 DEF RetaInv
  <1> QED
    BY <1>2, <1>3, <1>4 DEF TableInv

\* While configure() is at work no updateReta() is, unless callers let them overlap.
LEMMA NoWriter ==
  ASSUME IInv, NEW c \in Controllers, At(c) \in {"cfgApply", "cfgQueues", "cfgRss"},
         Untouched(c), At(c)' # "retaWrite", ~UpdateDuringConfigure
  PROVE  \A d \in Controllers : At(d)' # "retaWrite"
  <1>1. \A d \in Controllers : At(d) # "retaWrite"
    BY DEF IInv, TableInv, RetaInv
  <1> QED
    BY <1>1 DEF Untouched, At

\* When no controller is in a transition the port rests.
LEMMA Rests ==
  ASSUME IInv, NEW c \in Controllers, At(c) = "idle", \A d \in Controllers \ {c} : ~Busy(d)
  PROVE  Settled
  BY DEF IInv, Phase, Settled

-----------------------------------------------------------------------------
(* Each action keeps the invariant: calls begin. *)

\* configure(const Config&) enters a port at rest; whether an updateReta() may be
\* under way is up to the callers.
LEMMA ConfigureKeeps ==
  ASSUME IInv, NEW c \in Controllers, NEW cfg \in Configs, Configure(c, cfg)
  PROVE  IInv'
  <1> USE DEF Configure
  <1>1. /\ call' \in [Controllers -> CallType] /\ Untouched(c)
        /\ call'[c].at = "cfgApply"
    BY CallEffect, VNicControlAssumption DEF IInv, Steps
  <1>2. TypeInv'
    BY <1>1 DEF IInv, TypeInv, port
  <1>3. \A d \in Controllers \ {c} : ~Busy(d)
    BY Alone
  <1>4. thread = "none" /\ ~broken /\ StartedQueues = {}
    BY <1>3, Rests DEF IInv, AllOrNothing, Configurable
  <1>5. Phase(c)' /\ Busy(c)'
    BY <1>1 DEF Phase, Busy, InConfigure, InStart, InStop, At
  <1>6. RunInv(c)'
    BY <1>1, <1>4 DEF RunInv, InConfigure, InStart, At, StartedQueues, port
  <1>7. TableInv'
    <2>1. UpdateDuringConfigure \/ \A d \in Controllers : At(d) # "retaWrite"
      OBVIOUS
    <2> QED
      BY <1>1, <2>1, TableKept DEF InUse, Configurable, At, RxQueues, port
  <1> QED
    BY <1>1, <1>2, <1>3, <1>5, <1>6, <1>7, StepOfOne DEF IInv

\* So does the configuration of one queue.
LEMMA ConfigureQueueKeeps ==
  ASSUME IInv, NEW c \in Controllers, NEW i \in Nat, ConfigureQueue(c, i)
  PROVE  IInv'
  <1> USE DEF ConfigureQueue
  <1>1. /\ call' \in [Controllers -> CallType] /\ Untouched(c)
        /\ call'[c].at = "cfgQueue"
    BY CallEffect, IdleType DEF IInv, Steps, CallType, Idle
  <1>2. TypeInv'
    BY <1>1 DEF IInv, TypeInv, port
  <1>3. \A d \in Controllers \ {c} : ~Busy(d)
    BY Alone
  <1>4. thread = "none" /\ ~broken /\ StartedQueues = {}
    BY <1>3, Rests DEF IInv, AllOrNothing, Configurable
  <1>5. Phase(c)' /\ Busy(c)'
    BY <1>1 DEF Phase, Busy, InConfigure, InStart, InStop, At
  <1>6. RunInv(c)'
    BY <1>1, <1>4 DEF RunInv, InConfigure, InStart, At, StartedQueues, port
  <1>7. TableInv'
    BY <1>1, TableKept DEF InUse, Configurable, At, RxQueues, port
  <1> QED
    BY <1>1, <1>2, <1>3, <1>5, <1>6, <1>7, StepOfOne DEF IInv

\* start() enters a configured port, of which nothing runs.
LEMMA StartKeeps ==
  ASSUME IInv, NEW c \in Controllers, Start(c)
  PROVE  IInv'
  <1> USE DEF Start
  <1>1. /\ call' \in [Controllers -> CallType] /\ Untouched(c)
        /\ call'[c].at = "publish" /\ call'[c].k = 1
    BY CallEffect, IdleType DEF IInv, Steps, CallType, Idle
  <1>2. TypeInv'
    BY <1>1 DEF IInv, TypeInv, port
  <1>3. \A d \in Controllers \ {c} : ~Busy(d)
    BY Alone DEF Configurable
  <1>4. thread = "none" /\ ~broken /\ StartedQueues = {}
    BY <1>3, Rests DEF IInv, AllOrNothing
  <1>5. Phase(c)' /\ Busy(c)'
    BY <1>1 DEF Phase, Busy, InConfigure, InStart, InStop, At
  <1>6. RunInv(c)'
    BY <1>1, <1>4 DEF RunInv, InConfigure, InStart, At, StartedQueues, port
  <1>7. TableInv'
    BY <1>1, TableKept DEF InUse, At, RxQueues, port
  <1> QED
    BY <1>1, <1>2, <1>3, <1>5, <1>6, <1>7, StepOfOne DEF IInv

\* stop() enters a started port: it runs as a whole, or start() threw.
LEMMA StopKeeps ==
  ASSUME IInv, NEW c \in Controllers, Stop(c), StopDuringStart = FALSE
  PROVE  IInv'
  <1> USE DEF Stop
  <1>1. /\ call' \in [Controllers -> CallType] /\ Untouched(c)
        /\ call'[c].at = "request" /\ call'[c].k = 1
    BY CallEffect, IdleType DEF IInv, Steps, CallType, Idle
  <1>2. TypeInv'
    BY <1>1 DEF IInv, TypeInv, port
  <1>3. \A d \in Controllers \ {c} : ~Busy(d)
    BY Alone
  <1>4. thread \in {"none", "running"} /\ (thread # "none" => StartedQueues = DOMAIN queues)
    BY <1>3, Rests DEF IInv, AllOrNothing
  <1>5. Phase(c)' /\ Busy(c)'
    BY <1>1 DEF Phase, Busy, InConfigure, InStart, InStop, At
  <1>6. RunInv(c)'
    BY <1>1, <1>4, LenProperties DEF RunInv, InConfigure, InStart, At, StartedQueues, port, IInv, TypeInv
  <1>7. TableInv'
    BY <1>1, TableKept DEF InUse, At, RxQueues, port
  <1> QED
    BY <1>1, <1>2, <1>3, <1>5, <1>6, <1>7, StepOfOne DEF IInv

\* The destructor enters a port in any state.
LEMMA DestroyKeeps ==
  ASSUME IInv, NEW c \in Controllers, Destroy(c)
  PROVE  IInv'
  <1> USE DEF Destroy
  <1>1. /\ call' \in [Controllers -> CallType] /\ Untouched(c)
        /\ call'[c].at = "request" /\ call'[c].k = 1
    BY CallEffect, IdleType DEF IInv, Steps, CallType, Idle
  <1>2. TypeInv'
    BY <1>1 DEF IInv, TypeInv, port
  <1>3. \A d \in Controllers \ {c} : ~Busy(d)
    BY DEF Busy, InConfigure, InStart, InStop
  <1>4. thread \in {"none", "running"} /\ (thread # "none" => StartedQueues = DOMAIN queues)
    BY <1>3, Rests DEF IInv, AllOrNothing
  <1>5. Phase(c)' /\ Busy(c)'
    BY <1>1 DEF Phase, Busy, InConfigure, InStart, InStop, At
  <1>6. RunInv(c)'
    BY <1>1, <1>4, LenProperties DEF RunInv, InConfigure, InStart, At, StartedQueues, port, IInv, TypeInv
  <1>7. TableInv'
    <2>1. InUse' => InUse
      BY <1>1 DEF InUse, At, port, Untouched
    <2> QED
      BY <1>1, <2>1, TableKept DEF At, RxQueues, port
  <1> QED
    BY <1>1, <1>2, <1>3, <1>5, <1>6, <1>7, StepOfOne DEF IInv

-----------------------------------------------------------------------------
(* configure() goes on. *)

\* The configuration is copied, refused, or the copy throws.
LEMMA CfgApplyKeeps ==
  ASSUME IInv, NEW c \in Controllers, CfgApply(c)
  PROVE  IInv'
  <1> DEFINE arg == call[c].arg
  <1>1. /\ At(c) = "cfgApply" /\ arg \in ConfigType /\ state = "Configuring"
        /\ thread = "none" /\ ~broken /\ StartedQueues = {}
        /\ UNCHANGED <<queues, reta, thread>>
    BY DEF CfgApply, IInv, TypeInv, CallType, Phase, RunInv, InConfigure
  <1>2. Busy(c) /\ \A d \in Controllers \ {c} : ~Busy(d)
    BY <1>1, Alone DEF Busy, InConfigure
  <1>4. CASE Valid(arg) /\ config' = arg /\ Goto(c, "cfgQueues") /\ UNCHANGED <<state, broken>>
    <2>1. call' \in [Controllers -> CallType] /\ Untouched(c) /\ call'[c].at = "cfgQueues"
      BY <1>4, GotoEffect DEF IInv, Steps
    <2>2. TypeInv'
      BY <1>1, <1>4, <2>1 DEF IInv, TypeInv
    <2>3. Phase(c)' /\ Busy(c)' /\ RunInv(c)'
      BY <1>1, <1>4, <2>1 DEF Phase, RunInv, Busy, InConfigure, InStart, InStop, At, StartedQueues
    <2>4. \A d \in Controllers : At(d)' \notin {"cfgApply", "cfgQueue", "cfgRss"}
      BY <1>2, <2>1 DEF Untouched, Busy, InConfigure, At
    <2>5. ~InUse'
      BY <1>1, <1>4, <2>4 DEF InUse
    <2>6. ~UpdateDuringConfigure => RetaInv'
      BY <1>1, <2>1, <2>5, NoWriter DEF RetaInv, At
    <2>7. TableInv'
      BY <1>4, <2>4, <2>5, <2>6 DEF TableInv, Valid
    <2> QED
      BY <1>2, <2>1, <2>2, <2>3, <2>7, StepOfOne DEF IInv
  <1>5. ASSUME NEW r \in {arg.reta, config.reta}, config' = [arg EXCEPT !.reta = r], Throw(c)
        PROVE  IInv'
    <2>1. call' \in [Controllers -> CallType] /\ Untouched(c) /\ call'[c].at = "idle"
      BY <1>5, ReturnEffect DEF IInv, Throw
    <2>2. TypeInv'
      <3>1. config \in ConfigType
        BY DEF IInv, TypeInv
      <3>2. config' \in ConfigType
        BY <1>1, <1>5, <3>1 DEF ConfigType
      <3> QED
        BY <1>1, <1>5, <2>1, <3>2 DEF IInv, TypeInv, Throw
    <2>3. Phase(c)' /\ RunInv(c)'
      BY <2>1 DEF Phase, RunInv, Busy, InConfigure, InStart, InStop, At
    <2>4. AllOrNothing'
      BY <1>1, <1>5 DEF AllOrNothing, StartedQueues, Throw
    <2>5. \A d \in Controllers : At(d)' \in {"idle", "retaWrite"}
      BY <1>2, <2>1 DEF IInv, Phase, Untouched, At
    <2>6. ~InUse'
      BY <1>1, <1>5, <2>5 DEF InUse, Throw
    <2>7. ~UpdateDuringConfigure => RetaInv'
      BY <1>1, <2>1, <2>6, NoWriter DEF RetaInv, At
    <2>8. TableInv'
      BY <2>5, <2>6, <2>7 DEF TableInv
    <2> QED
      BY <1>2, <2>1, <2>2, <2>3, <2>4, <2>8, StepOfOne DEF IInv
  <1>6. CASE state' = "Error" /\ Return(c) /\ UNCHANGED <<config, broken>>
    <2>1. call' \in [Controllers -> CallType] /\ Untouched(c) /\ call'[c].at = "idle"
      BY <1>6, ReturnEffect DEF IInv
    <2>2. TypeInv'
      BY <1>1, <1>6, <2>1 DEF IInv, TypeInv
    <2>3. Phase(c)' /\ RunInv(c)'
      BY <2>1 DEF Phase, RunInv, Busy, InConfigure, InStart, InStop, At
    <2>4. AllOrNothing'
      BY <1>1, <1>6 DEF AllOrNothing, StartedQueues
    <2>5. TableInv'
      BY <1>1, <1>6, <2>1, TableKept DEF InUse, At, RxQueues
    <2> QED
      BY <1>2, <2>1, <2>2, <2>3, <2>4, <2>5, StepOfOne DEF IInv
  <1> QED
    BY <1>4, <1>5, <1>6 DEF CfgApply

\* An exception clears the port; the state stays Configuring.
LEMMA CfgThrowsKeeps ==
  ASSUME IInv, NEW c \in Controllers, CfgThrows(c)
  PROVE  IInv'
  <1> USE DEF CfgThrows
  <1>1. /\ At(c) \in {"cfgQueues", "cfgRss"} /\ state = "Configuring"
        /\ thread = "none" /\ queues' = <<>> /\ reta' = {} /\ config' = NoConfig
        /\ thread' = thread /\ state' = state /\ broken' = TRUE
    BY DEF IInv, Phase, RunInv, InConfigure, Throw
  <1>2. Busy(c) /\ \A d \in Controllers \ {c} : ~Busy(d)
    BY <1>1, Alone DEF Busy, InConfigure
  <1>4. call' \in [Controllers -> CallType] /\ Untouched(c) /\ call'[c].at = "idle"
    BY ReturnEffect DEF IInv, Throw
  <1>5. TypeInv'
    <2>1. NoConfig \in ConfigType
      BY IdleType DEF CallType, Idle
    <2>2. queues' \in Seq(Queue)
      BY <1>1
    <2> QED
      BY <1>1, <1>4, <2>1, <2>2 DEF IInv, TypeInv
  <1>6. Phase(c)' /\ RunInv(c)'
    BY <1>4 DEF Phase, RunInv, Busy, InConfigure, InStart, InStop, At
  <1>7. AllOrNothing'
    <2>1. StartedQueues' = {}
      BY <1>1 DEF StartedQueues
    <2> QED
      BY <1>1, <2>1 DEF AllOrNothing
  <1>8. \A d \in Controllers : At(d)' \in {"idle", "retaWrite"}
    BY <1>2, <1>4 DEF IInv, Phase, Untouched, At
  <1>9. TableInv'
    <2>1. ~InUse'
      BY <1>1, <1>8 DEF InUse
    <2>2. ~UpdateDuringConfigure => RetaInv'
      BY <1>1, <1>4, <2>1, NoWriter DEF RetaInv, At
    <2> QED
      BY <1>8, <2>1, <2>2 DEF TableInv
  <1> QED
    BY <1>2, <1>4, <1>5, <1>6, <1>7, <1>9, StepOfOne DEF IInv

\* New queues: as many of each kind as configured, none of them started.
LEMMA FreshEffect ==
  ASSUME NEW cfg \in ConfigType
  PROVE  /\ FreshQueues(cfg) \in Seq(Queue)
         /\ \A i \in DOMAIN FreshQueues(cfg) : FreshQueues(cfg)[i].st = "Stopped"
         /\ {i \in DOMAIN FreshQueues(cfg) : FreshQueues(cfg)[i].kind = "rx"} = 1 .. cfg.rx
  <1> DEFINE m == cfg.rx + cfg.tx
             q(i) == [kind |-> IF i <= cfg.rx THEN "rx" ELSE "tx", st |-> "Stopped"]
  <1>1. cfg.rx \in Nat /\ cfg.tx \in Nat /\ m \in Nat /\ 1 .. cfg.rx \subseteq 1 .. m
    BY DEF ConfigType
  <1>2. FreshQueues(cfg) = [i \in 1 .. m |-> q(i)]
    BY DEF FreshQueues
  <1>3. \A i \in 1 .. m : q(i) \in Queue /\ q(i).st = "Stopped" /\ (q(i).kind = "rx" <=> i <= cfg.rx)
    BY DEF Queue
  <1> HIDE DEF q, m
  <1>4. FreshQueues(cfg) \in Seq(Queue)
    BY <1>1, <1>2, <1>3, IsASeq
  <1> QED
    BY <1>1, <1>2, <1>3, <1>4

\* The queues are replaced.
LEMMA CfgQueuesKeeps ==
  ASSUME IInv, NEW c \in Controllers, CfgQueues(c)
  PROVE  IInv'
  <1> USE DEF CfgQueues
  <1>1. /\ At(c) = "cfgQueues" /\ state = "Configuring" /\ thread = "none" /\ ~broken
        /\ config \in ConfigType /\ Valid(config) /\ UNCHANGED <<config, reta, thread, broken>>
    BY DEF IInv, TypeInv, Phase, RunInv, InConfigure, TableInv
  <1>2. Busy(c) /\ \A d \in Controllers \ {c} : ~Busy(d)
    BY <1>1, Alone DEF Busy, InConfigure
  <1>4. queues' \in Seq(Queue) /\ StartedQueues' = {} /\ RxQueues' = 1 .. config.rx
    BY <1>1, FreshEffect DEF StartedQueues, RxQueues
  <1>5. CASE config.rss /\ Goto(c, "cfgRss") /\ UNCHANGED state
    <2>1. call' \in [Controllers -> CallType] /\ Untouched(c) /\ call'[c].at = "cfgRss"
      BY <1>5, GotoEffect DEF IInv, Steps
    <2>2. TypeInv'
      BY <1>1, <1>4, <1>5, <2>1 DEF IInv, TypeInv
    <2>3. Phase(c)' /\ Busy(c)' /\ RunInv(c)'
      <3>1. At(c)' = "cfgRss"
        BY <2>1 DEF At
      <3>2. state' = "Configuring" /\ thread' = "none" /\ ~broken' /\ StartedQueues' = {}
        BY <1>1, <1>4, <1>5
      <3>3. InConfigure(c)' /\ ~InStart(c)' /\ ~InStop(c)'
        BY <3>1 DEF InConfigure, InStart, InStop
      <3> HIDE DEF CfgQueues
      <3>4. Phase(c)' /\ Busy(c)'
        BY <3>1, <3>2, <3>3 DEF Phase, Busy
      <3>5. RunInv(c)'
        BY <3>1, <3>2, <3>3 DEF RunInv
      <3> QED
        BY <3>4, <3>5
    <2>4. \A d \in Controllers : At(d)' \notin {"cfgApply", "cfgQueue"}
      BY <1>2, <2>1 DEF Untouched, Busy, InConfigure, At
    <2>5. ~InUse'
      BY <1>1, <1>5, <2>4 DEF InUse
    <2>6. ~UpdateDuringConfigure => RetaInv'
      BY <1>1, <2>1, <2>5, NoWriter DEF RetaInv, At
    <2>7. TableInv'
      BY <1>1, <1>4, <1>5, <2>4, <2>5, <2>6 DEF TableInv, Valid
    <2> QED
      BY <1>2, <2>1, <2>2, <2>3, <2>7, StepOfOne DEF IInv
  <1>6. CASE ~config.rss /\ Return(c) /\ state' = "Configured"
    <2>1. call' \in [Controllers -> CallType] /\ Untouched(c) /\ call'[c].at = "idle"
      BY <1>6, ReturnEffect DEF IInv
    <2>2. TypeInv'
      BY <1>1, <1>4, <1>6, <2>1 DEF IInv, TypeInv
    <2>3. Phase(c)' /\ RunInv(c)'
      BY <2>1 DEF Phase, RunInv, Busy, InConfigure, InStart, InStop, At
    <2>4. AllOrNothing'
      BY <1>1, <1>4, <1>6 DEF AllOrNothing
    <2>5. \A d \in Controllers : At(d)' \in {"idle", "retaWrite"}
      BY <1>2, <2>1 DEF IInv, Phase, Untouched, At
    <2>6. ~UpdateDuringConfigure => RetaInv'
      BY <1>1, <1>6, <2>1, NoWriter DEF RetaInv, At
    <2>7. TableInv'
      BY <1>1, <1>6, <2>5, <2>6 DEF TableInv
    <2> QED
      BY <1>2, <2>1, <2>2, <2>3, <2>4, <2>7, StepOfOne DEF IInv
  <1> QED
    BY <1>5, <1>6

\* Every table initReta builds for a valid configuration fits it.
LEMMA TableFits ==
  ASSUME NEW cfg \in ConfigType, Valid(cfg), cfg.rss
  PROVE  Table(cfg) \in SUBSET Nat /\ Below(Table(cfg), cfg.rx)
  <1>1. cfg.rx \in Nat /\ cfg.rx # 0 /\ cfg.reta \in SUBSET Nat /\ \A e \in cfg.reta : e < cfg.rx
    BY DEF ConfigType, Valid
  <1>2. \A i \in 0 .. RetaSize - 1 : i % cfg.rx \in Nat /\ i % cfg.rx < cfg.rx
    BY <1>1, VNicControlAssumption
  <1> QED
    BY <1>1, <1>2 DEF Table, Below

\* The table is built for the queues that are there.
LEMMA CfgRssKeeps ==
  ASSUME IInv, NEW c \in Controllers, CfgRss(c)
  PROVE  IInv'
  <1> USE DEF CfgRss
  <1>1. /\ At(c) = "cfgRss" /\ thread = "none" /\ ~broken /\ StartedQueues = {}
        /\ config \in ConfigType /\ Valid(config) /\ config.rss /\ RxQueues = 1 .. config.rx
        /\ UNCHANGED <<config, queues, thread, broken>>
    BY DEF IInv, TypeInv, RunInv, InConfigure, TableInv
  <1>2. Busy(c) /\ \A d \in Controllers \ {c} : ~Busy(d)
    BY <1>1, Alone DEF Busy, InConfigure
  <1>4. call' \in [Controllers -> CallType] /\ Untouched(c) /\ call'[c].at = "idle"
    BY ReturnEffect DEF IInv
  <1>5. reta' \in SUBSET Nat /\ Below(reta', config.rx)
    BY <1>1, TableFits
  <1>6. TypeInv'
    BY <1>1, <1>4, <1>5 DEF IInv, TypeInv
  <1>7. Phase(c)' /\ RunInv(c)'
    BY <1>4 DEF Phase, RunInv, Busy, InConfigure, InStart, InStop, At
  <1>8. AllOrNothing'
    <2>1. StartedQueues' = StartedQueues
      BY <1>1 DEF StartedQueues
    <2>2. state' = "Configured"
      OBVIOUS
    <2>3. ~broken' /\ thread' = "none" /\ StartedQueues' = {}
      BY <1>1, <2>1
    <2> QED
      BY <2>2, <2>3, Zenon DEF AllOrNothing
  <1>9. \A d \in Controllers : At(d)' \in {"idle", "retaWrite"}
    BY <1>2, <1>4 DEF IInv, Phase, Untouched, At
  <1>10. TableInv'
    <2>1. ~UpdateDuringConfigure => RetaInv'
      BY <1>1, <1>4, <1>5, NoWriter DEF RetaInv, Below, At
    <2> QED
      BY <1>1, <1>9, <2>1 DEF TableInv, RxQueues
  <1> QED
    BY <1>2, <1>4, <1>6, <1>7, <1>8, <1>10, StepOfOne DEF IInv

\* One queue is configured, or refuses.
LEMMA CfgQueueKeeps ==
  ASSUME IInv, NEW c \in Controllers, CfgQueue(c)
  PROVE  IInv'
  <1> USE DEF CfgQueue
  <1>1. /\ At(c) = "cfgQueue" /\ thread = "none" /\ ~broken /\ StartedQueues = {}
        /\ UNCHANGED <<config, reta, thread, broken>> /\ TypeInv
    BY DEF IInv, RunInv, InConfigure
  <1>2. Busy(c) /\ \A d \in Controllers \ {c} : ~Busy(d)
    BY <1>1, Alone DEF Busy, InConfigure
  <1>3. call' \in [Controllers -> CallType] /\ Untouched(c) /\ call'[c].at = "idle"
    BY ReturnEffect DEF IInv
  <1>4. queues' \in Seq(Queue) /\ StartedQueues' = {} /\ RxQueues' = RxQueues
    <2>1. CASE /\ call[c].k \in DOMAIN queues
               /\ queues' = [queues EXCEPT ![call[c].k].st = "Configured"]
      <3>1. queues \in Seq(Queue) /\ call[c].k \in 1 .. Len(queues)
        BY <1>1, <2>1, LenProperties DEF TypeInv
      <3> HIDE DEF CfgQueue
      <3> QED
        BY <1>1, <2>1, <3>1, QueueEffect
    <2>2. CASE UNCHANGED queues
      BY <1>1, <2>2 DEF TypeInv, StartedQueues, RxQueues
    <2> QED
      BY <2>1, <2>2
  <1>5. state' \in {"Configured", "Error"}
    OBVIOUS
  <1>6. TypeInv'
    BY <1>1, <1>3, <1>4, <1>5 DEF TypeInv
  <1>7. Phase(c)' /\ RunInv(c)'
    BY <1>3 DEF Phase, RunInv, Busy, InConfigure, InStart, InStop, At
  <1>8. AllOrNothing'
    BY <1>1, <1>4, <1>5 DEF AllOrNothing
  <1>9. TableInv'
    BY <1>1, <1>3, <1>4, TableKept DEF InUse, At
  <1> QED
    BY <1>2, <1>3, <1>6, <1>7, <1>8, <1>9, StepOfOne DEF IInv

-----------------------------------------------------------------------------
(* start() goes on. *)

\* The state becomes Started.
LEMMA PublishKeeps ==
  ASSUME IInv, NEW c \in Controllers, Publish(c)
  PROVE  IInv'
  <1> USE DEF Publish
  <1>1. /\ At(c) = "publish" /\ state = "Starting" /\ thread = "none" /\ ~broken
        /\ StartedQueues = {} /\ call[c].k = 1 /\ TypeInv
    BY DEF IInv, Phase, RunInv, InStart
  <1>2. Busy(c) /\ \A d \in Controllers \ {c} : ~Busy(d)
    BY <1>1, Alone DEF Busy, InStart
  <1>3. /\ call' \in [Controllers -> CallType] /\ Untouched(c)
        /\ call'[c].at = "startQueue" /\ call'[c].k = 1
    BY <1>1, GotoEffect DEF Steps
  <1>4. TypeInv'
    BY <1>1, <1>3 DEF TypeInv, port
  <1>5. Phase(c)' /\ Busy(c)'
    BY <1>3 DEF Phase, Busy, InConfigure, InStart, InStop, At
  <1>6. RunInv(c)'
    <2>1. Len(queues) \in Nat /\ UNCHANGED <<queues, thread, broken>>
      BY <1>1, LenProperties DEF TypeInv, port
    <2>2. StartedQueues' = {} /\ thread' = "none" /\ ~broken'
      BY <1>1, <2>1 DEF StartedQueues
    <2>3. 1 \in 1 .. Len(queues') + 1 /\ 1 .. 1 - 1 = {}
      BY <2>1
    <2>4. At(c)' = "startQueue"
      BY <1>3 DEF At
    <2> HIDE DEF Publish
    <2> QED
      BY <1>3, <2>2, <2>3, <2>4 DEF RunInv, InConfigure, InStart
  <1>7. TableInv'
    BY <1>1, <1>3, TableKept DEF InUse, At, RxQueues, port
  <1> QED
    BY <1>2, <1>3, <1>4, <1>5, <1>6, <1>7, StepOfOne DEF IInv

\* A queue starts, fails or throws, or all of them are started.
LEMMA StartQueueKeeps ==
  ASSUME IInv, NEW c \in Controllers, StartQueue(c)
  PROVE  IInv'
  <1> DEFINE k == call[c].k
  <1>1. /\ At(c) = "startQueue" /\ state = "Started" /\ thread = "none" /\ ~broken
        /\ k \in 1 .. Len(queues) + 1 /\ StartedQueues = 1 .. k - 1 /\ TypeInv
        /\ UNCHANGED <<state, config, reta, thread, broken>>
    BY DEF StartQueue, IInv, Phase, RunInv, InStart
  <1>2. Busy(c) /\ \A d \in Controllers \ {c} : ~Busy(d)
    BY <1>1, Alone DEF Busy, InStart
  <1>3. /\ Len(queues) \in Nat /\ k \in Nat /\ k - 1 \in Nat
        /\ k <= Len(queues) => k \in 1 .. Len(queues)
    BY <1>1, LenProperties DEF TypeInv
  \* It is enough to follow the controller and the queues.
  <1>4. ASSUME call' \in [Controllers -> CallType], Untouched(c),
               call'[c].at \in {"startQueue", "spawn", "undo"},
               queues' \in Seq(Queue), RxQueues' = RxQueues, RunInv(c)'
        PROVE  IInv'
    <2>1. TypeInv'
      BY <1>1, <1>4 DEF TypeInv
    <2>2. Phase(c)' /\ Busy(c)'
      BY <1>1, <1>4 DEF Phase, Busy, InConfigure, InStart, InStop, At
    <2>3. TableInv'
      BY <1>1, <1>4, TableKept DEF InUse, At
    <2> QED
      BY <1>2, <1>4, <2>1, <2>2, <2>3, StepOfOne DEF IInv
  <1>5. CASE k <= Len(queues) /\ queues' = [queues EXCEPT ![k].st = "Started"] /\ Advance(c)
    <2>1. /\ call' \in [Controllers -> CallType] /\ Untouched(c)
          /\ call'[c].at = "startQueue" /\ call'[c].k = k + 1
      BY <1>1, <1>5, AdvanceEffect DEF At
    <2>2. /\ queues' \in Seq(Queue) /\ Len(queues') = Len(queues) /\ RxQueues' = RxQueues
          /\ StartedQueues' = StartedQueues \cup {k}
      <3>1. k \in 1 .. Len(queues) /\ queues' = [queues EXCEPT ![k].st = "Started"]
        BY <1>3, <1>5
      <3> HIDE DEF k
      <3> QED
        BY <1>1, <3>1, QueueEffect
    <2>3. StartedQueues' = 1 .. (k + 1) - 1
      BY <1>1, <1>3, <2>2
    <2>4. RunInv(c)'
      BY <1>1, <1>3, <1>5, <2>1, <2>2, <2>3 DEF RunInv, InConfigure, InStart, At
    <2> QED
      BY <1>4, <2>1, <2>2, <2>4
  <1>6. ASSUME NEW thrown \in BOOLEAN, k <= Len(queues), Rollback(c, k - 1, thrown),
               queues' = [queues EXCEPT ![k].st = IF thrown THEN "Started" ELSE "Error"]
        PROVE  IInv'
    <2>1. /\ call' \in [Controllers -> CallType] /\ Untouched(c)
          /\ call'[c].at = "undo" /\ call'[c].k = 1 /\ call'[c].n = k - 1
          /\ call'[c].failed = thrown
      <3>1. TypeInv /\ k - 1 \in Nat /\ Rollback(c, k - 1, thrown)
        BY <1>1, <1>3, <1>6
      <3> HIDE DEF k
      <3> QED
        BY <3>1, RollbackEffect
    <2>2. /\ queues' \in Seq(Queue) /\ Len(queues') = Len(queues) /\ RxQueues' = RxQueues
          /\ thrown => StartedQueues' = StartedQueues \cup {k}
          /\ ~thrown => StartedQueues' = StartedQueues \ {k}
      <3>0. k \in 1 .. Len(queues)
        BY <1>3, <1>6
      <3>1. CASE thrown
        <4>1. queues' = [queues EXCEPT ![k].st = "Started"]
          BY <1>6, <3>1
        <4> HIDE DEF k
        <4> QED
          BY <1>1, <3>0, <3>1, <4>1, QueueEffect
      <3>2. CASE ~thrown
        <4>1. queues' = [queues EXCEPT ![k].st = "Error"]
          BY <1>6, <3>2
        <4> HIDE DEF k
        <4> QED
          BY <1>1, <3>0, <3>2, <4>1, QueueEffect
      <3> QED
        BY <3>1, <3>2
    <2>3. /\ thrown => StartedQueues' = 1 .. (k - 1) + 1
          /\ ~thrown => StartedQueues' = 1 .. k - 1
      <3>1. /\ StartedQueues \cup {k} = 1 .. (k - 1) + 1
            /\ StartedQueues \ {k} = 1 .. k - 1
        BY <1>1, <1>3
      <3> QED
        BY <2>2, <3>1, Zenon
    <2>4. RunInv(c)'
      <3>1. /\ call'[c].failed => StartedQueues' = 1 .. (k - 1) + 1
            /\ ~call'[c].failed => StartedQueues' = 1 .. k - 1
        BY <2>1, <2>3, Zenon
      <3>2. thread' = "none" /\ ~broken'
        BY <1>1
      <3>3. 1 \in 1 .. (k - 1) + 1 /\ k - 1 < Len(queues') /\ k - 1 <= Len(queues')
        BY <1>3, <1>6, <2>2
      <3> QED
        BY <2>1, <3>1, <3>2, <3>3 DEF RunInv, InConfigure, InStart, At
    <2> QED
      BY <1>4, <2>1, <2>2, <2>4
  <1>7. CASE k <= Len(queues) /\ Rollback(c, k - 1, FALSE) /\ UNCHANGED queues
    <2>1. /\ call' \in [Controllers -> CallType] /\ Untouched(c)
          /\ call'[c].at = "undo" /\ call'[c].k = 1 /\ call'[c].n = k - 1
          /\ ~call'[c].failed
      <3>1. TypeInv /\ k - 1 \in Nat /\ Rollback(c, k - 1, FALSE)
        BY <1>1, <1>3, <1>7
      <3> HIDE DEF k
      <3> QED
        BY <3>1, RollbackEffect
    <2>2. RunInv(c)'
      <3>1. StartedQueues' = 1 .. k - 1 /\ thread' = "none" /\ ~broken'
        BY <1>1, <1>7 DEF StartedQueues
      <3>2. 1 \in 1 .. (k - 1) + 1 /\ k - 1 <= Len(queues')
        BY <1>3, <1>7
      <3>3. At(c)' = "undo"
        BY <2>1 DEF At
      <3> HIDE DEF k
      <3> QED
        BY <2>1, <3>1, <3>2, <3>3 DEF RunInv, InConfigure, InStart
    <2> QED
      BY <1>1, <1>4, <1>7, <2>1, <2>2 DEF TypeInv, RxQueues
  <1>8. CASE k > Len(queues) /\ Goto(c, "spawn") /\ UNCHANGED queues
    <2>1. call' \in [Controllers -> CallType] /\ Untouched(c) /\ call'[c].at = "spawn"
      BY <1>1, <1>8, GotoEffect DEF Steps
    <2>2. RunInv(c)'
      <3>1. StartedQueues' = 1 .. k - 1 /\ thread' = "none" /\ ~broken'
        BY <1>1, <1>8 DEF StartedQueues
      <3>2. k - 1 = Len(queues')
        BY <1>1, <1>3, <1>8
      <3>3. At(c)' = "spawn"
        BY <2>1 DEF At
      <3> HIDE DEF k
      <3> QED
        BY <3>1, <3>2, <3>3 DEF RunInv, InConfigure, InStart
    <2> QED
      BY <1>1, <1>4, <1>8, <2>1, <2>2 DEF TypeInv, RxQueues
  <1> QED
    BY <1>5, <1>6, <1>7, <1>8 DEF StartQueue

\* The thread runs and start() returns, or all queues are to be stopped again.
LEMMA SpawnKeeps ==
  ASSUME IInv, NEW c \in Controllers, Spawn(c)
  PROVE  IInv'
  <1>1. /\ At(c) = "spawn" /\ state = "Started" /\ thread = "none" /\ ~broken
        /\ StartedQueues = 1 .. Len(queues) /\ TypeInv
        /\ UNCHANGED <<state, config, queues, reta, broken>>
    BY DEF Spawn, IInv, Phase, RunInv, InStart
  <1>2. Busy(c) /\ \A d \in Controllers \ {c} : ~Busy(d)
    BY <1>1, Alone DEF Busy, InStart
  <1>3. Len(queues) \in Nat /\ DOMAIN queues = 1 .. Len(queues)
    BY <1>1, LenProperties DEF TypeInv
  <1>4. CASE thread' = "running" /\ Return(c)
    <2>1. call' \in [Controllers -> CallType] /\ Untouched(c) /\ call'[c].at = "idle"
      BY <1>1, <1>4, ReturnEffect
    <2>2. TypeInv'
      BY <1>1, <1>4, <2>1 DEF TypeInv
    <2>3. Phase(c)' /\ RunInv(c)'
      BY <2>1 DEF Phase, RunInv, Busy, InConfigure, InStart, InStop, At
    <2>4. AllOrNothing'
      BY <1>1, <1>3, <1>4 DEF AllOrNothing, StartedQueues
    <2>5. TableInv'
      BY <1>1, <2>1, TableKept DEF InUse, At, RxQueues
    <2> QED
      BY <1>2, <2>1, <2>2, <2>3, <2>4, <2>5, StepOfOne DEF IInv
  <1>5. CASE Rollback(c, Len(queues), FALSE) /\ UNCHANGED thread
    <2>1. /\ call' \in [Controllers -> CallType] /\ Untouched(c)
          /\ call'[c].at = "undo" /\ call'[c].k = 1 /\ call'[c].n = Len(queues)
          /\ ~call'[c].failed
      BY <1>1, <1>3, <1>5, RollbackEffect
    <2>2. TypeInv'
      BY <1>1, <1>5, <2>1 DEF TypeInv
    <2>3. Phase(c)' /\ Busy(c)'
      BY <1>1, <2>1 DEF Phase, Busy, InConfigure, InStart, InStop, At
    <2>4. RunInv(c)'
      <3>1. StartedQueues' = 1 .. Len(queues) /\ thread' = "none" /\ ~broken'
        BY <1>1, <1>5 DEF StartedQueues
      <3>2. 1 \in 1 .. Len(queues) + 1 /\ Len(queues) <= Len(queues')
        BY <1>1, <1>3
      <3>3. At(c)' = "undo"
        BY <2>1 DEF At
      <3> QED
        BY <2>1, <3>1, <3>2, <3>3 DEF RunInv, InConfigure, InStart
    <2>5. TableInv'
      BY <1>1, <2>1, TableKept DEF InUse, At, RxQueues
    <2> QED
      BY <1>2, <2>1, <2>2, <2>3, <2>4, <2>5, StepOfOne DEF IInv
  <1> QED
    BY <1>4, <1>5 DEF Spawn

\* A queue is stopped again, or start() fails or throws.
LEMMA UndoKeeps ==
  ASSUME IInv, NEW c \in Controllers, Undo(c)
  PROVE  IInv'
  <1> DEFINE k == call[c].k
             n == call[c].n
             failed == call[c].failed
  <1>1. /\ At(c) = "undo" /\ state = "Started" /\ thread = "none" /\ ~broken /\ TypeInv
        /\ UNCHANGED <<config, reta, thread>>
    BY DEF Undo, IInv, Phase, RunInv, InStart
  <1>2. /\ k \in 1 .. n + 1 /\ n <= Len(queues)
        /\ ~failed => StartedQueues = k .. n
        /\ failed => n < Len(queues) /\ StartedQueues = k .. n + 1
    BY <1>1 DEF IInv, RunInv
  <1>3. Busy(c) /\ \A d \in Controllers \ {c} : ~Busy(d)
    BY <1>1, Alone DEF Busy, InStart
  <1>4. Len(queues) \in Nat /\ k \in Nat /\ n \in Nat /\ failed \in BOOLEAN
    BY <1>1, LenProperties DEF TypeInv, CallType
  <1>5. CASE k <= n /\ queues' = Stopped(queues, k) /\ Advance(c) /\ UNCHANGED <<state, broken>>
    <2>1. /\ call' \in [Controllers -> CallType] /\ Untouched(c) /\ call'[c].at = "undo"
          /\ call'[c].k = k + 1 /\ call'[c].n = n /\ call'[c].failed = failed
      BY <1>1, <1>5, AdvanceEffect DEF At
    <2>2. /\ queues' \in Seq(Queue) /\ Len(queues') = Len(queues) /\ RxQueues' = RxQueues
          /\ StartedQueues' = StartedQueues \ {k}
      <3>1. k \in 1 .. Len(queues) /\ queues' = Stopped(queues, k)
        BY <1>2, <1>4, <1>5
      <3> HIDE DEF k
      <3> QED
        BY <1>1, <3>1, StoppedEffect
    <2>3. /\ (k .. n) \ {k} = k + 1 .. n
          /\ (k .. n + 1) \ {k} = k + 1 .. n + 1
          /\ k + 1 \in 1 .. n + 1
      <3>1. k \in Nat /\ n \in Nat /\ 1 <= k /\ k <= n
        BY <1>2, <1>4, <1>5
      <3> HIDE DEF k, n
      <3>2. (k .. n) \ {k} = k + 1 .. n
        BY <3>1
      <3>3. (k .. n + 1) \ {k} = k + 1 .. n + 1
        BY <3>1
      <3>4. k + 1 \in 1 .. n + 1
        BY <3>1
      <3> QED
        BY <3>2, <3>3, <3>4
    <2>4. TypeInv'
      BY <1>1, <1>5, <2>1, <2>2 DEF TypeInv
    <2>5. Phase(c)' /\ Busy(c)'
      BY <1>1, <1>5, <2>1 DEF Phase, Busy, InConfigure, InStart, InStop, At
    <2>6. RunInv(c)'
      <3>1. /\ ~call'[c].failed => StartedQueues' = k + 1 .. n
            /\ call'[c].failed => n < Len(queues') /\ StartedQueues' = k + 1 .. n + 1
        BY <1>2, <2>1, <2>2, <2>3, Zenon
      <3>2. n <= Len(queues') /\ thread' = "none" /\ ~broken'
        BY <1>1, <1>2, <1>5, <2>2
      <3> HIDE DEF k, n, failed
      <3> QED
        BY <2>1, <2>3, <3>1, <3>2 DEF RunInv, InConfigure, InStart, At
    <2>7. TableInv'
      BY <1>1, <2>1, <2>2, TableKept DEF InUse, At
    <2> QED
      BY <1>3, <2>1, <2>4, <2>5, <2>6, <2>7, StepOfOne DEF IInv
  <1>6. CASE k > n /\ ~failed /\ state' = "Error" /\ Return(c) /\ UNCHANGED <<queues, broken>>
    <2>1. call' \in [Controllers -> CallType] /\ Untouched(c) /\ call'[c].at = "idle"
      BY <1>1, <1>6, ReturnEffect
    <2>2. TypeInv'
      BY <1>1, <1>6, <2>1 DEF TypeInv
    <2>3. Phase(c)' /\ RunInv(c)'
      BY <2>1 DEF Phase, RunInv, Busy, InConfigure, InStart, InStop, At
    <2>4. StartedQueues' = {}
      BY <1>2, <1>4, <1>6 DEF StartedQueues
    <2>5. AllOrNothing'
      BY <1>1, <1>6, <2>4 DEF AllOrNothing
    <2>6. TableInv'
      BY <1>1, <1>6, <2>1, TableKept DEF InUse, At, RxQueues
    <2> QED
      BY <1>3, <2>1, <2>2, <2>3, <2>5, <2>6, StepOfOne DEF IInv
  <1>7. CASE k > n /\ failed /\ Throw(c) /\ UNCHANGED queues
    <2>1. call' \in [Controllers -> CallType] /\ Untouched(c) /\ call'[c].at = "idle"
      BY <1>1, <1>7, ReturnEffect DEF Throw
    <2>2. TypeInv'
      BY <1>1, <1>7, <2>1 DEF TypeInv, Throw
    <2>3. Phase(c)' /\ RunInv(c)'
      BY <2>1 DEF Phase, RunInv, Busy, InConfigure, InStart, InStop, At
    <2>4. StartedQueues' = {n + 1}
      <3>1. StartedQueues = k .. n + 1
        BY <1>2, <1>7
      <3>2. k .. n + 1 = {n + 1}
        BY <1>2, <1>4, <1>7
      <3> QED
        BY <1>7, <3>1, <3>2 DEF StartedQueues
    <2>5. Cardinality(StartedQueues)' = 1
      BY <2>4, FS_Singleton
    <2>6. AllOrNothing'
      BY <1>1, <1>7, <2>5 DEF AllOrNothing, Throw
    <2>7. TableInv'
      BY <1>1, <1>7, <2>1, TableKept DEF InUse, At, RxQueues, Throw
    <2> QED
      BY <1>3, <2>1, <2>2, <2>3, <2>6, <2>7, StepOfOne DEF IInv
  <1> QED
    BY <1>4, <1>5, <1>6, <1>7 DEF Undo, Undone

-----------------------------------------------------------------------------
(* stop() and the destructor go on, and the poll thread exits. *)

\* The thread is asked to stop.
LEMMA RequestStopKeeps ==
  ASSUME IInv, NEW c \in Controllers, RequestStop(c)
  PROVE  IInv'
  <1> USE DEF RequestStop
  <1>1. /\ At(c) = "request" /\ state \in {"Stopping", "Destroyed"} /\ TypeInv
        /\ thread \in {"none", "running"} /\ call[c].k = 1
        /\ thread # "none" => StartedQueues = 1 .. Len(queues)
    BY DEF IInv, Phase, RunInv, InStop
  <1>2. Busy(c) /\ \A d \in Controllers \ {c} : ~Busy(d)
    BY <1>1, Alone DEF Busy, InStop
  <1>3. /\ call' \in [Controllers -> CallType] /\ Untouched(c)
        /\ call'[c].at = "join" /\ call'[c].k = 1
    BY <1>1, GotoEffect DEF Steps
  <1>4. TypeInv'
    BY <1>1, <1>3 DEF TypeInv
  <1>5. Phase(c)' /\ Busy(c)'
    BY <1>1, <1>3 DEF Phase, Busy, InConfigure, InStart, InStop, At
  <1>6. RunInv(c)'
    BY <1>1, <1>3 DEF RunInv, InConfigure, InStart, At, StartedQueues
  <1>7. TableInv'
    <2>1. InUse' => InUse
      BY <1>1, <1>3 DEF InUse, At, Untouched
    <2> QED
      BY <1>3, <2>1, TableKept DEF At, RxQueues
  <1> QED
    BY <1>2, <1>3, <1>4, <1>5, <1>6, <1>7, StepOfOne DEF IInv

\* The thread has been joined.
LEMMA JoinKeeps ==
  ASSUME IInv, NEW c \in Controllers, Join(c)
  PROVE  IInv'
  <1> USE DEF Join
  <1>1. /\ At(c) = "join" /\ state \in {"Stopping", "Destroyed"} /\ TypeInv
        /\ thread \in {"none", "exited"} /\ thread' = "none" /\ call[c].k = 1
    BY DEF IInv, Phase, RunInv, InStop, Joined
  <1>2. Busy(c) /\ \A d \in Controllers \ {c} : ~Busy(d)
    BY <1>1, Alone DEF Busy, InStop
  <1>3. /\ call' \in [Controllers -> CallType] /\ Untouched(c)
        /\ call'[c].at = "stopQueue" /\ call'[c].k = 1
    BY <1>1, GotoEffect DEF Steps
  <1>4. TypeInv'
    BY <1>1, <1>3 DEF TypeInv
  <1>5. Phase(c)' /\ Busy(c)'
    BY <1>1, <1>3 DEF Phase, Busy, InConfigure, InStart, InStop, At
  <1>6. RunInv(c)'
    <2>1. Len(queues) \in Nat /\ DOMAIN queues = 1 .. Len(queues)
      BY <1>1, LenProperties DEF TypeInv
    <2>2. StartedQueues \subseteq 1 .. Len(queues)
      BY <2>1 DEF StartedQueues
    <2> QED
      <3>1. queues' = queues /\ thread' = "none"
        BY <1>1
      <3>2. StartedQueues' \subseteq 1 .. Len(queues')
        BY <2>2, <3>1 DEF StartedQueues
      <3>3. 1 \in 1 .. Len(queues') + 1
        BY <2>1, <3>1
      <3>4. At(c)' = "stopQueue"
        BY <1>3 DEF At
      <3> HIDE DEF Join
      <3> QED
        BY <1>3, <3>1, <3>2, <3>3, <3>4 DEF RunInv, InConfigure, InStart
  <1>7. TableInv'
    <2>1. InUse' => InUse
      BY <1>1, <1>3 DEF InUse, At, Untouched
    <2> QED
      BY <1>3, <2>1, TableKept DEF At, RxQueues
  <1> QED
    BY <1>2, <1>3, <1>4, <1>5, <1>6, <1>7, StepOfOne DEF IInv

\* A queue is stopped, or the call returns with none left that runs.
LEMMA StopQueueKeeps ==
  ASSUME IInv, NEW c \in Controllers, StopQueue(c)
  PROVE  IInv'
  <1> DEFINE k == call[c].k
             r == [call[c] EXCEPT !.k = After(k),
                                  !.failed = call[c].failed \/ queues[k].st # "Started"]
  <1>1. /\ At(c) = "stopQueue" /\ state \in {"Stopping", "Destroyed"} /\ TypeInv
        /\ thread = "none" /\ k \in 1 .. Len(queues) + 1 /\ StartedQueues \subseteq k .. Len(queues)
        /\ UNCHANGED <<config, reta, thread>>
    BY DEF StopQueue, IInv, Phase, RunInv, InStop
  <1>2. Busy(c) /\ \A d \in Controllers \ {c} : ~Busy(d)
    BY <1>1, Alone DEF Busy, InStop
  <1>3. Len(queues) \in Nat /\ k \in Nat
    BY <1>1, LenProperties DEF TypeInv
  <1>4. CASE /\ k <= Len(queues) /\ queues' = Stopped(queues, k)
             /\ call' = [call EXCEPT ![c] = r]
             /\ UNCHANGED <<state, broken>>
    <2>1. r \in CallType /\ r.at = "stopQueue" /\ r.k = k + 1
      <3>1. call[c] \in CallType /\ k + 1 \in Nat
        BY <1>1, <1>3 DEF TypeInv
      <3>2. r.at = "stopQueue" /\ r.k = k + 1
        BY <1>1, <3>1 DEF CallType, At, After
      <3>3. (call[c].failed \/ queues[k].st # "Started") \in BOOLEAN
        OBVIOUS
      <3>4. r \in CallType
        BY <3>1, <3>3, Zenon DEF CallType, After
      <3> QED
        BY <3>2, <3>4
    <2>2. /\ call' \in [Controllers -> CallType] /\ Untouched(c) /\ call'[c].at = "stopQueue"
          /\ call'[c].k = k + 1
      <3> HIDE DEF r
      <3> QED
        BY <1>1, <1>4, <2>1, CallUpdate
    <2>3. /\ queues' \in Seq(Queue) /\ Len(queues') = Len(queues) /\ RxQueues' = RxQueues
          /\ StartedQueues' = StartedQueues \ {k}
      <3>1. k \in 1 .. Len(queues) /\ queues' = Stopped(queues, k)
        BY <1>3, <1>1, <1>4
      <3> HIDE DEF k
      <3> QED
        BY <1>1, <3>1, StoppedEffect
    <2>4. TypeInv'
      BY <1>1, <1>4, <2>2, <2>3 DEF TypeInv
    <2>5. Phase(c)' /\ Busy(c)'
      BY <1>1, <1>4, <2>2 DEF Phase, Busy, InConfigure, InStart, InStop, At
    <2>6. RunInv(c)'
      <3>1. k + 1 \in 1 .. Len(queues) + 1 /\ StartedQueues' \subseteq k + 1 .. Len(queues)
        BY <1>1, <1>3, <1>4, <2>3
      <3> QED
        BY <1>1, <2>2, <2>3, <3>1 DEF RunInv, InConfigure, InStart, At
    <2>7. TableInv'
      <3>1. InUse' => InUse
        BY <1>1, <1>4, <2>2 DEF InUse, At, Untouched
      <3> QED
        BY <1>1, <2>2, <2>3, <3>1, TableKept DEF At
    <2> QED
      BY <1>2, <2>2, <2>4, <2>5, <2>6, <2>7, StepOfOne DEF IInv
  <1>5. CASE /\ k > Len(queues) /\ Return(c) /\ broken' = FALSE /\ UNCHANGED queues
             /\ state' = IF state = "Destroyed" THEN state
                         ELSE IF call[c].failed THEN "Error" ELSE "Stopped"
    <2>1. call' \in [Controllers -> CallType] /\ Untouched(c) /\ call'[c].at = "idle"
      BY <1>1, <1>5, ReturnEffect
    <2>2. state' \in {"Destroyed", "Error", "Stopped"} /\ (state = "Destroyed" => state' = state)
      BY <1>5
    <2>3. TypeInv'
      BY <1>1, <1>5, <2>1, <2>2 DEF TypeInv
    <2>4. Phase(c)' /\ RunInv(c)'
      BY <2>1 DEF Phase, RunInv, Busy, InConfigure, InStart, InStop, At
    <2>5. StartedQueues' = {}
      <3>1. k .. Len(queues) = {}
        BY <1>3, <1>5
      <3>2. StartedQueues = {}
        BY <1>1, <3>1
      <3> QED
        BY <1>5, <3>2 DEF StartedQueues
    <2>6. AllOrNothing'
      BY <1>1, <1>5, <2>2, <2>5 DEF AllOrNothing
    <2>7. TableInv'
      <3>1. InUse' => InUse
        BY <1>1, <2>1, <2>2 DEF InUse, At, Untouched
      <3> QED
        BY <1>1, <1>5, <2>1, <3>1, TableKept DEF At, RxQueues
    <2> QED
      BY <1>2, <2>1, <2>3, <2>4, <2>6, <2>7, StepOfOne DEF IInv
  <1> QED
    BY <1>4, <1>5 DEF StopQueue

\* A call that does not move stays in the phase the state names.
LEMMA PhaseKept ==
  ASSUME NEW c \in Controllers, Phase(c), call'[c] = call[c], state' = state
  PROVE  Phase(c)'
  <1>1. At(c)' = At(c)
    BY DEF At
  <1>2. /\ InConfigure(c)' <=> InConfigure(c)
        /\ InStart(c)' <=> InStart(c)
        /\ InStop(c)' <=> InStop(c)
    BY <1>1 DEF InConfigure, InStart, InStop
  <1>3. Busy(c)' <=> Busy(c)
    BY <1>2 DEF Busy
  <1> QED
    BY <1>1, <1>2, <1>3 DEF Phase

\* A controller that stays where it is, with the queues and the thread as they are.
LEMMA RunKept ==
  ASSUME NEW c \in Controllers, RunInv(c), call'[c] = call[c], UNCHANGED <<queues, thread, broken>>
  PROVE  RunInv(c)'
  <1>1. At(c)' = At(c)
    BY DEF At
  <1>2. (InConfigure(c)' <=> InConfigure(c)) /\ (InStart(c)' <=> InStart(c))
    BY <1>1 DEF InConfigure, InStart
  <1>3. StartedQueues' = StartedQueues
    BY DEF StartedQueues
  <1> QED
    BY <1>1, <1>2, <1>3 DEF RunInv

\* The poll thread exits only while somebody waits for it.
LEMMA PollExitKeeps ==
  ASSUME IInv, PollExit
  PROVE  IInv'
  <1> USE DEF PollExit
  <1>1. TypeInv'
    BY DEF IInv, TypeInv
  <1>2. OneTransition'
    BY DEF IInv, OneTransition, InConfigure, InStart, InStop, At
  <1>3. ASSUME NEW c \in Controllers PROVE Phase(c)' /\ RunInv(c)'
    <2>1. Phase(c) /\ RunInv(c)
      BY DEF IInv
    <2>2. Phase(c)'
      BY <2>1, PhaseKept
    <2>3. RunInv(c)'
      BY <2>1 DEF RunInv, InConfigure, InStart, At, StartedQueues
    <2> QED
      BY <2>2, <2>3
  <1>4. AllOrNothing'
    BY DEF IInv, AllOrNothing, Settled, At
  <1>5. TableInv'
    <2>1. InUse' => InUse
      BY DEF InUse, At
    <2> QED
      BY <2>1 DEF IInv, TableInv, RetaInv, Below, Valid, At, RxQueues
  <1> QED
    BY <1>1, <1>2, <1>3, <1>4, <1>5 DEF IInv

-----------------------------------------------------------------------------
(* updateReta(), which may overlap start() and stop(). *)

\* A step of a controller outside every transition that changes at most the
\* table does not matter to the others.
LEMMA StepBeside ==
  ASSUME IInv, NEW c \in Controllers, Untouched(c),
         At(c) \in {"idle", "retaWrite"}, At(c)' \in {"idle", "retaWrite"},
         UNCHANGED <<state, queues, thread, broken>>
  PROVE  /\ OneTransition'
         /\ AllOrNothing'
         /\ \A d \in Controllers : Phase(d)' /\ RunInv(d)'
  <1>1. ~Busy(c) /\ ~Busy(c)'
    BY DEF Busy, InConfigure, InStart, InStop
  <1>2. ASSUME NEW d \in Controllers \ {c} PROVE call'[d] = call[d] /\ (Busy(d)' <=> Busy(d))
    BY DEF Untouched, Busy, InConfigure, InStart, InStop, At
  <1>3. OneTransition'
    BY <1>1, <1>2 DEF IInv, OneTransition, Busy
  <1>4. AllOrNothing'
    <2>1. Settled' => Settled
      BY <1>2 DEF Settled, At
    <2>2. AllOrNothing /\ StartedQueues' = StartedQueues
      BY DEF IInv, StartedQueues
    <2> QED
      BY <2>1, <2>2 DEF AllOrNothing
  <1>5. ASSUME NEW d \in Controllers PROVE Phase(d)' /\ RunInv(d)'
    <2>1. CASE d = c
      BY <1>1, <2>1 DEF Phase, RunInv, Busy, InConfigure, InStart, InStop
    <2>2. CASE d # c
      <3>1. Phase(d) /\ RunInv(d) /\ call'[d] = call[d]
        BY <1>2, <2>2 DEF IInv
      <3>2. Phase(d)'
        BY <3>1, PhaseKept
      <3>3. RunInv(d)'
        BY <3>1, RunKept
      <3> QED
        BY <3>2, <3>3
    <2> QED
      BY <2>1, <2>2
  <1> QED
    BY <1>3, <1>4, <1>5

\* The new table is checked against the configuration ...
LEMMA UpdateRetaKeeps ==
  ASSUME IInv, NEW c \in Controllers, NEW R \in Retas, UpdateReta(c, R)
  PROVE  IInv'
  <1> USE DEF UpdateReta
  <1> DEFINE arg == [NoConfig EXCEPT !.reta = R]
  <1>1. arg \in ConfigType /\ arg.reta = R
    <2>1. NoConfig \in ConfigType /\ R \in SUBSET Nat
      BY IdleType, VNicControlAssumption DEF CallType, Idle
    <2> QED
      BY <2>1 DEF ConfigType
  <1>2. /\ call' \in [Controllers -> CallType] /\ Untouched(c)
        /\ call'[c].at = "retaWrite" /\ call'[c].arg.reta = R
    <2>1. Call(c, "retaWrite", arg, 1) /\ "retaWrite" \in Steps /\ TypeInv
      BY DEF Steps, IInv
    <2> HIDE DEF arg
    <2> QED
      BY <1>1, <2>1, CallEffect
  <1>3. TypeInv'
    BY <1>2 DEF IInv, TypeInv, port
  <1>4. At(c) = "idle" /\ At(c)' = "retaWrite" /\ UNCHANGED <<state, config, queues, reta, thread, broken>>
    BY <1>2 DEF At, port
  <1>5. ASSUME NEW d \in Controllers
        PROVE  At(d)' \in {"cfgApply", "cfgQueues", "cfgRss", "cfgQueue"} => At(d)' = At(d)
    BY <1>2 DEF Untouched, At
  <1>6. TableInv'
    <2>1. InUse' => InUse
      BY <1>4, <1>5 DEF InUse
    <2>2. ASSUME ~UpdateDuringConfigure PROVE RetaInv'
      <3>1. RetaInv /\ \A d \in Controllers : At(d)' \notin {"cfgApply", "cfgQueues", "cfgRss"}
        BY <1>5, <2>2 DEF IInv, TableInv, InConfigure
      <3>2. ASSUME NEW d \in Controllers, At(d)' = "retaWrite"
            PROVE  Below(call'[d].arg.reta, config'.rx)
        <4>1. CASE d = c
          BY <1>2, <1>4, <4>1 DEF Below
        <4>2. CASE d # c
          BY <1>2, <1>4, <3>1, <3>2, <4>2 DEF RetaInv, Below, Untouched, At
        <4> QED
          BY <4>1, <4>2
      <3> QED
        BY <1>4, <2>1, <3>1, <3>2 DEF RetaInv, Below
    <2> QED
      BY <1>4, <1>5, <2>1, <2>2 DEF IInv, TableInv, RxQueues, Valid
  <1> QED
    BY <1>2, <1>3, <1>4, <1>6, StepBeside DEF IInv

\* ... and written.
LEMMA RetaWriteKeeps ==
  ASSUME IInv, NEW c \in Controllers, RetaWrite(c)
  PROVE  IInv'
  <1> USE DEF RetaWrite
  <1>1. call' \in [Controllers -> CallType] /\ Untouched(c) /\ call'[c].at = "idle"
    BY ReturnEffect DEF IInv
  <1>2. reta' \in SUBSET Nat
    BY DEF IInv, TypeInv, CallType, ConfigType
  <1>3. TypeInv'
    BY <1>1, <1>2 DEF IInv, TypeInv
  <1>4. At(c) = "retaWrite" /\ At(c)' = "idle" /\ UNCHANGED <<state, config, queues, thread, broken>>
    BY <1>1 DEF At
  <1>5. ASSUME NEW d \in Controllers
        PROVE  At(d)' \in {"cfgApply", "cfgQueues", "cfgRss", "cfgQueue", "retaWrite"} =>
                  call'[d] = call[d] /\ At(d)' = At(d)
    BY <1>1 DEF Untouched, At
  <1>6. TableInv'
    <2>1. InUse' => InUse
      BY <1>4, <1>5 DEF InUse
    <2>2. ASSUME ~UpdateDuringConfigure PROVE RetaInv'
      <3>1. RetaInv
        BY <2>2 DEF IInv, TableInv
      <3>2. /\ Below(reta', config'.rx)
            /\ \A d \in Controllers : At(d) \notin {"cfgApply", "cfgQueues", "cfgRss"}
        BY <1>4, <3>1 DEF RetaInv, Below
      <3> QED
        BY <1>4, <1>5, <3>1, <3>2 DEF RetaInv, Below
    <2> QED
      BY <1>4, <1>5, <2>1, <2>2 DEF IInv, TableInv, RxQueues, Valid
  <1> QED
    BY <1>1, <1>3, <1>4, <1>6, StepBeside DEF IInv

-----------------------------------------------------------------------------

\* The invariant holds at first.
LEMMA InitHolds == Init => IInv
  <1> SUFFICES ASSUME Init PROVE IInv
    OBVIOUS
  <1> USE DEF Init
  <1>1. TypeInv
    <2>1. NoConfig \in ConfigType
      BY IdleType DEF CallType, Idle
    <2>2. queues \in Seq(Queue)
      OBVIOUS
    <2>3. call \in [Controllers -> CallType]
      BY IdleType
    <2> QED
      BY <2>1, <2>2, <2>3 DEF TypeInv
  <1>2. \A c \in Controllers : call[c] = Idle /\ At(c) = "idle"
    BY IdleType DEF At
  <1>3. OneTransition /\ \A c \in Controllers : Phase(c) /\ RunInv(c)
    BY <1>2 DEF OneTransition, Phase, RunInv, Busy, InConfigure, InStart, InStop
  <1>4. AllOrNothing
    BY DEF AllOrNothing, StartedQueues
  <1>5. ~config.rss
    BY DEF NoConfig
  <1>6. TableInv
    BY <1>2, <1>5 DEF TableInv, RetaInv
  <1> QED
    BY <1>1, <1>3, <1>4, <1>6 DEF IInv

\* Every step keeps it, when stop() waits for start() to return.
LEMMA NextKeeps ==
  ASSUME IInv, [Next]_vars, StopDuringStart = FALSE
  PROVE  IInv'
  <1>1. ASSUME NEW c \in Controllers, Begin(c) PROVE IInv'
    <2>1. \A i \in 1 .. Len(queues) + 1 : i \in Nat
      BY LenProperties DEF IInv, TypeInv
    <2> QED
      BY <1>1, <2>1, ConfigureKeeps, ConfigureQueueKeeps, StartKeeps, StopKeeps, DestroyKeeps,
         UpdateRetaKeeps DEF Begin
  <1>2. ASSUME NEW c \in Controllers, Continue(c) PROVE IInv'
    BY <1>2, CfgApplyKeeps, CfgQueuesKeeps, CfgRssKeeps, CfgThrowsKeeps, CfgQueueKeeps,
       PublishKeeps, StartQueueKeeps, SpawnKeeps, UndoKeeps, RequestStopKeeps, JoinKeeps,
       StopQueueKeeps, RetaWriteKeeps DEF Continue
  <1>3. CASE UNCHANGED vars
    <2>1. UNCHANGED <<state, config, queues, reta, thread, call, broken>>
      BY <1>3 DEF vars, port
    <2>2. TypeInv' /\ OneTransition'
      BY <2>1 DEF IInv, TypeInv, OneTransition, Busy, InConfigure, InStart, InStop, At
    <2>3. AllOrNothing'
      BY <2>1 DEF IInv, AllOrNothing, Settled, StartedQueues, At
    <2>4. \A c \in Controllers : Phase(c)'
      BY <2>1, PhaseKept DEF IInv
    <2>5. ASSUME NEW c \in Controllers PROVE RunInv(c)'
      <3>1. RunInv(c) /\ call'[c] = call[c] /\ UNCHANGED <<queues, thread, broken>>
        BY <2>1 DEF IInv
      <3> QED
        BY <3>1, RunKept
    <2>6. TableInv'
      BY <2>1 DEF IInv, TableInv, RetaInv, InUse, RxQueues, Below, Valid, At
    <2> QED
      BY <2>2, <2>3, <2>4, <2>5, <2>6 DEF IInv
  <1> QED
    BY <1>1, <1>2, <1>3, PollExitKeeps DEF Next, Gone

\* The invariant gives the properties: a thread runs only over started queues,
\* and the table it uses fits them.
LEMMA InvariantSuffices ==
  ASSUME IInv
  PROVE  PollOnlyWhenStarted /\ (UpdateDuringConfigure \/ RetaInRange)
  <1>1. Len(queues) \in Nat /\ DOMAIN queues = 1 .. Len(queues) /\ config.rx \in Nat
    BY LenProperties DEF IInv, TypeInv, ConfigType
  <1>2. ASSUME thread \in {"running", "asked"}
        PROVE  state \in {"Started", "Stopping", "Destroyed"} /\ StartedQueues = DOMAIN queues
    <2>1. CASE Settled
      BY <1>2, <2>1 DEF IInv, AllOrNothing
    <2>2. CASE ~Settled
      <3>1. PICK c \in Controllers : At(c) \notin {"idle", "retaWrite"}
        BY <2>2 DEF Settled
      <3>2. Phase(c) /\ RunInv(c)
        BY DEF IInv
      <3> QED
        BY <1>1, <1>2, <3>1, <3>2 DEF Phase, RunInv, Busy, InStop
    <2> QED
      BY <2>1, <2>2
  <1>3. ASSUME thread \in {"running", "asked"}, config.rss, ~UpdateDuringConfigure
        PROVE  \A e \in reta : e < Cardinality(RxQueues)
    <2>1. RxQueues = 1 .. config.rx /\ Below(reta, config.rx)
      BY <1>3 DEF IInv, TableInv, RetaInv, InUse
    <2>2. Cardinality(1 .. config.rx) = config.rx
      <3>1. PICK m \in Nat : m = config.rx
        BY <1>1
      <3>2. Cardinality(1 .. m) = IF 1 > m THEN 0 ELSE m - 1 + 1
        BY FS_Interval
      <3>3. Cardinality(1 .. m) = m
        BY <3>2
      <3> QED
        BY <3>1, <3>3
    <2> QED
      BY <2>1, <2>2 DEF Below
  <1> QED
    BY <1>2, <1>3 DEF PollOnlyWhenStarted, RetaInRange

\* The compare-and-swap automaton of stateful.h admits one controller at a time
\* to configureImpl, startImpl and stopImpl, for any number of controllers and
\* whenever updateReta() is called. Nobody calls stop() before start() returned:
\* the window between the publication of Started and the return is the finding
\* at stateful.h:109.
THEOREM TransitionsAreExclusive ==
  ASSUME StopDuringStart = FALSE
  PROVE  Spec => []OneTransition
  <1>1. IInv => OneTransition
    BY DEF IInv
  <1>2. IInv /\ [Next]_vars => IInv'
    BY NextKeeps
  <1> QED
    BY InitHolds, <1>1, <1>2, PTL DEF Spec

\* Under the same condition start() and stop() are all or nothing for any
\* number of queues: between calls every queue and the poll thread run or none
\* does, whichever queue failed, and an exception leaves at most the queue that
\* threw it behind as started, with no thread.
THEOREM TransitionsAreAllOrNothing ==
  ASSUME StopDuringStart = FALSE
  PROVE  Spec => []AllOrNothing
  <1>1. IInv => AllOrNothing
    BY DEF IInv
  <1>2. IInv /\ [Next]_vars => IInv'
    BY NextKeeps
  <1> QED
    BY InitHolds, <1>1, <1>2, PTL DEF Spec

\* Under the same condition the poll loop runs only over started queues.
THEOREM PollingIsSafe ==
  ASSUME StopDuringStart = FALSE
  PROVE  Spec => []PollOnlyWhenStarted
  <1>1. IInv => PollOnlyWhenStarted
    BY InvariantSuffices
  <1>2. IInv /\ [Next]_vars => IInv'
    BY NextKeeps
  <1> QED
    BY InitHolds, <1>1, <1>2, PTL DEF Spec

\* When, besides, updateReta() and configure() do not overlap, every table the
\* poll loop can look up, from either of them, names only RX queues that exist:
\* the assertion in distribute() holds. With an overlap it need not: the finding
\* about updateReta().
THEOREM TablesNameQueues ==
  ASSUME StopDuringStart = FALSE, UpdateDuringConfigure = FALSE
  PROVE  Spec => []RetaInRange
  <1>1. IInv => RetaInRange
    BY InvariantSuffices
  <1>2. IInv /\ [Next]_vars => IInv'
    BY NextKeeps
  <1> QED
    BY InitHolds, <1>1, <1>2, PTL DEF Spec

-----------------------------------------------------------------------------
(* The port implements Lifecycle. *)

\* The state names the call under way, and a thread is there only when start()
\* is over; it is asked to stop only by stop() and the destructor.
LEMMA Threads ==
  ASSUME IInv
  PROVE  /\ \A c \in Controllers :
              /\ InConfigure(c) => state = "Configuring" /\ thread = "none"
              /\ At(c) = "publish" => state = "Starting" /\ thread = "none"
              /\ At(c) \in {"startQueue", "spawn", "undo"} => state = "Started" /\ thread = "none"
              /\ At(c) = "stopQueue" => state \in {"Stopping", "Destroyed"} /\ thread = "none"
         /\ thread = "asked" => state \in {"Stopping", "Destroyed"}
  <1>1. \A c \in Controllers : Phase(c) /\ RunInv(c)
    BY DEF IInv
  <1>2. ASSUME NEW c \in Controllers
        PROVE  /\ InConfigure(c) => state = "Configuring" /\ thread = "none"
               /\ At(c) = "publish" => state = "Starting" /\ thread = "none"
               /\ At(c) \in {"startQueue", "spawn", "undo"} => state = "Started" /\ thread = "none"
               /\ At(c) = "stopQueue" => state \in {"Stopping", "Destroyed"} /\ thread = "none"
    BY <1>1 DEF Phase, RunInv, InStart, InStop
  <1>3. ASSUME thread = "asked" PROVE state \in {"Stopping", "Destroyed"}
    <2>1. ~Settled
      BY <1>3 DEF IInv, AllOrNothing
    <2>2. PICK c \in Controllers : At(c) \notin {"idle", "retaWrite"}
      BY <2>1 DEF Settled
    <2> QED
      BY <1>1, <1>3, <2>2 DEF Phase, RunInv, Busy
  <1> QED
    BY <1>2, <1>3

\* Every step of the port is one of Lifecycle, or invisible to it.
LEMMA LifecycleStep ==
  ASSUME IInv, [Next]_vars
  PROVE  [Life!Next]_Life!vars
  <1> USE DEF Life!Next, Life!vars
  <1>1. ASSUME NEW c \in Controllers, Begin(c) PROVE [Life!Next]_Life!vars
    <2>1. ASSUME NEW cfg, Configure(c, cfg) PROVE Life!Configure
      BY <2>1 DEF Configure, Configurable, port, Life!Configure, Life!Move
    <2>2. ASSUME NEW i, ConfigureQueue(c, i) PROVE Life!Configure
      BY <2>2 DEF ConfigureQueue, Configurable, port, Life!Configure, Life!Move
    <2>3. CASE Start(c)
      BY <2>3 DEF Start, port, Life!Start, Life!Move
    <2>4. CASE Stop(c)
      BY <2>4 DEF Stop, port, Life!Stop, Life!Move
    <2>5. CASE Destroy(c)
      BY <2>5 DEF Destroy, port, Life!Destroy
    <2>6. ASSUME NEW R, UpdateReta(c, R) PROVE UNCHANGED <<state, thread>>
      BY <2>6 DEF UpdateReta, port
    <2> QED
      BY <1>1, <2>1, <2>2, <2>3, <2>4, <2>5, <2>6 DEF Begin
  <1>2. ASSUME NEW c \in Controllers, Continue(c) PROVE [Life!Next]_Life!vars
    <2> USE Threads
    <2>1. CASE CfgApply(c) \/ CfgThrows(c) \/ CfgQueue(c)
      BY <2>1 DEF CfgApply, CfgThrows, CfgQueue, Throw, InConfigure, Life!Configure, Life!Fail, Life!Move
    <2>2. CASE CfgQueues(c) \/ CfgRss(c)
      BY <2>2 DEF CfgQueues, CfgRss, InConfigure, Life!Configure, Life!Move
    <2>3. CASE Publish(c)
      BY <2>3 DEF Publish, port, Life!Start, Life!Move
    <2>4. CASE StartQueue(c) \/ RetaWrite(c)
      BY <2>4, Zenon DEF StartQueue, RetaWrite
    <2>5. CASE Spawn(c)
      BY <2>5 DEF Spawn, Life!BeginPoll
    <2>6. CASE Undo(c)
      BY <2>6 DEF Undo, Throw, Life!Fail, Life!Move
    <2>7. CASE RequestStop(c)
      BY <2>7 DEF RequestStop
    <2>8. CASE Join(c)
      BY <2>8 DEF Join, Joined
    <2>9. CASE StopQueue(c)
      BY <2>9 DEF StopQueue, Life!Stop, Life!Fail, Life!Move
    <2> QED
      BY <1>2, <2>1, <2>2, <2>3, <2>4, <2>5, <2>6, <2>7, <2>8, <2>9 DEF Continue
  <1>3. CASE PollExit
    BY <1>3, Threads DEF PollExit, Life!EndPoll
  <1>4. CASE UNCHANGED vars
    BY <1>4 DEF vars, port
  <1> QED
    BY <1>1, <1>2, <1>3, <1>4 DEF Next, Gone

\* The port implements Lifecycle for any number of controllers and queues:
\* although setState() stores without a comparison, no transition but the
\* documented ones is ever taken, and the poll thread lives only within them.
THEOREM PortFollowsLifecycle ==
  ASSUME StopDuringStart = FALSE
  PROVE  Spec => FollowsLifecycle
  <1>1. Init => Life!Init
    BY DEF Init, Life!Init
  <1>2. IInv /\ [Next]_vars => IInv'
    BY NextKeeps
  <1>3. IInv /\ [Next]_vars => [Life!Next]_Life!vars
    BY LifecycleStep
  <1> QED
    BY InitHolds, <1>1, <1>2, <1>3, PTL DEF Spec, FollowsLifecycle, Life!Spec

=============================================================================
