-------------------------------- MODULE Seda --------------------------------
(***************************************************************************)
(* The staged event-driven core (deps/common/seda): Stage, Threadpool,     *)
(* KillThreadStage and the start and clean-up of SedaConfig.  A stage has  *)
(* a queue of events and a count of the events it still owes; the pool has *)
(* a run queue with one entry per event to handle.  Every action is one    *)
(* critical section of the code, or the code between two of them.          *)
(*                                                                         *)
(* All stages share one pool: get_thread_pool returns the default pool     *)
(* whatever is configured.  Stage 0 is the pool's KillThreadStage.         *)
(***************************************************************************)
EXTENDS Integers, Sequences, FiniteSets

CONSTANTS
  Worker,        \* threads of the pool
  Outside,       \* threads that are not: the network and the timer thread
  Owner,         \* the thread that runs SedaConfig
  NumStages,     \* stages, numbered in the order of the map stages_
  Calls,         \* <<s, t>>: stage s may call t's handle_event itself
  MaxEvent,      \* bound: events made
  MaxHops        \* bound: times an event is passed on with add_event

ASSUME SedaAssumption ==
  /\ NumStages \in Nat \ {0} /\ MaxEvent \in Nat /\ MaxHops \in Nat
  /\ Calls \subseteq (1 .. NumStages) \X (1 .. NumStages)
  /\ Owner \notin Worker \cup Outside /\ Worker \cap Outside = {}
  /\ IsFiniteSet(Worker) /\ IsFiniteSet(Outside)

Stage  == 1 .. NumStages
Killer == 0
Event  == 1 .. MaxEvent
KillEvent == 0
Thread == Worker \cup Outside \cup {Owner}

VARIABLES
  queue,      \* Stage::event_list_
  connected,  \* Stage::connected_
  ref,        \* Stage::event_ref_
  pool,       \* is th_pool_ set?
  runQueue,   \* Threadpool::run_queue_
  nIdles,     \* Threadpool::n_idles_
  nthreads,   \* Threadpool::nthreads_
  toKill,     \* Threadpool::threads_to_kill_
  pc,         \* where each thread is
  at,         \* the stage a worker serves
  inside,     \* the stage whose handle_event a worker is in
  cur,        \* the event it handles
  tgt,        \* the stage a thread passes to schedule
  step,       \* the stage the owner connects or disconnects
  left,       \* how many more times the owner calls schedule or add_event
  made,       \* events made so far
  hops,       \* events passed on so far
  handled     \* events whose handling ended; no code reads it

stages  == <<queue, connected, ref, pool>>
workers == <<at, inside, cur>>
owner   == <<step, left>>
counts  == <<made, hops, handled>>
vars == <<queue, connected, ref, pool, runQueue, nIdles, nthreads, toKill,
          pc, at, inside, cur, tgt, step, left, made, hops, handled>>

-----------------------------------------------------------------------------
(* Stage *)

\* Mutants: the event is not counted; it is counted in any case.
PushUncounted(s, e) == queue' = [queue EXCEPT ![s] = Append(@, e)] /\ ref' = ref
PushAlwaysCounted(s, e) ==
  /\ queue' = [queue EXCEPT ![s] = Append(@, e)]
  /\ ref' = [ref EXCEPT ![s] = @ + 1]

\* add_event, up to the unlock: a connected stage owes the event.
Push(s, e) ==
  /\ queue' = [queue EXCEPT ![s] = Append(@, e)]
  /\ ref' = IF connected[s] THEN [ref EXCEPT ![s] = @ + 1] ELSE ref

\* Mutants: the stage is never scheduled; it is scheduled in any case.
NeverScheduled(t, s, next) ==
  pc' = [pc EXCEPT ![t] = next] /\ tgt' = [tgt EXCEPT ![t] = s]
AlwaysScheduled(t, s, next) ==
  pc' = [pc EXCEPT ![t] = "schedule"] /\ tgt' = [tgt EXCEPT ![t] = s]

\* Where the thread t goes after Push: to schedule, or on to next.
AfterPush(t, s, next) ==
  /\ pc' = [pc EXCEPT ![t] = IF connected[s] THEN "schedule" ELSE next]
  /\ tgt' = [tgt EXCEPT ![t] = s]

\* Mutant: the disconnecting thread is not told.
NotTold(s, p) == p

\* release_event wakes the thread that waits in disconnect.
Told(s, p) ==
  IF ~connected[s] /\ ref[s] = 1 /\ p[Owner] = "dwait" /\ step = s
  THEN [p EXCEPT ![Owner] = "dwoken"]
  ELSE p

-----------------------------------------------------------------------------
(* Threadpool::schedule *)

Asleep == {w \in Worker : pc[w] = "wait"}

\* Mutant: an entry on an empty run queue wakes nobody.
SignalsIfBusy(t) == runQueue # <<>> /\ nIdles > 0

\* A worker that puts the only entry on the run queue will come for it.
Signals(t) == (runQueue # <<>> \/ t \notin Worker) /\ nIdles > 0

\* The thread t schedules stage tgt[t] and goes on to next.
Schedule(t, next) ==
  /\ runQueue' = Append(runQueue, tgt[t])
  /\ IF Signals(t) /\ Asleep # {}
     THEN \E w \in Asleep : pc' = [pc EXCEPT ![w] = "woken", ![t] = next]
     ELSE pc' = [pc EXCEPT ![t] = next]

-----------------------------------------------------------------------------
(* Threadpool::run_thread *)

\* Nothing to run: wait on run_cond_.  n_idles_ was decremented if the thread
\* comes back from the wait.
Sleep(w) ==
  /\ pc[w] \in {"loop", "woken"}
  /\ runQueue = <<>>
  /\ pc' = [pc EXCEPT ![w] = "wait"]
  /\ nIdles' = IF pc[w] = "loop" THEN nIdles + 1 ELSE nIdles
  /\ UNCHANGED <<stages, runQueue, nthreads, toKill, workers, tgt, owner, counts>>

Spurious(w) ==
  /\ pc[w] = "wait"
  /\ pc' = [pc EXCEPT ![w] = "woken"]
  /\ UNCHANGED <<stages, runQueue, nIdles, nthreads, toKill, workers, tgt, owner, counts>>

Pop(w) ==
  /\ pc[w] \in {"loop", "woken"}
  /\ runQueue # <<>>
  /\ pc' = [pc EXCEPT ![w] = "remove"]
  /\ at' = [at EXCEPT ![w] = Head(runQueue)]
  /\ runQueue' = Tail(runQueue)
  /\ nIdles' = IF pc[w] = "woken" THEN nIdles - 1 ELSE nIdles
  /\ UNCHANGED <<stages, nthreads, toKill, inside, cur, tgt, owner, counts>>

\* remove_event; handle_event is called with the event.
Remove(w) ==
  LET s == at[w]
  IN
  /\ pc[w] = "remove"
  /\ queue[s] # <<>>
  /\ cur' = [cur EXCEPT ![w] = Head(queue[s])]
  /\ queue' = [queue EXCEPT ![s] = Tail(@)]
  /\ inside' = [inside EXCEPT ![w] = s]
  /\ pc' = [pc EXCEPT ![w] = IF s = Killer THEN "kill" ELSE "handle"]
  /\ UNCHANGED <<connected, ref, pool, runQueue, nIdles, nthreads, toKill,
                 at, tgt, owner, counts>>

\* A handler calls the next stage's handle_event in its own thread.
CallNext(w, t) ==
  /\ pc[w] = "handle"
  /\ <<inside[w], t>> \in Calls
  /\ inside' = [inside EXCEPT ![w] = t]
  /\ UNCHANGED <<stages, runQueue, nIdles, nthreads, toKill, pc, at, cur, tgt, owner, counts>>

\* A handler passes the event on: add_event, or done with a callback.
PassOn(w, s) ==
  /\ pc[w] = "handle"
  /\ hops < MaxHops
  /\ hops' = hops + 1
  /\ Push(s, cur[w])
  /\ AfterPush(w, s, "release")
  /\ inside' = [inside EXCEPT ![w] = at[w]]
  /\ UNCHANGED <<connected, pool, runQueue, nIdles, nthreads, toKill,
                 at, cur, owner, made, handled>>

WorkerSchedule(w) ==
  /\ pc[w] = "schedule"
  /\ Schedule(w, "release")
  /\ UNCHANGED <<stages, nIdles, nthreads, toKill, workers, tgt, owner, counts>>

\* The handlers return.
Finish(w) ==
  /\ pc[w] = "handle"
  /\ handled' = handled \cup {cur[w]}
  /\ inside' = [inside EXCEPT ![w] = at[w]]
  /\ pc' = [pc EXCEPT ![w] = "release"]
  /\ UNCHANGED <<stages, runQueue, nIdles, nthreads, toKill, at, cur, tgt, owner, made, hops>>

\* release_event; a killed thread ends.
Release(w) ==
  LET s == at[w]
  IN
  /\ pc[w] = "release"
  /\ ref' = [ref EXCEPT ![s] = @ - 1]
  /\ pc' = Told(s, [pc EXCEPT ![w] = IF s = Killer THEN "dead" ELSE "loop"])
  /\ UNCHANGED <<queue, connected, pool, runQueue, nIdles, nthreads, toKill,
                 workers, tgt, owner, counts>>

-----------------------------------------------------------------------------
(* kill_threads *)

\* The owner holds thread_mutex_ but for the wait.
ThreadMutexHeld ==
  \/ pc[Owner] \in {"kadd", "schedule"} /\ step = Killer
  \/ pc[Owner] \in {"disconnect", "dwait", "dwoken"} /\ step = Killer

\* KillThreadStage::handle_event: thread_kill, which tells kill_threads when
\* it was the last one.
ThreadKill(w) ==
  /\ pc[w] = "kill"
  /\ ~ThreadMutexHeld
  /\ nthreads' = nthreads - 1
  /\ toKill' = toKill - 1
  /\ pc' = [pc EXCEPT ![w] = "release",
                      ![Owner] = IF toKill = 1 /\ @ = "kwait" THEN "kwoken" ELSE @]
  /\ UNCHANGED <<stages, runQueue, nIdles, workers, tgt, owner, counts>>

\* ~Threadpool calls kill_threads for all threads: connect the kill stage.
Kill ==
  /\ pc[Owner] = "kill"
  /\ pool' = [pool EXCEPT ![Killer] = TRUE]
  /\ connected' = [connected EXCEPT ![Killer] = TRUE]
  /\ step' = Killer
  /\ left' = nthreads
  /\ pc' = [pc EXCEPT ![Owner] = "kadd"]
  /\ UNCHANGED <<queue, ref, runQueue, nIdles, nthreads, toKill, workers, tgt, counts>>

\* gen_kill_thread_events
AddKill ==
  /\ pc[Owner] = "kadd"
  /\ left > 0
  /\ Push(Killer, KillEvent)
  /\ AfterPush(Owner, Killer, "kadd")
  /\ UNCHANGED <<connected, pool, runQueue, nIdles, nthreads, toKill, workers, owner, counts>>

KillWait ==
  /\ pc[Owner] = "kadd"
  /\ left = 0
  /\ toKill' = nthreads
  /\ pc' = [pc EXCEPT ![Owner] = "kwait"]
  /\ UNCHANGED <<stages, runQueue, nIdles, nthreads, workers, tgt, owner, counts>>

KillWakes ==
  /\ pc[Owner] = "kwait"
  /\ pc' = [pc EXCEPT ![Owner] = "kwoken"]
  /\ UNCHANGED <<stages, runQueue, nIdles, nthreads, toKill, workers, tgt, owner, counts>>

\* The wait is not in a loop: whatever ended it, disconnect the kill stage.
Killed ==
  /\ pc[Owner] = "kwoken"
  /\ pc' = [pc EXCEPT ![Owner] = "disconnect"]
  /\ UNCHANGED <<stages, runQueue, nIdles, nthreads, toKill, workers, tgt, owner, counts>>

-----------------------------------------------------------------------------
(* SedaConfig: start, cleanup *)

\* connect: initialize, which may fail and may put an event on the queue
\* (MetricsStage), then the backlog becomes what the stage owes.
Connect ==
  /\ pc[Owner] = "connect"
  /\ \/ \E b \in {0, 1} :
          LET q == IF b = 0 THEN queue[step] ELSE Append(queue[step], made + 1)
          IN
          /\ made + b <= MaxEvent
          /\ made' = made + b
          /\ queue' = [queue EXCEPT ![step] = q]
          /\ ref' = [ref EXCEPT ![step] = Len(q)]
          /\ connected' = [connected EXCEPT ![step] = TRUE]
          /\ left' = Len(q)
          /\ pc' = [pc EXCEPT ![Owner] = "backlog"]
          /\ tgt' = [tgt EXCEPT ![Owner] = step]
          /\ step' = step
     \/ /\ pc' = [pc EXCEPT ![Owner] = "disconnect"]
        /\ step' = 1
        /\ UNCHANGED <<queue, ref, connected, left, made, tgt>>
  /\ UNCHANGED <<pool, runQueue, nIdles, nthreads, toKill, workers, hops, handled>>

\* The backlog is scheduled, then the next stage is connected.
Backlog ==
  /\ pc[Owner] = "backlog"
  /\ \/ /\ left > 0
        /\ left' = left - 1
        /\ Schedule(Owner, "backlog")
        /\ step' = step
     \/ /\ left = 0
        /\ pc' = [pc EXCEPT ![Owner] = IF step = NumStages THEN "run" ELSE "connect"]
        /\ step' = IF step = NumStages THEN step ELSE step + 1
        /\ UNCHANGED <<runQueue, left>>
  /\ UNCHANGED <<stages, nIdles, nthreads, toKill, workers, tgt, counts>>

OwnerSchedule ==
  /\ pc[Owner] = "schedule"
  /\ left' = left - 1
  /\ Schedule(Owner, "kadd")
  /\ UNCHANGED <<stages, nIdles, nthreads, toKill, workers, tgt, step, counts>>

Cleanup ==
  /\ pc[Owner] = "run"
  /\ pc' = [pc EXCEPT ![Owner] = "disconnect"]
  /\ step' = 1
  /\ UNCHANGED <<stages, runQueue, nIdles, nthreads, toKill, workers, tgt, left, counts>>

\* disconnect has nothing to wait for: forget the pool; clean up; go on with
\* the next stage.  After the last one the stages and their events are deleted.
Detach ==
  /\ pool' = [pool EXCEPT ![step] = FALSE]
  /\ IF step \in {Killer, NumStages}
     THEN /\ pc' = [pc EXCEPT ![Owner] = IF step = Killer THEN "done" ELSE "kill"]
          /\ queue' = IF step = Killer THEN queue ELSE [s \in Stage \cup {Killer} |-> <<>>]
          /\ step' = step
     ELSE /\ pc' = [pc EXCEPT ![Owner] = "disconnect"]
          /\ step' = step + 1
          /\ queue' = queue

\* Mutant: disconnect does not wait.
DetachAtOnce == connected' = [connected EXCEPT ![step] = FALSE] /\ Detach

\* disconnect up to the wait; cleanup() skips a stage that is not connected.
StartDetach ==
  /\ connected' = [connected EXCEPT ![step] = FALSE]
  /\ IF connected[step] /\ ref[step] > 0
     THEN pc' = [pc EXCEPT ![Owner] = "dwait"] /\ UNCHANGED <<pool, queue, step>>
     ELSE Detach

Disconnect ==
  /\ pc[Owner] = "disconnect"
  /\ StartDetach
  /\ UNCHANGED <<ref, runQueue, nIdles, nthreads, toKill, workers, tgt, left, counts>>

\* The wait for disconnect_cond_ is in a loop.
Disconnected ==
  /\ pc[Owner] = "dwoken"
  /\ IF ref[step] > 0
     THEN pc' = [pc EXCEPT ![Owner] = "dwait"] /\ UNCHANGED <<pool, queue, step>>
     ELSE Detach
  /\ UNCHANGED <<connected, ref, runQueue, nIdles, nthreads, toKill, workers, tgt, left, counts>>

DisconnectWakes ==
  /\ pc[Owner] = "dwait"
  /\ pc' = [pc EXCEPT ![Owner] = "dwoken"]
  /\ UNCHANGED <<stages, runQueue, nIdles, nthreads, toKill, workers, tgt, owner, counts>>

-----------------------------------------------------------------------------
(* The network and timer threads add events until the stages are deleted. *)

Deleted == pc[Owner] \in {"kill", "kadd", "kwait", "kwoken", "done"} \/ step = Killer

AddEvent(t, s) ==
  /\ pc[t] = "idle"
  /\ ~Deleted
  /\ made < MaxEvent
  /\ made' = made + 1
  /\ Push(s, made + 1)
  /\ AfterPush(t, s, "idle")
  /\ UNCHANGED <<connected, pool, runQueue, nIdles, nthreads, toKill,
                 workers, owner, hops, handled>>

OutsideSchedule(t) ==
  /\ pc[t] = "schedule"
  /\ Schedule(t, "idle")
  /\ UNCHANGED <<stages, nIdles, nthreads, toKill, workers, tgt, owner, counts>>

-----------------------------------------------------------------------------
Init ==
  /\ queue = [s \in Stage \cup {Killer} |-> <<>>]
  /\ connected = [s \in Stage \cup {Killer} |-> FALSE]
  /\ ref = [s \in Stage \cup {Killer} |-> 0]
  /\ pool = [s \in Stage \cup {Killer} |-> s # Killer]
  /\ runQueue = <<>>
  /\ nIdles = 0
  /\ nthreads = Cardinality(Worker)
  /\ toKill = 0
  /\ pc = [t \in Thread |-> IF t \in Worker THEN "loop" ELSE
                            IF t = Owner THEN "connect" ELSE "idle"]
  /\ at = [w \in Worker |-> Killer]
  /\ inside = [w \in Worker |-> Killer]
  /\ cur = [w \in Worker |-> KillEvent]
  /\ tgt = [t \in Thread |-> Killer]
  /\ step = 1
  /\ left = 0
  /\ made = 0
  /\ hops = 0
  /\ handled = {}

WorkerStep(w) ==
  \/ Sleep(w) \/ Pop(w) \/ Remove(w) \/ Finish(w) \/ Release(w)
  \/ WorkerSchedule(w) \/ ThreadKill(w)
  \/ \E s \in Stage : CallNext(w, s) \/ PassOn(w, s)

OwnerStep ==
  \/ Connect \/ Backlog \/ Disconnect \/ Disconnected
  \/ Kill \/ AddKill \/ OwnerSchedule \/ KillWait \/ Killed

Next ==
  \/ \E w \in Worker : WorkerStep(w) \/ Spurious(w)
  \/ \E t \in Outside : OutsideSchedule(t) \/ \E s \in Stage : AddEvent(t, s)
  \/ OwnerStep \/ Cleanup \/ DisconnectWakes \/ KillWakes

\* A thread that can go on does: handlers return and mutexes are granted.
\* Nobody has to add events, clean up, or wake up without being told.
Fairness ==
  /\ \A w \in Worker : WF_vars(WorkerStep(w))
  /\ \A t \in Outside : WF_vars(OutsideSchedule(t))
  /\ WF_vars(OwnerStep)

Spec == Init /\ [][Next]_vars /\ Fairness

-----------------------------------------------------------------------------
(* Properties *)

\* Every variable has its type.
TypeOK ==
  /\ queue \in [Stage \cup {Killer} -> Seq(Event \cup {KillEvent})]
  /\ connected \in [Stage \cup {Killer} -> BOOLEAN]
  /\ ref \in [Stage \cup {Killer} -> Nat]
  /\ pool \in [Stage \cup {Killer} -> BOOLEAN]
  /\ runQueue \in Seq(Stage \cup {Killer})
  /\ nIdles \in 0 .. Cardinality(Worker)
  /\ nthreads \in 0 .. Cardinality(Worker) /\ toKill \in 0 .. Cardinality(Worker)
  /\ pc \in [Thread -> {"loop", "wait", "woken", "remove", "handle", "schedule", "release",
                        "kill", "dead", "idle", "connect", "backlog", "run", "disconnect",
                        "dwait", "dwoken", "kadd", "kwait", "kwoken", "done"}]
  /\ at \in [Worker -> Stage \cup {Killer}] /\ inside \in [Worker -> Stage \cup {Killer}]
  /\ cur \in [Worker -> Event \cup {KillEvent}]
  /\ tgt \in [Thread -> Stage \cup {Killer}]
  /\ step \in Stage \cup {Killer} /\ left \in Nat
  /\ made \in 0 .. MaxEvent /\ hops \in 0 .. MaxHops /\ handled \subseteq Event

Entries(s)    == Cardinality({i \in DOMAIN runQueue : runQueue[i] = s})
Scheduling(s) == {t \in Thread : pc[t] = "schedule" /\ tgt[t] = s}
OwnerLeft(s)  == IF pc[Owner] = "backlog" /\ step = s THEN left ELSE 0
Serving(s)    == {w \in Worker : at[w] = s /\ pc[w] \in {"remove", "handle", "kill", "release"}}
Adding(s)     == {w \in Worker : at[w] = s /\ pc[w] = "schedule"}
Removing(s)   == {w \in Worker : at[w] = s /\ pc[w] = "remove"}

\* A stage owes exactly the entries it has on the run queue, the ones about
\* to be put there, and the events in the hands of workers.
RefCounts ==
  \A s \in Stage \cup {Killer} :
    ref[s] = Entries(s) + Cardinality(Scheduling(s)) + OwnerLeft(s)
             + Cardinality(Serving(s)) + Cardinality(Adding(s))

\* The asserts of schedule, add_event and remove_event: whoever schedules a
\* stage or takes an event of it finds an event, and the stage has its pool.
\* The queue has one event for each run queue entry, made or still to make.
QueueCovered ==
  \A s \in Stage \cup {Killer} :
    LET due == Entries(s) + Cardinality(Scheduling(s)) + OwnerLeft(s)
               + Cardinality(Removing(s))
    IN  Len(queue[s]) >= due /\ (due > 0 => pool[s])

\* Once disconnect has returned, no entry of the run queue and no worker is for
\* the stage, and a worker that is in its handler was sent there by a stage
\* which is still to be disconnected and waits for the worker: so no worker is
\* in any handler when the stages are deleted.
OwnEventsDone ==
  \A s \in Stage : ~pool[s] =>
    /\ Serving(s) \cup Adding(s) = {} /\ Entries(s) = 0
    /\ \A w \in Worker : pc[w] = "handle" /\ inside[w] = s => pool[at[w]] /\ ref[at[w]] > 0

\* No lost wake-up: while there is something to run, not all the threads
\* that are left sleep, although schedule does not always signal.
SomebodyAwake ==
  (runQueue # <<>> /\ \E w \in Worker : pc[w] # "dead")
    => \E w \in Worker : pc[w] \notin {"dead", "wait"}

InQueue(e) == {s \in Stage : \E i \in DOMAIN queue[s] : queue[s][i] = e}

\* An event on the queue of a connected stage is handled, or ends up on the
\* queue of a stage that is disconnected.
EventsHandled ==
  \A e \in Event :
    (\E s \in InQueue(e) : connected[s])
      ~> (e \in handled \/ \E s \in InQueue(e) : ~connected[s])

\* kill_threads holds thread_mutex_ and waits for threads that wait for it,
\* after a wake-up without a signal.
KillStuck == step = Killer /\ pc[Owner] = "dwait" /\ toKill > 0

\* Clean-up ends: every stage is disconnected, and the threads are killed
\* unless the wait of kill_threads ended before they were.
CleanupEnds == (pc[Owner] = "disconnect") ~> (pc[Owner] = "done" \/ KillStuck)
=============================================================================
