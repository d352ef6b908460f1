---------------------------- MODULE PeriodicTasks ----------------------------
(***************************************************************************)
(* The periodic REST tasks of one TradingPipeline and the RestWorkerPool   *)
(* that runs them.                                                         *)
(*                                                                         *)
(*   tick     run_periodic_tasks under pipeline_mutex_: publishes the      *)
(*            stale-state guards to the risk engine, then offers each task *)
(*            that is due to the pool, then the tick decides on an entry   *)
(*   workers  worker_loop: pop a job, count it as in flight, run it        *)
(*   stop     TradingPipeline::stop: drain the pool, then destroy it       *)
(*                                                                         *)
(* Intervals are left to chance: at its turn in a tick a task is due or    *)
(* it is not.                                                              *)
(***************************************************************************)
EXTENDS Integers, Sequences, FiniteSets, SequencesExt

CONSTANTS Workers,   \* the threads of the pool (one in the pipeline)
          MaxQueue,  \* max_queue_depth_ (32 in the pipeline)
          Tasks,     \* the tasks that are configured, see AllTasks
          CanStop    \* whether the pipeline is stopped in this instance

(* In the order of run_periodic_tasks.  The guarded ones own an atomic     *)
(* in-flight flag that the job clears when it ends.                        *)
AllTasks == <<"reconciliation", "clock_sync", "balance_sync", "funding_rate",
              "oi_update", "orphan_cleanup">>
Guarded == {"reconciliation", "clock_sync", "balance_sync", "funding_rate"}
TaskSet == {AllTasks[i] : i \in DOMAIN AllTasks}
Nothing == "nothing"

ASSUME PeriodicTasksAssumption ==
  /\ Workers # {}
  /\ MaxQueue \in Nat \ {0}
  /\ Tasks \subseteq TaskSet
  /\ CanStop \in BOOLEAN

VARIABLES
  queue,      \* queue_ of the pool
  counter,    \* in_flight_ of the pool
  worker,     \* program counter and job of each worker
  flags,      \* guarded tasks whose in-flight flag is set
  resync,     \* reconciliation_needs_resync_
  desync,     \* RiskEngine::reconciliation_desync_
  offline,    \* RiskEngine::ws_disconnected_
  tick,       \* turn of the tick in AllTasks, or "idle", "entry"
  stopper     \* progress of stop()

taskVars == <<queue, counter, worker, flags, resync, desync, offline, tick, stopper>>
pool == <<queue, counter, worker>>
risk == <<desync, offline>>

TasksInit ==
  /\ queue = <<>>
  /\ counter = 0
  /\ worker = [w \in Workers |-> [pc |-> "top", job |-> Nothing]]
  /\ flags = {}
  /\ resync = FALSE
  /\ desync = FALSE
  /\ offline = FALSE
  /\ tick = [pc |-> "idle", turn |-> 0]
  /\ stopper = "running"

StopRequested == stopper \in {"joining", "stopped"}

-----------------------------------------------------------------------------
(* RestWorkerPool                                                          *)

(* The oldest job makes room for the new one.                              *)
submit(k) ==
  queue' = IF Len(queue) >= MaxQueue THEN Append(Tail(queue), k)
                                     ELSE Append(queue, k)

(* worker_loop waits for a job or for the stop; a worker that was waiting  *)
(* takes a job that is still queued even then.                             *)
LoopTop(w) ==
  /\ worker[w].pc = "top"
  /\ worker' = [worker EXCEPT ![w].pc = IF StopRequested THEN "exited" ELSE "wait"]
  /\ UNCHANGED <<queue, counter, flags, resync, risk, tick, stopper>>

(* Mutant: the destructor does not wake the waiting workers.               *)
WorkerExit_NoNotify(w) == worker[w].pc = "wait" /\ FALSE /\ UNCHANGED taskVars

WorkerExit(w) ==
  /\ worker[w].pc = "wait"
  /\ queue = <<>>
  /\ StopRequested
  /\ worker' = [worker EXCEPT ![w].pc = "exited"]
  /\ UNCHANGED <<queue, counter, flags, resync, risk, tick, stopper>>

Pop(w) ==
  /\ worker[w].pc = "wait"
  /\ queue # <<>>
  /\ worker' = [worker EXCEPT ![w] = [pc |-> "popped", job |-> Head(queue)]]
  /\ queue' = Tail(queue)
  /\ UNCHANGED <<counter, flags, resync, risk, tick, stopper>>

Begin(w) ==
  /\ worker[w].pc = "popped"
  /\ counter' = counter + 1
  /\ worker' = [worker EXCEPT ![w].pc = "run"]
  /\ UNCHANGED <<queue, flags, resync, risk, tick, stopper>>

Finish(w) ==
  /\ worker[w].pc = "done"
  /\ counter' = counter - 1
  /\ worker' = [worker EXCEPT ![w] = [pc |-> "top", job |-> Nothing]]
  /\ UNCHANGED <<queue, flags, resync, risk, tick, stopper>>

-----------------------------------------------------------------------------
(* The jobs.  Each runs its REST calls, and a guarded one then clears its  *)
(* flag; an exception inside the job is caught before that.                *)

Runs(w, k) == worker[w].pc = "run" /\ worker[w].job = k
Ran(w) == worker' = [worker EXCEPT ![w].pc =
                       IF worker[w].job \in Guarded THEN "clear" ELSE "done"]

(* run_continuous_reconciliation finds nothing to synchronize, or stores   *)
(* the resync request.                                                     *)
Reconcile(w) ==
  /\ Runs(w, "reconciliation")
  /\ resync' \in {resync, TRUE}
  /\ Ran(w)
  /\ UNCHANGED <<queue, counter, flags, risk, tick, stopper>>

(* sync_balance_from_exchange succeeds, or returns early on a REST error.  *)
BalanceSync(w) ==
  /\ Runs(w, "balance_sync")
  /\ Ran(w)
  /\ UNCHANGED <<queue, counter, flags, resync, risk, tick, stopper>>

(* check_clock_sync: a drift beyond 2 s is published as ws_disconnected.   *)
ClockSync(w) ==
  /\ Runs(w, "clock_sync")
  /\ offline' \in {offline, TRUE}
  /\ Ran(w)
  /\ UNCHANGED <<queue, counter, flags, resync, desync, tick, stopper>>

(* The remaining jobs change nothing the others read.                      *)
OtherJob(w) ==
  /\ worker[w].pc = "run"
  /\ worker[w].job \in {"funding_rate", "oi_update", "orphan_cleanup"}
  /\ Ran(w)
  /\ UNCHANGED <<queue, counter, flags, resync, risk, tick, stopper>>

(* Mutant: the job returns without clearing its flag.                      *)
ClearFlag_Forgets(w) ==
  /\ worker[w].pc = "clear"
  /\ worker' = [worker EXCEPT ![w].pc = "done"]
  /\ UNCHANGED <<queue, counter, flags, resync, risk, tick, stopper>>

ClearFlag(w) ==
  /\ worker[w].pc = "clear"
  /\ flags' = flags \ {worker[w].job}
  /\ worker' = [worker EXCEPT ![w].pc = "done"]
  /\ UNCHANGED <<queue, counter, resync, risk, tick, stopper>>

WorkerStep(w) ==
  \/ LoopTop(w) \/ WorkerExit(w) \/ Pop(w) \/ Begin(w) \/ Finish(w)
  \/ Reconcile(w) \/ BalanceSync(w) \/ ClockSync(w) \/ OtherJob(w) \/ ClearFlag(w)

-----------------------------------------------------------------------------
(* The tick.                                                               *)

(* on_feature_snapshot starts: the stale-state guards are published, the   *)
(* state of the public WebSocket as is_connected reports it.               *)
BeginTick ==
  /\ stopper = "running"
  /\ tick.pc = "idle"
  /\ desync' = resync
  /\ offline' \in BOOLEAN
  /\ tick' = [pc |-> "tasks", turn |-> 1]
  /\ UNCHANGED <<pool, flags, resync, stopper>>

NextTurn == tick' = [tick EXCEPT !.turn = @ + 1]

Turn == AllTasks[tick.turn]
AtTask == tick.pc = "tasks" /\ tick.turn \in DOMAIN AllTasks

NotDue ==
  /\ AtTask
  /\ NextTurn
  /\ UNCHANGED <<pool, flags, resync, risk, stopper>>

(* Mutant: the in-flight flag is set, but not tested.                      *)
OfferTask_Untested ==
  /\ AtTask
  /\ Turn \in Tasks
  /\ resync' = (IF Turn = "balance_sync" THEN FALSE ELSE resync)
  /\ submit(Turn)
  /\ flags' = flags \cup ({Turn} \cap Guarded)
  /\ NextTurn
  /\ UNCHANGED <<counter, worker, risk, stopper>>

(* A task that is due is submitted, a guarded one only if the exchange of  *)
(* its flag succeeds.  The balance task takes the resync request down in   *)
(* either case.                                                            *)
OfferTask ==
  /\ AtTask
  /\ Turn \in Tasks
  /\ resync' = (IF Turn = "balance_sync" THEN FALSE ELSE resync)
  /\ IF Turn \in flags THEN UNCHANGED <<queue, flags>>
                       ELSE submit(Turn) /\ flags' = flags \cup ({Turn} \cap Guarded)
  /\ NextTurn
  /\ UNCHANGED <<counter, worker, risk, stopper>>

TasksDone ==
  /\ tick.pc = "tasks"
  /\ tick.turn = Len(AllTasks) + 1
  /\ tick' = [tick EXCEPT !.pc = "entry"]
  /\ UNCHANGED <<pool, flags, resync, risk, stopper>>

(* RiskEngine::evaluate has read the guards; the tick ends.                *)
EndTick ==
  /\ tick.pc = "entry"
  /\ tick' = [pc |-> "idle", turn |-> 0]
  /\ UNCHANGED <<pool, flags, resync, risk, stopper>>

-----------------------------------------------------------------------------
(* TradingPipeline::stop: no more ticks; drain looks at the queue and then *)
(* at the counter until both are empty or its time is over.                *)
Stop ==
  /\ CanStop
  /\ stopper = "running"
  /\ tick.pc = "idle"
  /\ stopper' = "drain"
  /\ UNCHANGED <<pool, flags, resync, risk, tick>>

DrainQueue ==
  /\ stopper = "drain"
  /\ queue = <<>>
  /\ stopper' = "drain_counter"
  /\ UNCHANGED <<pool, flags, resync, risk, tick>>

DrainCounter ==
  /\ stopper = "drain_counter"
  /\ stopper' = IF counter = 0 THEN "drained" ELSE "drain"
  /\ UNCHANGED <<pool, flags, resync, risk, tick>>

(* drain returned, or timed out, and the destructor asks the workers to    *)
(* stop.                                                                   *)
Destroy ==
  /\ stopper \in {"drain", "drained"}
  /\ stopper' = "joining"
  /\ UNCHANGED <<pool, flags, resync, risk, tick>>

Join ==
  /\ stopper = "joining"
  /\ \A w \in Workers : worker[w].pc = "exited"
  /\ stopper' = "stopped"
  /\ UNCHANGED <<pool, flags, resync, risk, tick>>

-----------------------------------------------------------------------------
TickStep == BeginTick \/ NotDue \/ OfferTask \/ TasksDone \/ EndTick
StopStep == DrainQueue \/ DrainCounter \/ Destroy \/ Join

TasksNext ==
  \/ \E w \in Workers : WorkerStep(w)
  \/ TickStep \/ Stop \/ StopStep

(* Threads run and ticks keep coming.                                      *)
TasksFairness ==
  /\ \A w \in Workers : WF_taskVars(WorkerStep(w))
  /\ WF_taskVars(TickStep)
  /\ WF_taskVars(StopStep)

-----------------------------------------------------------------------------
Active(w) == worker[w].pc \in {"popped", "run", "clear"}
Takes(w, k) == Active(w) /\ worker[w].job = k

(* trading_pipeline.hpp:377: a guarded task is not started again before    *)
(* the previous one has ended.  It is queued or run at most once, and its  *)
(* flag is up as long, whatever the queue has dropped and whichever worker *)
(* is about to clear the flag.                                             *)
OneJobPerFlag ==
  \A k \in Guarded :
    /\ \A i, j \in DOMAIN queue : queue[i] = k /\ queue[j] = k => i = j
    /\ \A v, w \in Workers : Takes(v, k) /\ Takes(w, k) => v = w
    /\ \A i \in DOMAIN queue, w \in Workers : ~(queue[i] = k /\ Takes(w, k))
    /\ (\E i \in DOMAIN queue : queue[i] = k) \/ (\E w \in Workers : Takes(w, k)) => k \in flags

(* A job that a worker has taken always clears its in-flight flag, also    *)
(* when stop() waits for it: the task can be offered again.  (A job that   *)
(* submit drops from a full queue is never taken.)                         *)
FlagReleased ==
  \A k \in Guarded :
    (\E w \in Workers : Takes(w, k)) ~> (k \notin flags)

(* stop() returns whatever the workers are doing.                          *)
StopTerminates == (stopper # "running") ~> (stopper = "stopped")

=============================================================================
