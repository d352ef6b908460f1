---------------------------- MODULE AppLifecycle ----------------------------
(***************************************************************************)
(* The life of the process: Supervisor, the main function that drives it,  *)
(* and the idle monitor that replaces the pipelines that do not trade.     *)
(*                                                                         *)
(*   main      registers one pipeline per slot, starts them through the    *)
(*             supervisor, waits for the shutdown, joins the monitor and   *)
(*             stops every pipeline                                        *)
(*   signal    SIGTERM or SIGINT: one compare-and-swap on the state        *)
(*   monitor   rescans the market and rotates idle slots to new symbols    *)
(*   ticks     each running pipeline handles market ticks on a thread of   *)
(*             its own; a tick may open or close the symbol's position     *)
(*                                                                         *)
(* Time is left to chance: a pipeline that has ever been active is idle,   *)
(* or is not, whenever it is asked.  The shutdown timeout of stop() does   *)
(* not matter here, because main has stopped every pipeline before.  How   *)
(* main comes to its first pipelines is in AppStartup, which composes it   *)
(* with this module.                                                       *)
(***************************************************************************)
EXTENDS Integers, FiniteSets

CONSTANT Symbols       \* the pairs of the market

ASSUME AppLifecycleAssumption == IsFiniteSet(Symbols)

Fresh == 0             \* the pipeline the monitor is about to put in a slot
NoSymbol == "no symbol"

VARIABLES
  sys,       \* Supervisor::state_
  subs,      \* Supervisor::subsystems_, by the symbol in their name
  pipe,      \* the pipeline of each slot, and the fresh one
  position,  \* symbols with an open position in the shared portfolio
  main,      \* progress of main()
  monitor    \* progress of idle_monitor_thread

lifeVars == <<sys, subs, pipe, position, main, monitor>>

Slots == DOMAIN pipe \ {Fresh}           \* the indices of pipelines
Indices == 0..Cardinality(Symbols)       \* the indices there can ever be

ShutdownRequested == sys \in {"ShuttingDown", "Stopped"}

(* running: running_ is set.  stopping: stop() has reset it and waits for  *)
(* the gateway's thread.  busy: a tick is past the test of running_.       *)
NoPipe == [sym |-> NoSymbol, run |-> "none", busy |-> FALSE]
Created(s) == [sym |-> s, run |-> "created", busy |-> FALSE]

NotRotating == [pc |-> "sleep", idle |-> {}, pool |-> {},
                slot |-> 1, old |-> NoSymbol]

(* main() before it has created a pipeline.                                *)
LifeInit ==
  /\ sys = "Initializing"
  /\ pipe = [i \in {Fresh} |-> NoPipe]
  /\ subs = {}
  /\ position = {}
  /\ main = [pc |-> "boot", at |-> 1]
  /\ monitor = [NotRotating EXCEPT !.pc = "none"]

(* One pipeline for each symbol, created and registered in this order.     *)
CreatePipelines(active) ==
  /\ main.pc = "boot"
  /\ pipe' = [i \in {Fresh} \cup DOMAIN active |->
                IF i = Fresh THEN NoPipe ELSE Created(active[i])]
  /\ subs' = {[sym |-> active[i], started |-> FALSE] : i \in DOMAIN active}
  /\ main' = [pc |-> "init", at |-> 1]
  /\ UNCHANGED <<sys, position, monitor>>

(* main returns before it has a pipeline.                                  *)
Leave ==
  /\ main.pc = "boot"
  /\ main' = [pc |-> "done", at |-> 1]
  /\ UNCHANGED <<sys, subs, pipe, position, monitor>>

-----------------------------------------------------------------------------
(* A pipeline                                                              *)

Goto(pc, i) == main' = [pc |-> pc, at |-> i]

(* start() first loads the position the exchange reports, then configures  *)
(* the futures account, and gives up when one of these calls fails.        *)
PipelineStart(i, ok) ==
  /\ position' \in {position \cup {pipe[i].sym}, position \ {pipe[i].sym}}
  /\ pipe' = [pipe EXCEPT ![i].run = IF ok THEN "running" ELSE "failed"]

(* stop() returns at once unless it is the one that resets running_.       *)
StopFlag(i) == pipe' = [pipe EXCEPT ![i].run = IF @ = "running" THEN "stopping" ELSE @]

StopJoin(i) ==
  /\ ~pipe[i].busy
  /\ pipe' = [pipe EXCEPT ![i].run = IF @ = "stopping" THEN "stopped" ELSE @]

TickBegin(i) ==
  /\ i \in DOMAIN pipe
  /\ pipe[i].run = "running"
  /\ ~pipe[i].busy
  /\ pipe' = [pipe EXCEPT ![i].busy = TRUE]
  /\ UNCHANGED <<sys, subs, position, main, monitor>>

TickEnd(i) ==
  /\ i \in DOMAIN pipe
  /\ pipe[i].busy
  /\ pipe' = [pipe EXCEPT ![i].busy = FALSE]
  /\ position' \in {position, position \cup {pipe[i].sym}, position \ {pipe[i].sym}}
  /\ UNCHANGED <<sys, subs, main, monitor>>

(* last_activity_ns_ is 0 until start() succeeds, and then never again.    *)
MayBeIdle(i) == pipe[i].run \notin {"created", "failed"}

-----------------------------------------------------------------------------
(* Supervisor                                                              *)

(* signal_handler; it ignores a signal in any other state.                 *)
SignalHandler ==
  /\ sys \in {"Starting", "Running", "Degraded"}
  /\ sys' = "ShuttingDown"
  /\ UNCHANGED <<subs, pipe, position, main, monitor>>

enter_degraded_mode ==
  sys' = IF sys \in {"Starting", "Running"} THEN "Degraded" ELSE sys

start ==
  /\ main.pc = "init"
  /\ sys' = "Starting"
  /\ Goto("start", 1)
  /\ UNCHANGED <<subs, pipe, position, monitor>>

(* The loop of start() looks for a shutdown before every subsystem.        *)
StartNext ==
  /\ main.pc = "start"
  /\ main.at \in Slots
  /\ IF ShutdownRequested THEN Goto("launch", 1) ELSE Goto("call", main.at)
  /\ UNCHANGED <<sys, subs, pipe, position, monitor>>

StartedOk ==
  /\ main.pc = "call"
  /\ PipelineStart(main.at, TRUE)
  /\ subs' = {IF e.sym = pipe[main.at].sym THEN [e EXCEPT !.started = TRUE] ELSE e : e \in subs}
  /\ Goto("start", main.at + 1)
  /\ UNCHANGED <<sys, monitor>>

StartFailed ==
  /\ main.pc = "call"
  /\ PipelineStart(main.at, FALSE)
  /\ enter_degraded_mode
  /\ Goto("start", main.at + 1)
  /\ UNCHANGED <<subs, monitor>>

StartDone ==
  /\ main.pc = "start"
  /\ main.at \notin Slots
  /\ sys' = IF sys = "Starting" THEN "Running" ELSE sys
  /\ Goto("launch", 1)
  /\ UNCHANGED <<subs, pipe, position, monitor>>

(* stop(): every subsystem that start() has started, then the state.       *)
stop ==
  /\ main.pc = "stop"
  /\ pipe' = [i \in DOMAIN pipe |->
                IF [sym |-> pipe[i].sym, started |-> TRUE] \in subs /\ pipe[i].run = "running"
                THEN [pipe[i] EXCEPT !.run = "stopped"] ELSE pipe[i]]
  /\ subs' = {[e EXCEPT !.started = FALSE] : e \in subs}
  /\ sys' = "Stopped"
  /\ Goto("done", 1)
  /\ UNCHANGED <<position, monitor>>

-----------------------------------------------------------------------------
(* main()                                                                  *)

LaunchMonitor ==
  /\ main.pc = "launch"
  /\ monitor' = NotRotating
  /\ Goto("wait", 1)
  /\ UNCHANGED <<sys, subs, pipe, position>>

wait_for_shutdown ==
  /\ main.pc = "wait"
  /\ ShutdownRequested
  /\ Goto("join", 1)
  /\ UNCHANGED <<sys, subs, pipe, position, monitor>>

JoinMonitor ==
  /\ main.pc = "join"
  /\ monitor.pc = "exited"
  /\ Goto("rotation", 1)
  /\ UNCHANGED <<sys, subs, pipe, position, monitor>>

(* stop_rotation() waits for a scan of the scanner's own thread, whose     *)
(* results are only logged.                                                *)
JoinRotation ==
  /\ main.pc = "rotation"
  /\ Goto("stopping", 1)
  /\ UNCHANGED <<sys, subs, pipe, position, monitor>>

StopPipeline ==
  /\ main.pc = "stopping"
  /\ main.at \in Slots
  /\ StopFlag(main.at)
  /\ Goto("stopped", main.at)
  /\ UNCHANGED <<sys, subs, position, monitor>>

PipelineStopped ==
  /\ main.pc = "stopped"
  /\ StopJoin(main.at)
  /\ IF main.at + 1 \in Slots THEN Goto("stopping", main.at + 1) ELSE Goto("stop", 1)
  /\ UNCHANGED <<sys, subs, position, monitor>>

Done == main.pc = "done" /\ UNCHANGED lifeVars

-----------------------------------------------------------------------------
(* idle_monitor_thread                                                     *)

(* idle_monitor_running, which main resets before it joins the monitor.    *)
MonitorRunning == main.pc \notin {"join", "rotation", "stopping", "stopped", "stop", "done"}
ActiveSymbols == {pipe[i].sym : i \in Slots}
At(pc) == monitor' = [monitor EXCEPT !.pc = pc]

MonitorExit ==
  /\ monitor.pc = "sleep"
  /\ ~MonitorRunning
  /\ At("exited")
  /\ UNCHANGED <<sys, subs, pipe, position, main>>

(* The check for any idle pipeline without a position.                     *)
FindIdle ==
  /\ monitor.pc = "sleep"
  /\ MonitorRunning
  /\ \E i \in Slots : pipe[i].sym \notin position /\ MayBeIdle(i)
  /\ At("scan")
  /\ UNCHANGED <<sys, subs, pipe, position, main>>

(* The scan fails or finds no pair.                                        *)
ScanEmpty ==
  /\ monitor.pc = "scan"
  /\ At("sleep")
  /\ UNCHANGED <<sys, subs, pipe, position, main>>

(* Mutant: candidates are compared with the slots that are kept, at        *)
(* neither check with those that are idle too.                             *)
Rescan_KeptOnly ==
  /\ monitor.pc = "scan"
  /\ \E found \in (SUBSET Symbols) \ {{}} :
     \E idle \in SUBSET {i \in Slots : pipe[i].sym \notin position /\ MayBeIdle(i)} :
       monitor' = [monitor EXCEPT !.pc = "replace", !.idle = idle,
                                  !.pool = found \ {pipe[i].sym : i \in Slots \ idle}]
  /\ UNCHANGED <<sys, subs, pipe, position, main>>

(* The scan returns, the idle slots are looked up again, and the pairs     *)
(* that no slot holds become the candidates.  (The second look at a        *)
(* candidate before its slot is replaced cannot find it active: every      *)
(* candidate is used once.)                                                *)
Rescan ==
  /\ monitor.pc = "scan"
  /\ \E found \in (SUBSET Symbols) \ {{}} :
     \E idle \in SUBSET {i \in Slots : pipe[i].sym \notin position /\ MayBeIdle(i)} :
       monitor' = [monitor EXCEPT !.pc = "replace", !.idle = idle,
                                  !.pool = found \ ActiveSymbols]
  /\ UNCHANGED <<sys, subs, pipe, position, main>>

(* The slots are taken in their order, as long as there are candidates.    *)
IsNext(i) == i \in monitor.idle /\ (\A j \in monitor.idle : i <= j) /\ monitor.pool # {}
Slot == monitor.slot

RotationDone ==
  /\ monitor.pc = "replace"
  /\ monitor.idle = {} \/ monitor.pool = {}
  /\ monitor' = NotRotating
  /\ UNCHANGED <<sys, subs, pipe, position, main>>

(* The defensive check: the slot is skipped.                               *)
SkipHeld ==
  /\ monitor.pc = "replace"
  /\ \E i \in Slots :
       /\ IsNext(i)
       /\ pipe[i].sym \in position
       /\ monitor' = [monitor EXCEPT !.idle = @ \ {i}]
  /\ UNCHANGED <<sys, subs, pipe, position, main>>

(* unregister_subsystem follows the check.                                 *)
Unregister ==
  /\ monitor.pc = "replace"
  /\ \E i \in Slots :
       /\ IsNext(i)
       /\ pipe[i].sym \notin position
       /\ subs' = {e \in subs : e.sym # pipe[i].sym}
       /\ monitor' = [monitor EXCEPT !.pc = "stop", !.slot = i, !.old = pipe[i].sym]
  /\ UNCHANGED <<sys, pipe, position, main>>

MonitorStop ==
  /\ monitor.pc = "stop"
  /\ StopFlag(Slot)
  /\ At("stopped")
  /\ UNCHANGED <<sys, subs, position, main>>

MonitorStopped ==
  /\ monitor.pc = "stopped"
  /\ StopJoin(Slot)
  /\ At("create")
  /\ UNCHANGED <<sys, subs, position, main>>

Create ==
  /\ monitor.pc = "create"
  /\ \E new \in monitor.pool :
       /\ pipe' = [pipe EXCEPT ![Fresh] = Created(new)]
       /\ monitor' = [monitor EXCEPT !.pc = "start", !.pool = @ \ {new}]
  /\ UNCHANGED <<sys, subs, position, main>>

(* The result of start() is not looked at.                                 *)
StartFresh ==
  /\ monitor.pc = "start"
  /\ \E ok \in BOOLEAN : PipelineStart(Fresh, ok)
  /\ At("register")
  /\ UNCHANGED <<sys, subs, main>>

Register ==
  /\ monitor.pc = "register"
  /\ subs' = subs \cup {[sym |-> pipe[Fresh].sym, started |-> FALSE]}
  /\ At("assign")
  /\ UNCHANGED <<sys, pipe, position, main>>

Assign ==
  /\ monitor.pc = "assign"
  /\ pipe' = [pipe EXCEPT ![Slot] = pipe[Fresh], ![Fresh] = NoPipe]
  /\ monitor' = [monitor EXCEPT !.pc = "replace", !.idle = @ \ {Slot},
                                  !.slot = 1, !.old = NoSymbol]
  /\ UNCHANGED <<sys, subs, position, main>>

-----------------------------------------------------------------------------
MainStep ==
  \/ start \/ StartNext \/ StartedOk \/ StartFailed \/ StartDone
  \/ LaunchMonitor \/ wait_for_shutdown \/ JoinMonitor \/ JoinRotation
  \/ StopPipeline \/ PipelineStopped \/ stop
MonitorProgress ==
  \/ MonitorExit \/ ScanEmpty \/ Rescan \/ RotationDone \/ SkipHeld
  \/ Unregister \/ MonitorStop \/ MonitorStopped \/ Create \/ StartFresh
  \/ Register \/ Assign
Tick(i) == TickBegin(i) \/ TickEnd(i)

-----------------------------------------------------------------------------
(* No two pipelines ever trade the same symbol, also while the monitor     *)
(* replaces several slots and the pipelines it replaces still tick: each   *)
(* would take the shared portfolio's position for its own.                 *)
OnePipelinePerSymbol ==
  \A i, j \in DOMAIN pipe :
    i # j /\ pipe[i].run # "none" /\ pipe[j].run # "none" => pipe[i].sym # pipe[j].sym
=============================================================================
