--------------------------- MODULE ProcessProofs ---------------------------
(***************************************************************************)
(* The process and what runs beside the ticks, for every market, every     *)
(* answer of the exchange, every number of workers and of callers.         *)
(*                                                                         *)
(* Startup.  StartInv says what the scanner holds while it works: pairs of *)
(* one market of the exchange that passed its prefilter, and at the end a  *)
(* basket of that market.  That a basket is spread over the sectors is an  *)
(* argument about places in the ranking: a set of places each of which has *)
(* fewer than n before it has at most n, the last of them shows (Limited). *)
(*                                                                         *)
(* Pipelines.  OnePipelinePerSymbol is not inductive: the symbol the       *)
(* rotation is about to use must be known to be free as well.  LifeInv     *)
(* says so of the pool and of the pipeline between its creation and its    *)
(* assignment; ListsSound brings the same from the scan, the positions of  *)
(* the exchange and the filter to the first pipelines.                     *)
(*                                                                         *)
(* Tasks.  OneJobPerFlag is inductive with the types of the queue and of   *)
(* the workers.                                                            *)
(*                                                                         *)
(* Breaker.  HalfOpenIsDecided is inductive with the types: only           *)
(* AllowExchange half-opens the breaker, and its caller is then deciding;  *)
(* a deciding caller that records its result finds HalfOpen and goes on to *)
(* change it.                                                              *)
(***************************************************************************)
EXTENDS AppStartup, Background, FiniteSetTheorems, SequenceTheorems,
        WellFoundedInduction, TLAPS

-----------------------------------------------------------------------------
(* The pipelines and the idle monitor                                      *)

Rotating == {"replace", "stop", "stopped", "create", "start", "register", "assign"}
WithSlot == Rotating \ {"replace"}
WithFresh == {"start", "register", "assign"}

Pipes == [sym: Symbols \cup {NoSymbol}, busy: BOOLEAN,
          run: {"none", "created", "running", "failed", "stopping", "stopped"}]
MainPcs == {"boot", "init", "start", "call", "launch", "wait", "join", "rotation",
            "stopping", "stopped", "stop", "done"}
MonitorPcs == {"none", "sleep", "scan", "exited"} \cup Rotating

LifeTypes ==
  /\ DOMAIN pipe \subseteq Nat /\ Fresh \in DOMAIN pipe
  /\ pipe \in [DOMAIN pipe -> Pipes]
  /\ main \in [pc: MainPcs, at: Nat]
  /\ monitor \in [pc: MonitorPcs, idle: SUBSET Nat, pool: SUBSET Symbols,
                  slot: Nat, old: Symbols \cup {NoSymbol}]

(* The slots hold pairs of their own, and so do the pairs the rotation is  *)
(* still to use and the pipeline it has made.                              *)
SlotsDiffer == \A i, j \in Slots : i # j => pipe[i].sym # pipe[j].sym
PoolIsFree == monitor.pc \in Rotating => monitor.pool \cap ActiveSymbols = {}
FreshIsFree ==
  IF monitor.pc \in WithFresh
  THEN pipe[Fresh].sym \notin ActiveSymbols \cup monitor.pool
  ELSE pipe[Fresh].run = "none"
PlacesAreSlots ==
  /\ monitor.pc \in WithSlot => Slot \in Slots
  /\ main.pc \in {"call", "stopped"} => main.at \in Slots
  /\ main.pc \in {"boot", "init", "start", "call", "launch"} => monitor.pc = "none"

LifeInv == LifeTypes /\ SlotsDiffer /\ PoolIsFree /\ FreshIsFree /\ PlacesAreSlots

(* A pipeline that changes its run state or its tick, and nothing else,    *)
(* leaves the symbols where they are.                                      *)
LEMMA PipeChange ==
  ASSUME LifeTypes, NEW i \in DOMAIN pipe, NEW q \in Pipes, q.sym = pipe[i].sym,
         pipe' = [pipe EXCEPT ![i] = q]
  PROVE  /\ DOMAIN pipe' = DOMAIN pipe /\ Slots' = Slots
         /\ pipe' \in [DOMAIN pipe -> Pipes]
         /\ ActiveSymbols' = ActiveSymbols
         /\ SlotsDiffer => SlotsDiffer'
         /\ pipe'[Fresh].sym = pipe[Fresh].sym
         /\ i # Fresh => pipe'[Fresh] = pipe[Fresh]
<1>1. DOMAIN pipe' = DOMAIN pipe /\ Slots' = Slots
  BY DEF Slots, LifeTypes
<1>2. \A j \in DOMAIN pipe : pipe'[j] = IF j = i THEN q ELSE pipe[j]
  BY DEF LifeTypes
<1>3. \A j \in DOMAIN pipe : pipe'[j].sym = pipe[j].sym
  BY <1>2
<1>4. pipe' \in [DOMAIN pipe -> Pipes]
  BY DEF LifeTypes
<1>5. ActiveSymbols' = ActiveSymbols
  BY <1>1, <1>3 DEF ActiveSymbols, Slots
<1>6. SlotsDiffer => SlotsDiffer'
  BY <1>1, <1>3 DEF SlotsDiffer, Slots
<1> QED
  BY <1>1, <1>2, <1>3, <1>4, <1>5, <1>6 DEF LifeTypes

(* A new run state or tick keeps the type and the symbol of a pipeline.    *)
LEMMA PipeFields ==
  ASSUME LifeTypes, NEW i \in DOMAIN pipe,
         NEW r \in {"none", "created", "running", "failed", "stopping", "stopped"},
         NEW b \in BOOLEAN
  PROVE  /\ [pipe[i] EXCEPT !.run = r] \in Pipes
         /\ [pipe[i] EXCEPT !.run = r].sym = pipe[i].sym
         /\ [pipe[i] EXCEPT !.run = r].run = r
         /\ [pipe[i] EXCEPT !.busy = b] \in Pipes
         /\ [pipe[i] EXCEPT !.busy = b].sym = pipe[i].sym
         /\ [pipe[i] EXCEPT !.busy = b].run = pipe[i].run
BY DEF LifeTypes, Pipes

(* Nothing about the pipelines changes: what a step of main, or of the     *)
(* monitor, has to leave intact.                                           *)
LEMMA PipesUnchanged ==
  ASSUME LifeInv, UNCHANGED pipe, LifeTypes',
         monitor'.pc \in Rotating => monitor'.pool \cap ActiveSymbols = {},
         monitor'.pc \in WithFresh <=> monitor.pc \in WithFresh,
         monitor'.pc \in WithFresh => monitor'.pool = monitor.pool,
         PlacesAreSlots'
  PROVE  LifeInv'
<1>1. Slots' = Slots /\ ActiveSymbols' = ActiveSymbols
  BY DEF Slots, ActiveSymbols
<1>2. SlotsDiffer'
  BY <1>1 DEF LifeInv, SlotsDiffer
<1>3. PoolIsFree' /\ FreshIsFree'
  BY <1>1 DEF LifeInv, PoolIsFree, FreshIsFree
<1> QED
  BY <1>2, <1>3 DEF LifeInv

(* main goes on, while the pipelines and the monitor stay as they are.     *)
LEMMA MainMoves ==
  ASSUME LifeInv, NEW pc \in MainPcs, NEW i \in Nat, Goto(pc, i),
         UNCHANGED <<pipe, monitor>>,
         pc \in {"call", "stopped"} => i \in Slots,
         pc \in {"boot", "init", "start", "call", "launch"} =>
           main.pc \in {"boot", "init", "start", "call", "launch"}
  PROVE  LifeInv'
<1>1. main' \in [pc: MainPcs, at: Nat] /\ main'.pc = pc /\ main'.at = i
  BY DEF Goto
<1>2. PlacesAreSlots'
  BY <1>1 DEF LifeInv, PlacesAreSlots, Slots, Slot
<1>3. LifeTypes'
  BY <1>1 DEF LifeInv, LifeTypes
<1>4. monitor' = monitor
  OBVIOUS
<1> QED
  BY <1>2, <1>3, <1>4, PipesUnchanged DEF LifeInv, PoolIsFree

(* The pipeline of a slot changes, and main or the monitor goes on.        *)
LEMMA SlotPipeChanges ==
  ASSUME LifeInv, NEW i \in Slots, NEW q \in Pipes, q.sym = pipe[i].sym,
         pipe' = [pipe EXCEPT ![i] = q],
         main' \in [pc: MainPcs, at: Nat], UNCHANGED monitor,
         main'.pc \in {"call", "stopped"} => main'.at \in Slots,
         main'.pc \in {"boot", "init", "start", "call", "launch"} =>
           main.pc \in {"boot", "init", "start", "call", "launch"}
  PROVE  LifeInv'
<1>1. i \in DOMAIN pipe /\ i # Fresh /\ LifeTypes
  BY DEF Slots, LifeInv
<1>2. /\ DOMAIN pipe' = DOMAIN pipe /\ Slots' = Slots
      /\ pipe' \in [DOMAIN pipe -> Pipes]
      /\ ActiveSymbols' = ActiveSymbols
      /\ SlotsDiffer => SlotsDiffer'
      /\ pipe'[Fresh] = pipe[Fresh]
  BY <1>1, PipeChange
<1>3. LifeTypes'
  BY <1>2 DEF LifeInv, LifeTypes
<1>4. PoolIsFree' /\ FreshIsFree'
  BY <1>2 DEF LifeInv, PoolIsFree, FreshIsFree
<1>5. PlacesAreSlots'
  BY <1>2 DEF LifeInv, PlacesAreSlots, Slot
<1> QED
  BY <1>2, <1>3, <1>4, <1>5 DEF LifeInv

(* The supervisor and main: the loops that start and stop the pipelines.   *)
LEMMA MainKeepsLife ==
  ASSUME LifeInv, MainStep
  PROVE  LifeInv'
<1> USE DEF MainPcs
<1>1. CASE start
  BY <1>1, MainMoves DEF start
<1>2. CASE StartNext
  <2>1. main.at \in Nat
    BY DEF LifeInv, LifeTypes
  <2> QED
    BY <1>2, <2>1, MainMoves DEF StartNext
<1>3. ASSUME NEW ok \in BOOLEAN, main.pc = "call", PipelineStart(main.at, ok),
             Goto("start", main.at + 1), UNCHANGED monitor
      PROVE  LifeInv'
  <2>1. main.at \in Slots /\ main.at \in DOMAIN pipe /\ main.at # Fresh /\ main.at \in Nat
    BY <1>3 DEF LifeInv, LifeTypes, PlacesAreSlots, Slots
  <2> DEFINE q == [pipe[main.at] EXCEPT !.run = IF ok THEN "running" ELSE "failed"]
  <2>2. pipe' = [pipe EXCEPT ![main.at] = q]
    BY <1>3 DEF PipelineStart
  <2>3. q \in Pipes /\ q.sym = pipe[main.at].sym
    <3> DEFINE r == IF ok THEN "running" ELSE "failed"
    <3>1. r \in {"none", "created", "running", "failed", "stopping", "stopped"}
      OBVIOUS
    <3> HIDE DEF r
    <3> QED
      BY <2>1, <3>1, PipeFields DEF LifeInv, r
  <2>4. main' \in [pc: MainPcs, at: Nat] /\ main'.pc = "start"
    BY <1>3, <2>1 DEF Goto
  <2> QED
    BY <1>3, <2>1, <2>2, <2>3, <2>4, SlotPipeChanges
<1>4. CASE StartedOk \/ StartFailed
  BY <1>3, <1>4 DEF StartedOk, StartFailed
<1>5. CASE StartDone
  BY <1>5, MainMoves DEF StartDone
<1>6. CASE LaunchMonitor
  <2>1. main' \in [pc: MainPcs, at: Nat] /\ main'.pc = "wait"
    BY <1>6 DEF LaunchMonitor, Goto
  <2>2. monitor' = NotRotating /\ monitor.pc = "none"
    BY <1>6 DEF LaunchMonitor, LifeInv, PlacesAreSlots
  <2>3. LifeTypes'
    BY <1>6, <2>1, <2>2 DEF LaunchMonitor, NotRotating, LifeInv, LifeTypes, MonitorPcs
  <2> QED
    BY <1>6, <2>1, <2>2, <2>3, PipesUnchanged
       DEF LaunchMonitor, NotRotating, PlacesAreSlots, Rotating, WithSlot, WithFresh
<1>7. CASE wait_for_shutdown \/ JoinMonitor \/ JoinRotation
  BY <1>7, MainMoves DEF wait_for_shutdown, JoinMonitor, JoinRotation
<1>8. CASE StopPipeline
  <2>1. main.at \in Slots /\ main.at \in DOMAIN pipe /\ main.at # Fresh /\ main.at \in Nat
    BY <1>8 DEF StopPipeline, LifeInv, LifeTypes, Slots
  <2> DEFINE r == IF pipe[main.at].run = "running" THEN "stopping" ELSE pipe[main.at].run
             q == [pipe[main.at] EXCEPT !.run = r]
  <2>2. pipe' = [pipe EXCEPT ![main.at] = q]
    BY <1>8 DEF StopPipeline, StopFlag
  <2>3. q \in Pipes /\ q.sym = pipe[main.at].sym
    <3>1. r \in {"none", "created", "running", "failed", "stopping", "stopped"}
      BY <2>1 DEF LifeInv, LifeTypes, Pipes
    <3> QED
      BY <2>1, <3>1, PipeFields DEF LifeInv
  <2>4. main' \in [pc: MainPcs, at: Nat] /\ main'.pc = "stopped" /\ main'.at = main.at
    BY <1>8, <2>1 DEF StopPipeline, Goto
  <2> QED
    BY <1>8, <2>1, <2>2, <2>3, <2>4, SlotPipeChanges DEF StopPipeline
<1>9. CASE PipelineStopped
  <2>1. main.at \in Slots /\ main.at \in DOMAIN pipe /\ main.at # Fresh /\ main.at \in Nat
    BY <1>9 DEF PipelineStopped, LifeInv, LifeTypes, PlacesAreSlots, Slots
  <2> DEFINE r == IF pipe[main.at].run = "stopping" THEN "stopped" ELSE pipe[main.at].run
             q == [pipe[main.at] EXCEPT !.run = r]
  <2>2. pipe' = [pipe EXCEPT ![main.at] = q]
    BY <1>9 DEF PipelineStopped, StopJoin
  <2>3. q \in Pipes /\ q.sym = pipe[main.at].sym
    <3>1. r \in {"none", "created", "running", "failed", "stopping", "stopped"}
      BY <2>1 DEF LifeInv, LifeTypes, Pipes
    <3> QED
      BY <2>1, <3>1, PipeFields DEF LifeInv
  <2>4. main' \in [pc: MainPcs, at: Nat] /\ main'.pc \in {"stopping", "stop"}
    BY <1>9, <2>1 DEF PipelineStopped, Goto
  <2> QED
    BY <1>9, <2>1, <2>2, <2>3, <2>4, SlotPipeChanges DEF PipelineStopped
<1>10. CASE stop
  <2>1. DOMAIN pipe' = DOMAIN pipe /\ Slots' = Slots
    BY <1>10 DEF stop, Slots
  <2>2. \A i \in DOMAIN pipe : /\ pipe'[i] \in Pipes /\ pipe'[i].sym = pipe[i].sym
                               /\ pipe[i].run = "none" => pipe'[i].run = "none"
    <3> TAKE i \in DOMAIN pipe
    <3>1. /\ [pipe[i] EXCEPT !.run = "stopped"] \in Pipes
          /\ [pipe[i] EXCEPT !.run = "stopped"].sym = pipe[i].sym
      BY PipeFields DEF LifeInv
    <3>2. pipe[i] \in Pipes
      BY DEF LifeInv, LifeTypes
    <3> QED
      BY <1>10, <3>1, <3>2 DEF stop
  <2>3. pipe' \in [DOMAIN pipe -> Pipes]
    BY <1>10, <2>1, <2>2 DEF stop
  <2>4. ActiveSymbols' = ActiveSymbols
    BY <2>1, <2>2 DEF ActiveSymbols, Slots
  <2>5. main' \in [pc: MainPcs, at: Nat] /\ main'.pc = "done"
    BY <1>10 DEF stop, Goto
  <2>6. SlotsDiffer'
    BY <2>1, <2>2 DEF LifeInv, SlotsDiffer, Slots
  <2>7. LifeTypes'
    BY <1>10, <2>1, <2>3, <2>5 DEF stop, LifeInv, LifeTypes
  <2>8. PoolIsFree' /\ FreshIsFree'
    BY <1>10, <2>2, <2>4 DEF stop, LifeInv, LifeTypes, PoolIsFree, FreshIsFree
  <2>9. PlacesAreSlots'
    BY <1>10, <2>1, <2>5 DEF stop, LifeInv, PlacesAreSlots, Slot
  <2> QED
    BY <2>6, <2>7, <2>8, <2>9 DEF LifeInv
<1> QED
  BY <1>1, <1>2, <1>4, <1>5, <1>6, <1>7, <1>8, <1>9, <1>10 DEF MainStep

(* The monitor's program counter alone moves.                              *)
LEMMA MonitorAt ==
  ASSUME LifeInv, NEW pc \in MonitorPcs, At(pc)
  PROVE  /\ monitor'.pc = pc /\ monitor'.pool = monitor.pool /\ Slot' = Slot
         /\ monitor' \in [pc: MonitorPcs, idle: SUBSET Nat, pool: SUBSET Symbols,
                          slot: Nat, old: Symbols \cup {NoSymbol}]
BY DEF LifeInv, LifeTypes, At, Slot

(* The monitor stops the pipeline of its slot, or waits for its end.       *)
LEMMA MonitorStopsSlot ==
  ASSUME LifeInv, MonitorStop \/ MonitorStopped
  PROVE  LifeInv'
<1>1. Slot \in Slots /\ Slot \in DOMAIN pipe /\ Slot # Fresh /\ LifeTypes
  BY DEF MonitorStop, MonitorStopped, LifeInv, PlacesAreSlots, Rotating, WithSlot, Slots
<1>2. PICK r \in {"none", "created", "running", "failed", "stopping", "stopped"} :
        pipe' = [pipe EXCEPT ![Slot] = [pipe[Slot] EXCEPT !.run = r]]
  <2> DEFINE r1 == IF pipe[Slot].run = "running" THEN "stopping" ELSE pipe[Slot].run
             r2 == IF pipe[Slot].run = "stopping" THEN "stopped" ELSE pipe[Slot].run
  <2>1. /\ r1 \in {"none", "created", "running", "failed", "stopping", "stopped"}
        /\ r2 \in {"none", "created", "running", "failed", "stopping", "stopped"}
    BY <1>1 DEF LifeTypes, Pipes
  <2>2. \/ pipe' = [pipe EXCEPT ![Slot] = [pipe[Slot] EXCEPT !.run = r1]]
        \/ pipe' = [pipe EXCEPT ![Slot] = [pipe[Slot] EXCEPT !.run = r2]]
    BY DEF MonitorStop, MonitorStopped, StopFlag, StopJoin
  <2> HIDE DEF r1, r2
  <2> QED
    BY <2>1, <2>2
<1> DEFINE q == [pipe[Slot] EXCEPT !.run = r]
<1>3. q \in Pipes /\ q.sym = pipe[Slot].sym /\ pipe' = [pipe EXCEPT ![Slot] = q]
  BY <1>1, <1>2, PipeFields
<1> HIDE DEF q
<1>4. /\ DOMAIN pipe' = DOMAIN pipe /\ Slots' = Slots
      /\ pipe' \in [DOMAIN pipe -> Pipes]
      /\ ActiveSymbols' = ActiveSymbols
      /\ SlotsDiffer => SlotsDiffer'
      /\ pipe'[Fresh] = pipe[Fresh]
  BY <1>1, <1>3, PipeChange
<1>5. PICK pc \in {"stopped", "create"} : At(pc)
  BY DEF MonitorStop, MonitorStopped
<1>6. /\ monitor'.pc \in {"stopped", "create"} /\ monitor'.pool = monitor.pool /\ Slot' = Slot
      /\ monitor' \in [pc: MonitorPcs, idle: SUBSET Nat, pool: SUBSET Symbols,
                       slot: Nat, old: Symbols \cup {NoSymbol}]
  BY <1>5, MonitorAt DEF MonitorPcs, Rotating
<1>7. monitor.pc \in {"stop", "stopped"} /\ main' = main
  BY DEF MonitorStop, MonitorStopped
<1>8. LifeTypes'
  BY <1>4, <1>6, <1>7 DEF LifeTypes, LifeInv
<1>9. PoolIsFree' /\ FreshIsFree'
  BY <1>4, <1>6, <1>7 DEF LifeInv, PoolIsFree, FreshIsFree, Rotating, WithFresh
<1>10. PlacesAreSlots'
  BY <1>1, <1>4, <1>6, <1>7 DEF LifeInv, PlacesAreSlots
<1> QED
  BY <1>4, <1>8, <1>9, <1>10 DEF LifeInv

(* The steps of the monitor that leave the pipelines alone: its sleep, its *)
(* scan, the choice of the next slot, and the entries of the supervisor.   *)
LEMMA MonitorLooks ==
  ASSUME LifeInv,
         \/ MonitorExit \/ FindIdle \/ ScanEmpty \/ Rescan \/ RotationDone
         \/ SkipHeld \/ Unregister \/ Register
  PROVE  LifeInv'
<1> USE DEF MonitorPcs, Rotating, WithSlot, WithFresh
<1>1. UNCHANGED pipe /\ main' = main /\ Slots' = Slots
  BY DEF MonitorExit, FindIdle, ScanEmpty, Rescan, RotationDone, SkipHeld,
         Unregister, Register, Slots
<1>2. ASSUME NEW pc \in {"exited", "scan", "sleep", "assign"}, At(pc), main' = main,
             \/ monitor.pc \in {"sleep", "scan"} /\ pc # "assign"
             \/ monitor.pc = "register" /\ pc = "assign"
      PROVE  LifeInv'
  <2>1. /\ monitor'.pc = pc /\ monitor'.pool = monitor.pool /\ Slot' = Slot
        /\ monitor' \in [pc: MonitorPcs, idle: SUBSET Nat, pool: SUBSET Symbols,
                         slot: Nat, old: Symbols \cup {NoSymbol}]
    BY <1>2, MonitorAt
  <2>2. LifeTypes'
    BY <1>1, <2>1 DEF LifeInv, LifeTypes
  <2>3. PlacesAreSlots'
    BY <1>1, <1>2, <2>1 DEF LifeInv, PlacesAreSlots
  <2>4. monitor'.pc \in Rotating => monitor'.pool \cap ActiveSymbols = {}
    BY <1>2, <2>1 DEF LifeInv, PoolIsFree
  <2> QED
    BY <1>1, <1>2, <2>1, <2>2, <2>3, <2>4, PipesUnchanged
<1>3. CASE MonitorExit \/ FindIdle \/ ScanEmpty \/ Register
  BY <1>2, <1>3 DEF MonitorExit, FindIdle, ScanEmpty, Register
<1>4. CASE Rescan
  <2>1. PICK found \in SUBSET Symbols, idle \in SUBSET Slots :
          monitor' = [monitor EXCEPT !.pc = "replace", !.idle = idle,
                                     !.pool = found \ ActiveSymbols]
    BY <1>4 DEF Rescan
  <2>2. /\ monitor'.pc = "replace" /\ monitor'.pool = found \ ActiveSymbols
        /\ monitor' \in [pc: MonitorPcs, idle: SUBSET Nat, pool: SUBSET Symbols,
                         slot: Nat, old: Symbols \cup {NoSymbol}]
    BY <2>1 DEF LifeInv, LifeTypes, Slots
  <2>3. LifeTypes'
    BY <1>1, <2>2 DEF LifeInv, LifeTypes
  <2>4. PlacesAreSlots'
    BY <1>1, <1>4, <2>2 DEF Rescan, LifeInv, PlacesAreSlots
  <2> QED
    BY <1>1, <1>4, <2>2, <2>3, <2>4, PipesUnchanged DEF Rescan
<1>5. CASE RotationDone
  <2>1. monitor' = NotRotating /\ monitor'.pc = "sleep" /\ monitor.pc = "replace"
    BY <1>5 DEF RotationDone, NotRotating
  <2>2. LifeTypes'
    BY <1>1, <2>1 DEF NotRotating, LifeInv, LifeTypes
  <2>3. PlacesAreSlots'
    BY <1>1, <2>1 DEF LifeInv, PlacesAreSlots
  <2> QED
    BY <1>1, <2>1, <2>2, <2>3, PipesUnchanged
<1>6. CASE SkipHeld
  <2>1. PICK i \in Slots : monitor' = [monitor EXCEPT !.idle = @ \ {i}]
    BY <1>6 DEF SkipHeld
  <2>2. /\ monitor'.pc = "replace" /\ monitor.pc = "replace" /\ monitor'.pool = monitor.pool
        /\ monitor' \in [pc: MonitorPcs, idle: SUBSET Nat, pool: SUBSET Symbols,
                         slot: Nat, old: Symbols \cup {NoSymbol}]
    BY <1>6, <2>1 DEF SkipHeld, LifeInv, LifeTypes
  <2>3. LifeTypes'
    BY <1>1, <2>2 DEF LifeInv, LifeTypes
  <2>4. PlacesAreSlots'
    BY <1>1, <2>2 DEF LifeInv, PlacesAreSlots
  <2>5. monitor.pool \cap ActiveSymbols = {}
    BY <2>2 DEF LifeInv, PoolIsFree
  <2> QED
    BY <1>1, <2>2, <2>3, <2>4, <2>5, PipesUnchanged
<1>7. CASE Unregister
  <2>1. PICK i \in Slots :
          monitor' = [monitor EXCEPT !.pc = "stop", !.slot = i, !.old = pipe[i].sym]
    BY <1>7 DEF Unregister
  <2>2. i \in Nat /\ pipe[i].sym \in Symbols \cup {NoSymbol}
    BY DEF Slots, LifeInv, LifeTypes, Pipes
  <2>3. /\ monitor'.pc = "stop" /\ monitor.pc = "replace" /\ monitor'.pool = monitor.pool
        /\ Slot' \in Slots
        /\ monitor' \in [pc: MonitorPcs, idle: SUBSET Nat, pool: SUBSET Symbols,
                         slot: Nat, old: Symbols \cup {NoSymbol}]
    BY <1>7, <2>1, <2>2 DEF Unregister, LifeInv, LifeTypes, Slot
  <2>4. LifeTypes'
    BY <1>1, <2>3 DEF LifeInv, LifeTypes
  <2>5. PlacesAreSlots'
    BY <1>1, <2>3 DEF LifeInv, PlacesAreSlots
  <2>6. monitor.pool \cap ActiveSymbols = {}
    BY <2>3 DEF LifeInv, PoolIsFree
  <2> QED
    BY <1>1, <2>3, <2>4, <2>5, <2>6, PipesUnchanged
<1> QED
  BY <1>3, <1>4, <1>5, <1>6, <1>7

(* The new pipeline takes a pair from the pool, which no slot holds.       *)
LEMMA CreateKeepsLife ==
  ASSUME LifeInv, Create
  PROVE  LifeInv'
<1>1. PICK new \in monitor.pool :
        /\ pipe' = [pipe EXCEPT ![Fresh] = Created(new)]
        /\ monitor' = [monitor EXCEPT !.pc = "start", !.pool = @ \ {new}]
  BY DEF Create
<1>2. /\ monitor.pc = "create" /\ main' = main
      /\ Fresh \in DOMAIN pipe /\ new \in Symbols
      /\ monitor.pool \cap ActiveSymbols = {}
  BY DEF Create, LifeInv, LifeTypes, PoolIsFree, Rotating
<1>3. /\ DOMAIN pipe' = DOMAIN pipe /\ Slots' = Slots
      /\ pipe'[Fresh] = Created(new)
      /\ \A i \in Slots : pipe'[i] = pipe[i]
  BY <1>1, <1>2 DEF Slots, LifeInv, LifeTypes
<1>4. Created(new) \in Pipes /\ Created(new).sym = new
  BY <1>2 DEF Created, Pipes
<1>5. /\ monitor'.pc = "start" /\ monitor'.pool = monitor.pool \ {new} /\ Slot' = Slot
      /\ monitor' \in [pc: MonitorPcs, idle: SUBSET Nat, pool: SUBSET Symbols,
                       slot: Nat, old: Symbols \cup {NoSymbol}]
  BY <1>1 DEF LifeInv, LifeTypes, MonitorPcs, Rotating, Slot
<1>6. LifeTypes'
  BY <1>1, <1>2, <1>3, <1>4, <1>5 DEF LifeInv, LifeTypes
<1>7. ActiveSymbols' = ActiveSymbols /\ SlotsDiffer'
  BY <1>3 DEF ActiveSymbols, LifeInv, SlotsDiffer
<1>8. PoolIsFree' /\ FreshIsFree'
  BY <1>2, <1>3, <1>4, <1>5, <1>7 DEF PoolIsFree, FreshIsFree, WithFresh
<1>9. PlacesAreSlots'
  BY <1>2, <1>3, <1>5 DEF LifeInv, PlacesAreSlots, Rotating, WithSlot
<1> QED
  BY <1>6, <1>7, <1>8, <1>9 DEF LifeInv

(* start() of the new pipeline, whether it succeeds or not.                *)
LEMMA StartFreshKeepsLife ==
  ASSUME LifeInv, StartFresh
  PROVE  LifeInv'
<1>1. PICK ok \in BOOLEAN : PipelineStart(Fresh, ok)
  BY DEF StartFresh
<1> DEFINE r == IF ok THEN "running" ELSE "failed"
           q == [pipe[Fresh] EXCEPT !.run = r]
<1>2. LifeTypes /\ Fresh \in DOMAIN pipe
  BY DEF LifeInv, LifeTypes
<1>3. r \in {"none", "created", "running", "failed", "stopping", "stopped"}
  OBVIOUS
<1>4. pipe' = [pipe EXCEPT ![Fresh] = q]
  BY <1>1 DEF PipelineStart
<1> HIDE DEF r
<1>5. q \in Pipes /\ q.sym = pipe[Fresh].sym
  BY <1>2, <1>3, PipeFields
<1> HIDE DEF q
<1>6. /\ DOMAIN pipe' = DOMAIN pipe /\ Slots' = Slots
      /\ pipe' \in [DOMAIN pipe -> Pipes]
      /\ ActiveSymbols' = ActiveSymbols
      /\ SlotsDiffer => SlotsDiffer'
      /\ pipe'[Fresh].sym = pipe[Fresh].sym
  BY <1>2, <1>4, <1>5, PipeChange
<1>7. monitor.pc = "start" /\ main' = main /\ At("register")
  BY DEF StartFresh
<1>8. /\ monitor'.pc = "register" /\ monitor'.pool = monitor.pool /\ Slot' = Slot
      /\ monitor' \in [pc: MonitorPcs, idle: SUBSET Nat, pool: SUBSET Symbols,
                       slot: Nat, old: Symbols \cup {NoSymbol}]
  BY <1>7, MonitorAt DEF MonitorPcs, Rotating
<1>9. LifeTypes'
  BY <1>6, <1>7, <1>8 DEF LifeInv, LifeTypes
<1>10. PoolIsFree' /\ FreshIsFree'
  BY <1>6, <1>7, <1>8 DEF LifeInv, PoolIsFree, FreshIsFree, Rotating, WithFresh
<1>11. PlacesAreSlots'
  BY <1>6, <1>7, <1>8 DEF LifeInv, PlacesAreSlots, Rotating, WithSlot
<1> QED
  BY <1>6, <1>9, <1>10, <1>11 DEF LifeInv

(* The new pipeline replaces that of the slot: its pair is neither in      *)
(* another slot nor left in the pool.                                      *)
LEMMA AssignKeepsLife ==
  ASSUME LifeInv, Assign
  PROVE  LifeInv'
<1>1. /\ Slot \in Slots /\ Slot \in DOMAIN pipe /\ Slot # Fresh
      /\ Fresh \in DOMAIN pipe /\ main' = main /\ monitor.pc = "assign"
  BY DEF Assign, LifeInv, LifeTypes, PlacesAreSlots, Rotating, WithSlot, Slots
<1>2. /\ DOMAIN pipe' = DOMAIN pipe /\ Slots' = Slots
      /\ pipe'[Fresh] = NoPipe /\ pipe'[Slot] = pipe[Fresh]
      /\ \A i \in Slots \ {Slot} : pipe'[i] = pipe[i]
  BY <1>1 DEF Assign, Slots, LifeInv, LifeTypes
<1>3. /\ pipe[Fresh].sym \notin ActiveSymbols /\ pipe[Fresh].sym \notin monitor.pool
      /\ monitor.pool \cap ActiveSymbols = {}
  BY <1>1 DEF LifeInv, FreshIsFree, PoolIsFree, Rotating, WithFresh
<1>4. /\ monitor'.pc = "replace" /\ monitor'.pool = monitor.pool
      /\ monitor' \in [pc: MonitorPcs, idle: SUBSET Nat, pool: SUBSET Symbols,
                       slot: Nat, old: Symbols \cup {NoSymbol}]
  BY DEF Assign, LifeInv, LifeTypes, MonitorPcs, Rotating
<1>5. NoPipe \in Pipes /\ NoPipe.run = "none"
  BY DEF NoPipe, Pipes
<1>6. pipe' \in [DOMAIN pipe -> Pipes]
  BY <1>1, <1>5 DEF Assign, LifeInv, LifeTypes
<1>7. LifeTypes'
  BY <1>1, <1>2, <1>4, <1>6 DEF LifeInv, LifeTypes
<1>8. SlotsDiffer'
  <2> SUFFICES ASSUME NEW i \in Slots, NEW j \in Slots, i # j
               PROVE  pipe'[i].sym # pipe'[j].sym
    BY <1>2 DEF SlotsDiffer
  <2>1. pipe[i].sym # pipe[j].sym /\ {pipe[i].sym, pipe[j].sym} \subseteq ActiveSymbols
    BY DEF LifeInv, SlotsDiffer, ActiveSymbols
  <2> QED
    BY <1>2, <1>3, <2>1
<1>9. PoolIsFree'
  <2>1. ActiveSymbols' \subseteq ActiveSymbols \cup {pipe[Fresh].sym}
    BY <1>2 DEF ActiveSymbols
  <2> QED
    BY <1>3, <1>4, <2>1 DEF PoolIsFree
<1>10. FreshIsFree' /\ PlacesAreSlots'
  BY <1>1, <1>2, <1>4, <1>5
     DEF FreshIsFree, PlacesAreSlots, LifeInv, Rotating, WithSlot, WithFresh
<1> QED
  BY <1>7, <1>8, <1>9, <1>10 DEF LifeInv

(* A tick begins or ends on any pipeline, also on the new one.             *)
LEMMA TickKeepsLife ==
  ASSUME LifeInv, NEW i \in Indices, Tick(i)
  PROVE  LifeInv'
<1>1. i \in DOMAIN pipe /\ LifeTypes /\ main' = main /\ monitor' = monitor
  BY DEF Tick, TickBegin, TickEnd, LifeInv
<1>2. PICK b \in BOOLEAN : pipe' = [pipe EXCEPT ![i] = [pipe[i] EXCEPT !.busy = b]]
  BY DEF Tick, TickBegin, TickEnd
<1> DEFINE q == [pipe[i] EXCEPT !.busy = b]
<1>3. /\ q \in Pipes /\ q.sym = pipe[i].sym /\ q.run = pipe[i].run
      /\ pipe' = [pipe EXCEPT ![i] = q]
  BY <1>1, <1>2, PipeFields
<1> HIDE DEF q
<1>4. /\ DOMAIN pipe' = DOMAIN pipe /\ Slots' = Slots
      /\ pipe' \in [DOMAIN pipe -> Pipes]
      /\ ActiveSymbols' = ActiveSymbols
      /\ SlotsDiffer => SlotsDiffer'
      /\ pipe'[Fresh].sym = pipe[Fresh].sym
  BY <1>1, <1>3, PipeChange
<1>5. pipe'[Fresh].run = pipe[Fresh].run
  BY <1>1, <1>3 DEF LifeTypes
<1>6. LifeTypes'
  BY <1>1, <1>4 DEF LifeTypes
<1>7. PoolIsFree' /\ FreshIsFree'
  BY <1>1, <1>4, <1>5 DEF LifeInv, PoolIsFree, FreshIsFree
<1>8. PlacesAreSlots'
  BY <1>1, <1>4 DEF LifeInv, PlacesAreSlots, Slot
<1> QED
  BY <1>4, <1>6, <1>7, <1>8 DEF LifeInv

-----------------------------------------------------------------------------
(* Sorted lists and choices                                                *)

Repeats(s) == \E i, j \in DOMAIN s : i # j /\ s[i] = s[j]

(* A sorted list has every element of the set once.                        *)
LEMMA OrderingsList ==
  ASSUME NEW S, IsFiniteSet(S), NEW key, NEW s \in Orderings(S, key)
  PROVE  s \in Seq(S) /\ Len(s) = Cardinality(S) /\ ~Repeats(s)
<1>1. Cardinality(S) \in Nat
  BY FS_CardinalityType
<1>2. s \in [1..Cardinality(S) -> S]
  BY DEF Orderings
<1>3. s \in Seq(S) /\ Len(s) = Cardinality(S)
  BY <1>1, <1>2
<1>4. ASSUME NEW i \in 1..Cardinality(S), NEW j \in 1..Cardinality(S), i # j
      PROVE  s[i] # s[j]
  <2>1. i < j \/ j < i
    BY <1>4
  <2> QED
    BY <2>1 DEF Orderings
<1> QED
  BY <1>2, <1>3, <1>4 DEF Repeats

(* What is kept of a list: elements of the list at different places of K.  *)
LEMMA KeptList ==
  ASSUME NEW T, NEW list \in Seq(T), NEW K \in SUBSET DOMAIN list, NEW t \in Kept(list, K)
  PROVE  /\ IsFiniteSet(K) /\ t \in Seq(T) /\ Len(t) = Cardinality(K)
         /\ \E order \in [1..Len(t) -> K] :
              ~Repeats(order) /\ \A i \in 1..Len(t) : t[i] = list[order[i]]
<1>1. DOMAIN list = 1..Len(list) /\ Len(list) \in Nat
  OBVIOUS
<1>2. IsFiniteSet(K) /\ Cardinality(K) \in Nat
  <2>1. IsFiniteSet(1..Len(list))
    BY <1>1, FS_Interval
  <2>2. IsFiniteSet(K)
    BY <1>1, <2>1, FS_Subset
  <2> QED
    BY <2>2, FS_CardinalityType
<1>3. PICK order \in Orderings(K, [i \in K |-> -i]) : t = [i \in DOMAIN order |-> list[order[i]]]
  BY DEF Kept
<1>4. order \in Seq(K) /\ Len(order) = Cardinality(K) /\ ~Repeats(order)
  BY <1>2, <1>3, OrderingsList
<1>5. order \in [1..Cardinality(K) -> K] /\ DOMAIN order = 1..Cardinality(K)
  BY <1>4
<1>6. t \in [1..Cardinality(K) -> T]
  BY <1>1, <1>3, <1>5
<1>7. t \in Seq(T) /\ Len(t) = Cardinality(K)
  BY <1>2, <1>6
<1> QED
  BY <1>2, <1>3, <1>4, <1>5, <1>7

(* A finite set of places each of which has fewer than n before it has at  *)
(* most n: the last of them has all the others before it.                  *)
LEMMA Limited ==
  ASSUME NEW n \in Nat, NEW len \in Nat, NEW K \in SUBSET (1..len),
         \A i \in K : Cardinality(Before(K, i)) < n
  PROVE  IsFiniteSet(K) /\ Cardinality(K) <= n
<1>1. IsFiniteSet(K)
  <2>1. IsFiniteSet(1..len)
    BY FS_Interval
  <2> QED
    BY <2>1, FS_Subset
<1>2. CASE K = {}
  BY <1>1, <1>2, FS_EmptySet
<1>3. CASE K # {}
  <2> DEFINE Back == {len - i : i \in K}
  <2>1. Back \subseteq Nat /\ Back # {}
    BY <1>3
  <2>2. PICK b \in Back : \A c \in Back : ~(<<c, b>> \in OpToRel(<, Nat))
    <3> HIDE DEF Back
    <3> QED
      BY <2>1, NatLessThanWellFounded, WFMin
  <2>3. PICK m \in K : b = len - m
    OBVIOUS
  <2>4. \A i \in K : i <= m
    <3> SUFFICES ASSUME NEW i \in K, m < i PROVE FALSE
      OBVIOUS
    <3>1. len - i \in Back /\ len - i < b /\ len - i \in Nat /\ b \in Nat
      BY <2>3
    <3>2. <<len - i, b>> \in OpToRel(<, Nat)
      BY <3>1 DEF OpToRel
    <3> QED
      BY <2>2, <3>1, <3>2
  <2>5. K = Before(K, m) \cup {m} /\ m \notin Before(K, m)
    <3>1. m \in K /\ m \in Int /\ \A i \in K : i < m \/ i = m
      BY <2>4
    <3> HIDE DEF Back
    <3>2. ~(m < m)
      BY <3>1
    <3>3. \A i : i \in K <=> i \in Before(K, m) \/ i = m
      BY <3>1, Zenon DEF Before
    <3> QED
      BY <3>2, <3>3, Zenon DEF Before
  <2>6. IsFiniteSet(Before(K, m))
    BY <1>1, FS_Subset DEF Before
  <2>7. Cardinality(K) = Cardinality(Before(K, m)) + 1
    BY <2>5, <2>6, FS_AddElement
  <2>8. Cardinality(Before(K, m)) < n /\ Cardinality(Before(K, m)) \in Nat
    BY <2>6, FS_CardinalityType
  <2> QED
    BY <1>1, <2>7, <2>8
<1> QED
  BY <1>2, <1>3

(* A duplicate-free list at its places has as many elements as places: the *)
(* set of those that a test selects has as many as there are places.       *)
LEMMA ListImage ==
  ASSUME NEW T, NEW list \in Seq(T), ~Repeats(list), NEW K \in SUBSET DOMAIN list
  PROVE  /\ IsFiniteSet(K) /\ IsFiniteSet({list[i] : i \in K})
         /\ Cardinality({list[i] : i \in K}) = Cardinality(K)
<1> DEFINE f == [i \in K |-> list[i]]
           R == {list[i] : i \in K}
<1>1. IsFiniteSet(K)
  <2>1. DOMAIN list = 1..Len(list) /\ Len(list) \in Nat
    OBVIOUS
  <2>2. IsFiniteSet(1..Len(list))
    BY <2>1, FS_Interval
  <2> QED
    BY <2>1, <2>2, FS_Subset
<1>2. f \in [K -> R] /\ (\A i, j \in K : f[i] = f[j] => i = j) /\ (\A r \in R : \E i \in K : f[i] = r)
  BY DEF Repeats
<1>3. f \in Bijection(K, R)
  BY <1>2, Zenon DEF Bijection, Injection, Surjection, IsInjective
<1>4. ExistsBijection(K, R)
  BY <1>3 DEF ExistsBijection
<1> QED
  BY <1>1, <1>4, FS_Bijection

-----------------------------------------------------------------------------
(* The scan                                                                *)

(* What the property asks of the pairs a scan has chosen in a market.      *)
IsBasket(chosen, market) ==
  /\ chosen \in Seq(market) /\ ~Repeats(chosen)
  /\ Len(chosen) <= TopN
  /\ \A i \in DOMAIN chosen :
       /\ chosen[i].online /\ ~chosen[i].banned /\ ~(TotalRisk(chosen[i]) > TradeTrapLimit)
       /\ Cardinality(Sector(chosen, i)) <= MaxPerSector

(* The places of the ranking at which a chosen pair stands: no more than   *)
(* the basket takes, and of a sector no more than its share.               *)
LEMMA PlacesLimited ==
  ASSUME NEW T, NEW ranked \in Seq(T)
  PROVE  LET K == selected_tradable_symbols(ranked)
         IN /\ K \in SUBSET DOMAIN ranked
            /\ IsFiniteSet(K) /\ Cardinality(K) <= TopN
            /\ \A k \in K :
                 /\ TradeState(ranked[k]) = "TradeAllowed"
                 /\ IsFiniteSet(K \cap Sector(ranked, k))
                 /\ Cardinality(K \cap Sector(ranked, k)) <= MaxPerSector
<1> DEFINE K == selected_tradable_symbols(ranked)
           fit == {i \in diversify_basket(ranked) : TradeState(ranked[i]) # "DoNotTrade"}
<1>1. DOMAIN ranked = 1..Len(ranked) /\ Len(ranked) \in Nat
  OBVIOUS
<1>2. TopN \in Nat /\ MaxPerSector \in Nat
  BY MarketScanAssumption
<1>3. /\ K \subseteq fit /\ fit \subseteq diversify_basket(ranked)
      /\ diversify_basket(ranked) \subseteq 1..Len(ranked)
  BY <1>1 DEF selected_tradable_symbols, top_pairs, diversify_basket
<1>4. \A k \in K : TradeState(ranked[k]) = "TradeAllowed" /\ Cardinality(Before(fit, k)) < TopN
  BY DEF selected_tradable_symbols, top_pairs
<1>5. \A k \in K : Cardinality(Before(Sector(ranked, k), k)) < MaxPerSector
  BY <1>3 DEF diversify_basket
<1>6. IsFiniteSet(1..Len(ranked))
  BY <1>1, FS_Interval
<1> HIDE DEF K, fit
<1>7. \A X \in SUBSET (1..Len(ranked)) : \A Y \in SUBSET X :
        /\ IsFiniteSet(X) /\ IsFiniteSet(Y) /\ Cardinality(Y) <= Cardinality(X)
        /\ Cardinality(X) \in Nat /\ Cardinality(Y) \in Nat
  BY <1>6, FS_Subset, FS_CardinalityType
<1>8. K \in SUBSET (1..Len(ranked)) /\ fit \in SUBSET (1..Len(ranked))
  BY <1>3
<1>9. \A k \in K : Cardinality(Before(K, k)) < TopN
  <2> TAKE k \in K
  <2>1. Before(K, k) \in SUBSET Before(fit, k) /\ Before(fit, k) \in SUBSET (1..Len(ranked))
    BY <1>3, <1>8 DEF Before
  <2>2. Cardinality(Before(K, k)) <= Cardinality(Before(fit, k))
    BY <1>7, <2>1
  <2> QED
    BY <1>2, <1>4, <1>7, <2>1, <2>2
<1>10. IsFiniteSet(K) /\ Cardinality(K) <= TopN
  BY <1>1, <1>2, <1>8, <1>9, Limited
<1>11. ASSUME NEW k \in K
       PROVE  /\ IsFiniteSet(K \cap Sector(ranked, k))
              /\ Cardinality(K \cap Sector(ranked, k)) <= MaxPerSector
  <2> DEFINE G == K \cap Sector(ranked, k)
  <2>1. G \in SUBSET (1..Len(ranked))
    BY <1>8
  <2>2. ASSUME NEW i \in G
        PROVE  Cardinality(Before(G, i)) < MaxPerSector
    <3>1. Sector(ranked, i) = Sector(ranked, k) /\ Sector(ranked, i) \in SUBSET (1..Len(ranked))
      BY <1>1 DEF Sector
    <3>2. /\ Before(G, i) \in SUBSET Before(Sector(ranked, i), i)
          /\ Before(Sector(ranked, i), i) \in SUBSET (1..Len(ranked))
      BY <3>1 DEF Before
    <3>3. Cardinality(Before(G, i)) <= Cardinality(Before(Sector(ranked, i), i))
      BY <1>7, <3>2
    <3>4. Cardinality(Before(Sector(ranked, i), i)) < MaxPerSector
      BY <1>5
    <3>5. Cardinality(Before(G, i)) \in Nat /\ Cardinality(Before(Sector(ranked, i), i)) \in Nat
      BY <1>7, <3>2
    <3> QED
      BY <1>2, <3>3, <3>4, <3>5
  <2> HIDE DEF G
  <2>3. IsFiniteSet(G) /\ Cardinality(G) <= MaxPerSector
    BY <1>1, <1>2, <2>1, <2>2, Limited
  <2> QED
    BY <2>3 DEF G
<1> QED
  BY <1>1, <1>4, <1>8, <1>10, <1>11 DEF K

(* What the scan chooses from the ranking of any pairs that passed the     *)
(* prefilter is a basket.                                                  *)
LEMMA ChosenIsBasket ==
  ASSUME NEW market, IsFiniteSet(market), NEW fit \in SUBSET Prefiltered(market),
         NEW key, NEW ranked \in Orderings(fit, key),
         NEW chosen \in Kept(ranked, selected_tradable_symbols(ranked))
  PROVE  IsBasket(chosen, market)
<1> DEFINE K == selected_tradable_symbols(ranked)
<1>1. fit \subseteq market /\ \A p \in fit : p.online /\ ~p.banned
  BY DEF Prefiltered
<1>2. IsFiniteSet(fit)
  BY <1>1, FS_Subset
<1>3. ranked \in Seq(fit) /\ ~Repeats(ranked)
  BY <1>2, OrderingsList
<1>4. /\ K \in SUBSET DOMAIN ranked
      /\ IsFiniteSet(K) /\ Cardinality(K) <= TopN
      /\ \A k \in K : /\ TradeState(ranked[k]) = "TradeAllowed"
                      /\ IsFiniteSet(K \cap Sector(ranked, k))
                      /\ Cardinality(K \cap Sector(ranked, k)) <= MaxPerSector
  BY <1>3, PlacesLimited
<1> HIDE DEF K
<1>5. /\ chosen \in Seq(fit) /\ Len(chosen) = Cardinality(K)
      /\ \E order \in [1..Len(chosen) -> K] :
           ~Repeats(order) /\ \A i \in 1..Len(chosen) : chosen[i] = ranked[order[i]]
  BY <1>3, <1>4, KeptList DEF K
<1>6. PICK order \in [1..Len(chosen) -> K] :
        ~Repeats(order) /\ \A i \in 1..Len(chosen) : chosen[i] = ranked[order[i]]
  BY <1>5
<1>7. DOMAIN chosen = 1..Len(chosen) /\ DOMAIN order = 1..Len(chosen)
  BY <1>5
<1>8. chosen \in Seq(market)
  BY <1>1, <1>5, SeqMonotonic
<1>9. ~Repeats(chosen)
  <2> SUFFICES ASSUME NEW i \in 1..Len(chosen), NEW j \in 1..Len(chosen), i # j
               PROVE  chosen[i] # chosen[j]
    BY <1>7 DEF Repeats
  <2>1. order[i] # order[j] /\ order[i] \in DOMAIN ranked /\ order[j] \in DOMAIN ranked
    BY <1>4, <1>6, <1>7 DEF Repeats
  <2> QED
    BY <1>3, <1>6, <2>1 DEF Repeats
<1>10. ASSUME NEW i \in 1..Len(chosen)
       PROVE  /\ chosen[i].online /\ ~chosen[i].banned
              /\ ~(TotalRisk(chosen[i]) > TradeTrapLimit)
  <2>1. chosen[i] \in fit /\ order[i] \in K
    BY <1>5, <1>6
  <2>2. TradeState(chosen[i]) = "TradeAllowed"
    BY <1>4, <1>6, <2>1
  <2>3. ~(TotalRisk(chosen[i]) > TradeTrapLimit)
    BY <2>2 DEF TradeState
  <2> QED
    BY <1>1, <2>1, <2>3
<1>11. ASSUME NEW i \in 1..Len(chosen)
       PROVE  Cardinality(Sector(chosen, i)) <= MaxPerSector
  <2> DEFINE G == K \cap Sector(ranked, order[i])
             g == [j \in Sector(chosen, i) |-> order[j]]
  <2>1. order[i] \in K /\ IsFiniteSet(G) /\ Cardinality(G) <= MaxPerSector
    BY <1>4, <1>6
  <2>2. Sector(chosen, i) \subseteq 1..Len(chosen)
    BY <1>7 DEF Sector
  <2>3. \A j \in Sector(chosen, i) : order[j] \in G
    <3> TAKE j \in Sector(chosen, i)
    <3>1. j \in 1..Len(chosen) /\ chosen[j].sector = chosen[i].sector
      BY <2>2 DEF Sector
    <3>2. ranked[order[j]].sector = ranked[order[i]].sector
      BY <1>6, <3>1
    <3> QED
      BY <1>4, <1>6, <3>1, <3>2 DEF Sector
  <2>4. \A j, k \in Sector(chosen, i) : order[j] = order[k] => j = k
    BY <1>6, <1>7, <2>2 DEF Repeats
  <2> HIDE DEF G
  <2>5. g \in Injection(Sector(chosen, i), G)
    BY <2>3, <2>4, Zenon DEF Injection, IsInjective
  <2> HIDE DEF g
  <2>6. IsFiniteSet(Sector(chosen, i)) /\ Cardinality(Sector(chosen, i)) <= Cardinality(G)
    BY <2>1, <2>5, FS_Injection
  <2>7. /\ Cardinality(Sector(chosen, i)) \in Nat /\ Cardinality(G) \in Nat
        /\ MaxPerSector \in Nat
    BY <2>1, <2>6, FS_CardinalityType, MarketScanAssumption
  <2> QED
    BY <2>1, <2>6, <2>7
<1> QED
  BY <1>4, <1>5, <1>7, <1>8, <1>9, <1>10, <1>11 DEF IsBasket

-----------------------------------------------------------------------------
(* main() up to the pipelines                                              *)

Entries == [sym: Symbols, cost: Nat]
Markets == UNION {s.markets : s \in Scenarios}
BootPcs == {"scan", "sleep", "query", "wipe plans", "wipe orders", "filter", "done"}

BootTypes ==
  /\ boot \in [pc: BootPcs, attempt: Nat, early: BOOLEAN, auto: BOOLEAN,
               markets: SUBSET Markets, active: Seq(Entries), forced: Seq(Symbols),
               reported: SUBSET Sides]
  /\ exchange \in [held: SUBSET Sides, stops: SUBSET Sides, entries: SUBSET Sides]

(* The scan under way works on pairs of one market that passed the         *)
(* prefilter, and returns a basket of that market.                         *)
ScannerWhole ==
  scanner = [pc |-> scanner.pc, breaker |-> scanner.breaker, market |-> scanner.market,
             todo |-> scanner.todo, loaded |-> scanner.loaded, chosen |-> scanner.chosen]
ScannerSound ==
  /\ ScannerWhole
  /\ boot.pc = "scan" /\ scanner.pc = "fetch" =>
       /\ scanner.market \in boot.markets
       /\ scanner.todo \in Seq(Prefiltered(scanner.market))
       /\ scanner.loaded \subseteq Prefiltered(scanner.market)
  /\ boot.pc = "scan" /\ scanner.pc = "done" /\ scanner.chosen # <<>> =>
       /\ scanner.market \in boot.markets
       /\ IsBasket(scanner.chosen, scanner.market)

(* There are symbols of positions only between the query that adds them    *)
(* and the end of the capital filter.                                      *)
ForcedSound ==
  main.pc # "boot" \/ boot.pc \in {"scan", "sleep", "query"} => boot.forced = <<>>

StartInv == BootTypes /\ ScannerSound /\ ForcedSound

(* A market lists pairs of the model, finitely many and each once.         *)
LEMMA MarketsListed ==
  ASSUME NEW market \in Markets
  PROVE  /\ IsFiniteSet(market)
         /\ \A p \in market : Listed(p) \in Entries
         /\ \A p, q \in market : Listed(p) = Listed(q) => p = q
<1>1. PICK s \in Scenarios : market \in s.markets
  BY DEF Markets
<1>2. /\ IsFiniteSet(market)
      /\ \A p \in market : p.sym \in Symbols /\ p.cost \in Nat
      /\ \A p, q \in market : p.sym = q.sym => p = q
  BY <1>1, AppStartupAssumption
<1>3. \A p, q : Listed(p) = Listed(q) => p.sym = q.sym
  BY DEF Listed
<1> QED
  BY <1>2, <1>3 DEF Listed, Entries

(* The steps of the scan.                                                  *)
LEMMA ScanKeepsStart ==
  ASSUME StartInv, Scan
  PROVE  StartInv'
<1>1. BootAt("scan") /\ boot' = boot /\ exchange' = exchange /\ main' = main
  BY DEF Scan, lifeVars
<1>2. BootTypes' /\ ForcedSound'
  BY <1>1 DEF StartInv, BootTypes, ForcedSound
<1>3. ASSUME \E b : ScanFails(b) PROVE ScannerSound'
  <2>1. PICK b : scanner' = [pc |-> "done", breaker |-> b, market |-> {}, todo |-> <<>>,
                             loaded |-> {}, chosen |-> <<>>]
    BY <1>3 DEF ScanFails, Idle
  <2>2. scanner'.pc = "done" /\ scanner'.chosen = <<>>
    BY <2>1
  <2>3. ScannerWhole'
    BY <2>1 DEF ScannerWhole
  <2> QED
    BY <2>2, <2>3 DEF ScannerSound
<1>4. ASSUME ScanSkipped \/ ScanWithoutLists PROVE ScannerSound'
  <2>1. \E b : ScanFails(b)
    BY <1>4 DEF ScanSkipped, ScanWithoutLists
  <2> QED
    BY <1>3, <2>1
<1>5. ASSUME NEW market \in boot.markets, ScanBegins(market)
      PROVE  ScannerSound'
  <2> DEFINE fit == Prefiltered(market)
             b == record_api_success(scanner.breaker)
  <2>1. PICK sorted \in Orderings(fit, [p \in fit |-> p.turnover]) :
          scanner' = [Idle(b) EXCEPT
                        !.pc = "fetch", !.market = market,
                        !.todo = SubSeq(sorted, 1, Min({Len(sorted), MaxDetailed}))]
    BY <1>5 DEF ScanBegins
  <2>2. market \in Markets
    BY DEF StartInv, BootTypes
  <2>3. IsFiniteSet(fit)
    BY <2>2, MarketsListed, FS_Subset DEF Prefiltered
  <2>4. sorted \in Seq(fit) /\ Len(sorted) \in Nat
    BY <2>1, <2>3, OrderingsList
  <2> DEFINE n == Min({Len(sorted), MaxDetailed})
  <2>5. n \in 0..Len(sorted)
    BY <2>4, MarketScanAssumption DEF Min
  <2> HIDE DEF n, fit, b
  <2>6. SubSeq(sorted, 1, n) \in Seq(fit)
    BY <2>4, <2>5, SubSeqProperties
  <2>7. scanner' = [pc |-> "fetch", breaker |-> b, market |-> market,
                    todo |-> SubSeq(sorted, 1, n), loaded |-> {}, chosen |-> <<>>]
    BY <2>1 DEF Idle, n
  <2> QED
    BY <1>1, <2>6, <2>7 DEF ScannerSound, ScannerWhole, fit
<1>6. ASSUME NEW f \in Fetches, FetchNext(f)
      PROVE  ScannerSound'
  <2>1. /\ scanner.pc = "fetch" /\ scanner.todo # <<>>
        /\ scanner.market \in boot.markets
        /\ scanner.todo \in Seq(Prefiltered(scanner.market))
        /\ scanner.loaded \subseteq Prefiltered(scanner.market)
    BY <1>1, <1>6 DEF FetchNext, StartInv, ScannerSound, BootAt
  <2>2. /\ Head(scanner.todo) \in Prefiltered(scanner.market)
        /\ Tail(scanner.todo) \in Seq(Prefiltered(scanner.market))
        /\ <<>> \in Seq(Prefiltered(scanner.market))
    BY <2>1, HeadTailProperties, EmptySeq
  <2>3. PICK t \in {<<>>, Tail(scanner.todo)},
             l \in {scanner.loaded, scanner.loaded \cup {Head(scanner.todo)}} :
          scanner' = [pc |-> "fetch", breaker |-> scanner'.breaker, market |-> scanner.market,
                      todo |-> t, loaded |-> l, chosen |-> scanner.chosen]
    <3>1. scanner = [pc |-> "fetch", breaker |-> scanner.breaker, market |-> scanner.market,
                     todo |-> scanner.todo, loaded |-> scanner.loaded, chosen |-> scanner.chosen]
      BY <2>1 DEF StartInv, ScannerSound, ScannerWhole
    <3>2. CASE is_circuit_breaker_open(scanner.breaker) \/ f.late = "book"
      BY <1>6, <3>1, <3>2 DEF FetchNext
    <3>3. CASE ~(is_circuit_breaker_open(scanner.breaker) \/ f.late = "book")
      <4> DEFINE booked == Record(scanner.breaker, f.book # "none")
                 late == f.late = "candles"
                 ready == f.book = "full" /\ f.candles
                 b == IF late THEN booked ELSE Record(booked, f.candles)
                 t == IF late THEN <<>> ELSE Tail(scanner.todo)
                 l == IF ready THEN scanner.loaded \cup {Head(scanner.todo)} ELSE scanner.loaded
      <4>1. scanner' = [scanner EXCEPT !.breaker = b, !.todo = t, !.loaded = l]
        BY <1>6, <3>3 DEF FetchNext
      <4>2. /\ t \in {<<>>, Tail(scanner.todo)}
            /\ l \in {scanner.loaded, scanner.loaded \cup {Head(scanner.todo)}}
        OBVIOUS
      <4> HIDE DEF b, t, l
      <4>3. scanner' = [pc |-> "fetch", breaker |-> b, market |-> scanner.market,
                        todo |-> t, loaded |-> l, chosen |-> scanner.chosen]
        BY <2>1, <4>1 DEF StartInv, ScannerSound, ScannerWhole
      <4>4. scanner'.breaker = b
        BY <4>3
      <4> QED
        BY <4>2, <4>3, <4>4
    <3> QED
      BY <3>2, <3>3
  <2>5. t \in Seq(Prefiltered(scanner.market)) /\ l \subseteq Prefiltered(scanner.market)
    BY <2>1, <2>2
  <2> QED
    BY <1>1, <2>1, <2>3, <2>5 DEF ScannerSound, ScannerWhole
<1>7. ASSUME Choose PROVE ScannerSound'
  <2> DEFINE fit == {p \in scanner.loaded : Passed(p)}
  <2>1. PICK ranked \in Orderings(fit, [p \in fit |-> Score(p)]) :
        \E chosen \in Kept(ranked, selected_tradable_symbols(ranked)) :
          scanner' = [scanner EXCEPT !.pc = "done", !.loaded = {}, !.chosen = chosen]
    BY <1>7 DEF Choose
  <2> PICK chosen \in Kept(ranked, selected_tradable_symbols(ranked)) :
          scanner' = [scanner EXCEPT !.pc = "done", !.loaded = {}, !.chosen = chosen]
    BY <2>1
  <2>2. scanner.market \in boot.markets /\ fit \in SUBSET Prefiltered(scanner.market)
    BY <1>1, <1>7 DEF Choose, StartInv, ScannerSound, BootAt
  <2>3. IsFiniteSet(scanner.market)
    BY <2>2, MarketsListed DEF StartInv, BootTypes
  <2> HIDE DEF fit
  <2>4. IsBasket(chosen, scanner.market)
    BY <2>1, <2>2, <2>3, ChosenIsBasket
  <2>5. scanner' = [pc |-> "done", breaker |-> scanner.breaker, market |-> scanner.market,
                    todo |-> scanner.todo, loaded |-> {}, chosen |-> chosen]
    BY <2>1 DEF StartInv, ScannerSound, ScannerWhole
  <2>6. scanner'.pc = "done" /\ scanner'.market = scanner.market /\ scanner'.chosen = chosen
    BY <2>5
  <2>7. IsBasket(scanner'.chosen, scanner'.market) /\ scanner'.market \in boot'.markets
    BY <1>1, <2>2, <2>4, <2>6
  <2>8. ScannerWhole'
    BY <2>5 DEF ScannerWhole
  <2> QED
    BY <2>6, <2>7, <2>8 DEF ScannerSound
<1> QED
  BY <1>2, <1>4, <1>5, <1>6, <1>7 DEF Scan, StartInv

(* What main() remembers, field by field: the frame of its steps.          *)
LEMMA BootFields ==
  ASSUME StartInv
  PROVE  boot = [pc |-> boot.pc, attempt |-> boot.attempt, early |-> boot.early,
                 auto |-> boot.auto, markets |-> boot.markets, active |-> boot.active,
                 forced |-> boot.forced, reported |-> boot.reported]
BY DEF StartInv, BootTypes

(* Outside the scan the scanner is at rest, or is not looked at.           *)
LEMMA ScannerAtRest ==
  ASSUME StartInv, \/ \E b : scanner' = Idle(b)
                   \/ scanner' = scanner /\ boot'.pc # "scan"
                   \/ scanner' = scanner /\ boot'.pc = boot.pc /\ boot'.markets = boot.markets
  PROVE  ScannerSound'
<1>1. CASE \E b : scanner' = Idle(b)
  <2>1. PICK b : scanner' = [pc |-> "idle", breaker |-> b, market |-> {}, todo |-> <<>>,
                             loaded |-> {}, chosen |-> <<>>]
    BY <1>1 DEF Idle
  <2>2. scanner'.pc = "idle" /\ ScannerWhole'
    BY <2>1 DEF ScannerWhole
  <2> QED
    BY <2>2 DEF ScannerSound
<1>2. CASE scanner' = scanner /\ boot'.pc # "scan"
  BY <1>2 DEF StartInv, ScannerSound, ScannerWhole
<1>3. CASE scanner' = scanner /\ boot'.pc = boot.pc /\ boot'.markets = boot.markets
  BY <1>3 DEF StartInv, ScannerSound, ScannerWhole
<1> QED
  BY <1>1, <1>2, <1>3

(* main() that has left the startup remembers nothing of it.               *)
LEMMA BootingTyped ==
  ASSUME NEW pc \in BootPcs
  PROVE  /\ Booting(pc) \in [pc: BootPcs, attempt: Nat, early: BOOLEAN, auto: BOOLEAN,
                             markets: SUBSET Markets, active: Seq(Entries),
                             forced: Seq(Symbols), reported: SUBSET Sides]
         /\ Booting(pc).forced = <<>> /\ Booting(pc).pc = pc
BY DEF Booting

(* The return of the scan, and the sleep after a scan without pairs.       *)
LEMMA ScanReturnKeepsStart ==
  ASSUME StartInv, ScanReturns \/ Sleep
  PROVE  StartInv'
<1>1. ASSUME BootAt("scan"), scanner.pc = "done", scanner.chosen # <<>>,
             Boot([boot EXCEPT !.pc = "query", !.markets = {}, !.attempt = 1,
                               !.active = [i \in DOMAIN scanner.chosen |->
                                             Listed(scanner.chosen[i])]]),
             scanner' = Idle(Closed), exchange' = exchange
      PROVE  StartInv'
  <2> DEFINE active == [i \in DOMAIN scanner.chosen |-> Listed(scanner.chosen[i])]
  <2>1. /\ scanner.market \in boot.markets /\ IsBasket(scanner.chosen, scanner.market)
        /\ scanner.market \in Markets
    BY <1>1 DEF BootAt, StartInv, ScannerSound, BootTypes
  <2>2. scanner.chosen \in Seq(scanner.market)
    BY <2>1 DEF IsBasket
  <2>3. /\ DOMAIN scanner.chosen = 1..Len(scanner.chosen) /\ Len(scanner.chosen) \in Nat
        /\ \A i \in DOMAIN scanner.chosen : scanner.chosen[i] \in scanner.market
    BY <2>2
  <2>4. \A i \in DOMAIN scanner.chosen : Listed(scanner.chosen[i]) \in Entries
    BY <2>1, <2>3, MarketsListed
  <2>5. active \in Seq(Entries)
    <3>1. active \in [1..Len(scanner.chosen) -> Entries]
      BY <2>3, <2>4
    <3> QED
      BY <2>3, <3>1
  <2> HIDE DEF active
  <2>6. boot' = [pc |-> "query", attempt |-> 1, early |-> boot.early, auto |-> boot.auto,
                 markets |-> {}, active |-> active, forced |-> boot.forced,
                 reported |-> boot.reported]
    BY <1>1, BootFields DEF Boot, active
  <2>7. main' = main
    BY <1>1 DEF Boot, lifeVars
  <2>8. BootTypes'
    BY <1>1, <2>5, <2>6 DEF StartInv, BootTypes, BootPcs
  <2>9. ForcedSound'
    BY <1>1, <2>6, <2>7 DEF BootAt, StartInv, ForcedSound
  <2> QED
    BY <1>1, <2>8, <2>9, ScannerAtRest DEF StartInv
<1>2. ASSUME Exit, exchange' = exchange,
             (\E b : scanner' = Idle(b)) \/ scanner' = scanner
      PROVE  StartInv'
  <2>1. boot' = Booting("done") /\ "done" \in BootPcs
    BY <1>2 DEF Exit, BootPcs
  <2>2. BootTypes' /\ boot'.forced = <<>> /\ boot'.pc = "done"
    BY <1>2, <2>1, BootingTyped DEF StartInv, BootTypes
  <2> QED
    BY <1>2, <2>2, ScannerAtRest DEF StartInv, ForcedSound
<1>3. ASSUME BootAt("scan"), Boot([boot EXCEPT !.pc = "sleep"]), exchange' = exchange,
             \E b : scanner' = Idle(b)
      PROVE  StartInv'
  <2>1. BootTypes' /\ boot'.forced = boot.forced /\ main' = main
    BY <1>3 DEF Boot, lifeVars, StartInv, BootTypes, BootPcs
  <2> QED
    BY <1>3, <2>1, ScannerAtRest DEF BootAt, StartInv, ForcedSound
<1>4. ASSUME BootAt("sleep"), NextAttempt, exchange' = exchange
      PROVE  StartInv'
  <2>0. boot' = [pc |-> "scan", attempt |-> boot.attempt + 1, early |-> boot.early,
                 auto |-> boot.auto, markets |-> boot.markets, active |-> boot.active,
                 forced |-> boot.forced, reported |-> boot.reported]
    BY <1>4, BootFields DEF NextAttempt, Boot
  <2>1. BootTypes' /\ boot'.forced = boot.forced /\ main' = main
    <3>1. /\ boot.attempt + 1 \in Nat /\ boot.early \in BOOLEAN /\ boot.auto \in BOOLEAN
          /\ boot.markets \in SUBSET Markets /\ boot.active \in Seq(Entries)
          /\ boot.forced \in Seq(Symbols) /\ boot.reported \in SUBSET Sides
          /\ "scan" \in BootPcs
      <4>1. boot.attempt \in Nat
        BY DEF StartInv, BootTypes
      <4>2. boot.attempt + 1 \in Nat
        BY <4>1
      <4> QED
        BY <4>2 DEF StartInv, BootTypes, BootPcs
    <3>2. boot' \in [pc: BootPcs, attempt: Nat, early: BOOLEAN, auto: BOOLEAN,
                     markets: SUBSET Markets, active: Seq(Entries), forced: Seq(Symbols),
                     reported: SUBSET Sides]
      BY <2>0, <3>1, Zenon
    <3>3. BootTypes'
      BY <1>4, <3>2 DEF StartInv, BootTypes
    <3>4. main' = main
      BY <1>4 DEF NextAttempt, Boot, lifeVars
    <3> QED
      BY <2>0, <3>3, <3>4
  <2>2. \E b : scanner' = Idle(b)
    BY <1>4 DEF NextAttempt
  <2> QED
    BY <1>4, <2>1, <2>2, ScannerAtRest DEF BootAt, StartInv, ForcedSound
<1>5. CASE ScanReturns
  BY <1>1, <1>2, <1>3, <1>5 DEF ScanReturns
<1>6. CASE Sleep
  BY <1>2, <1>4, <1>6 DEF Sleep
<1> QED
  BY <1>5, <1>6

(* The steps between the scan and the capital filter, and what happens     *)
(* meanwhile.                                                              *)
LEMMA WipeKeepsStart ==
  ASSUME StartInv,
         \/ early_shutdown_handler \/ EntryFills \/ NoCredentials \/ OpenPositions
         \/ PositionsUnknown \/ WipePlans \/ WipeOrders
  PROVE  StartInv'
<1> DEFINE Exchanges == [held: SUBSET Sides, stops: SUBSET Sides, entries: SUBSET Sides]
<1>0. exchange \in Exchanges /\ BootTypes
  BY DEF StartInv, BootTypes
<1>1. ASSUME NEW pc \in {"wipe plans", "wipe orders", "filter"}, Boot([boot EXCEPT !.pc = pc]),
             exchange' \in Exchanges, scanner' = scanner
      PROVE  StartInv'
  <2>1. BootTypes' /\ boot'.forced = boot.forced /\ boot'.pc = pc /\ main' = main
    BY <1>1 DEF Boot, lifeVars, StartInv, BootTypes, BootPcs
  <2> QED
    BY <1>1, <2>1, ScannerAtRest DEF StartInv, ForcedSound
<1>2. ASSUME Boot(boot) \/ Boot([boot EXCEPT !.early = TRUE]),
             exchange' \in Exchanges, scanner' = scanner
      PROVE  StartInv'
  <2>1. /\ BootTypes' /\ boot'.forced = boot.forced /\ boot'.pc = boot.pc
        /\ boot'.markets = boot.markets /\ main' = main
    BY <1>2 DEF Boot, lifeVars, StartInv, BootTypes, BootPcs
  <2> QED
    BY <1>2, <2>1, ScannerAtRest DEF StartInv, ForcedSound
<1>3. CASE early_shutdown_handler
  BY <1>0, <1>2, <1>3 DEF early_shutdown_handler
<1>4. CASE EntryFills
  <2>1. exchange' \in Exchanges
    BY <1>0, <1>4 DEF EntryFills
  <2> QED
    BY <1>2, <1>4, <2>1 DEF EntryFills
<1>5. CASE NoCredentials \/ PositionsUnknown
  BY <1>0, <1>1, <1>5 DEF NoCredentials, PositionsUnknown
<1>6. CASE WipePlans
  <2>1. exchange' \in Exchanges
    BY <1>0, <1>6 DEF WipePlans
  <2> QED
    BY <1>1, <1>6, <2>1 DEF WipePlans
<1>7. CASE WipeOrders
  <2>1. exchange' \in Exchanges
    BY <1>0, <1>7 DEF WipeOrders
  <2> QED
    BY <1>1, <1>7, <2>1 DEF WipeOrders
<1>8. CASE OpenPositions
  <2> DEFINE known == {boot.active[i].sym : i \in DOMAIN boot.active}
             added == {k.sym : k \in exchange.held} \ known
  <2>1. PICK forced \in Orderings(added, [s \in added |-> 0]) :
          Boot([boot EXCEPT !.pc = "wipe plans", !.reported = exchange.held,
                            !.forced = forced])
    BY <1>8 DEF OpenPositions
  <2>2. added \subseteq Symbols
    BY <1>0 DEF Sides
  <2>3. IsFiniteSet(added)
    BY <2>2, AppLifecycleAssumption, FS_Subset
  <2> HIDE DEF added
  <2>4. forced \in Seq(Symbols)
    BY <2>1, <2>2, <2>3, OrderingsList, SeqMonotonic
  <2>5. boot' = [pc |-> "wipe plans", attempt |-> boot.attempt, early |-> boot.early,
                 auto |-> boot.auto, markets |-> boot.markets, active |-> boot.active,
                 forced |-> forced, reported |-> exchange.held]
    BY <2>1, BootFields DEF Boot
  <2>6. main' = main /\ main.pc = "boot" /\ scanner' = scanner /\ exchange' = exchange
    BY <1>8, <2>1 DEF OpenPositions, BootAt, Boot, lifeVars
  <2>7. BootTypes'
    BY <1>0, <2>4, <2>5, <2>6 DEF BootTypes, BootPcs
  <2>8. ScannerSound'
    BY <2>5, <2>6, ScannerAtRest
  <2> QED
    BY <2>5, <2>6, <2>7, <2>8 DEF StartInv, ForcedSound
<1> QED
  BY <1>3, <1>4, <1>5, <1>6, <1>7, <1>8

(* The passes of the capital filter, and the creation of the pipelines.    *)
LEMMA FilterKeepsStart ==
  ASSUME StartInv, FilterPass \/ Filter
  PROVE  StartInv'
<1>1. CASE FilterPass
  <2>1. PICK kept \in Kept(boot.active, Affordable) : Boot([boot EXCEPT !.active = kept])
    BY <1>1 DEF FilterPass
  <2>2. boot.active \in Seq(Entries) /\ Affordable \in SUBSET DOMAIN boot.active
    BY DEF StartInv, BootTypes, Affordable
  <2>3. kept \in Seq(Entries)
    BY <2>1, <2>2, KeptList
  <2>4. /\ BootTypes' /\ boot'.forced = boot.forced /\ boot'.pc = boot.pc
        /\ boot'.markets = boot.markets /\ main' = main
    BY <1>1, <2>1, <2>3 DEF FilterPass, Boot, lifeVars, StartInv, BootTypes
  <2> QED
    BY <1>1, <2>4, ScannerAtRest DEF FilterPass, StartInv, ForcedSound
<1>2. CASE Filter
  <2>1. boot' = Booting("done") \/ boot' = [Booting("done") EXCEPT !.auto = boot.auto]
    BY <1>2 DEF Filter, Exit
  <2>2. /\ boot' \in [pc: BootPcs, attempt: Nat, early: BOOLEAN, auto: BOOLEAN,
                      markets: SUBSET Markets, active: Seq(Entries), forced: Seq(Symbols),
                      reported: SUBSET Sides]
        /\ boot'.forced = <<>> /\ boot'.pc = "done"
    <3>1. "done" \in BootPcs /\ boot.auto \in BOOLEAN
      BY DEF BootPcs, StartInv, BootTypes
    <3> QED
      BY <2>1, <3>1, BootingTyped
  <2>3. exchange' \in [held: SUBSET Sides, stops: SUBSET Sides, entries: SUBSET Sides]
    BY <1>2 DEF Filter, NoOrders
  <2>4. scanner' = scanner
    BY <1>2 DEF Filter
  <2>5. BootTypes'
    BY <2>2, <2>3 DEF BootTypes
  <2> QED
    BY <2>2, <2>4, <2>5, ScannerAtRest DEF StartInv, ForcedSound
<1> QED
  BY <1>1, <1>2

(* The steps after the startup leave its state alone.                      *)
LEMMA LiveKeepsStart ==
  ASSUME StartInv, UNCHANGED <<boot, exchange, scanner>>,
         main'.pc # "boot" => main.pc # "boot"
  PROVE  StartInv'
<1>1. BootTypes' /\ boot'.forced = boot.forced
  BY DEF StartInv, BootTypes
<1>2. ScannerSound'
  BY ScannerAtRest
<1> QED
  BY <1>1, <1>2 DEF StartInv, ForcedSound

(* Only the startup's own steps end it.                                    *)
LEMMA MainLeavesBoot ==
  ASSUME \/ SignalHandler \/ MainStep \/ FindIdle \/ MonitorProgress
         \/ \E i \in Indices : Tick(i)
  PROVE  main'.pc # "boot" => main.pc # "boot"
<1>1. CASE MainStep
  BY <1>1 DEF MainStep, start, StartNext, StartedOk, StartFailed, StartDone, LaunchMonitor,
     wait_for_shutdown, JoinMonitor, JoinRotation, StopPipeline, PipelineStopped, stop
<1>2. CASE SignalHandler \/ FindIdle \/ \E i \in Indices : Tick(i)
  BY <1>2 DEF SignalHandler, FindIdle, Tick, TickBegin, TickEnd
<1>3. CASE MonitorProgress
  BY <1>3 DEF MonitorProgress, MonitorExit, ScanEmpty, Rescan, RotationDone, SkipHeld,
     Unregister, MonitorStop, MonitorStopped, Create, StartFresh, Register, Assign
<1> QED
  BY <1>1, <1>2, <1>3

(* main() up to the pipelines keeps its types, and its scans return        *)
(* baskets.                                                                *)
THEOREM StartupSound == Spec => []StartInv
<1>1. Init => StartInv
  <2> SUFFICES ASSUME Init PROVE StartInv
    OBVIOUS
  <2>1. PICK s \in Scenarios :
          /\ boot \in {[Booting("scan") EXCEPT !.markets = s.markets],
                       [Booting("query") EXCEPT !.auto = FALSE,
                          !.active = [i \in DOMAIN Manual |-> [sym |-> Manual[i], cost |-> 0]]]}
          /\ exchange = s.exchange
    BY DEF Init
  <2>2. exchange \in [held: SUBSET Sides, stops: SUBSET Sides, entries: SUBSET Sides]
    BY <2>1, AppStartupAssumption
  <2>3. s.markets \in SUBSET Markets
    BY <2>1 DEF Markets
  <2> DEFINE active == [i \in DOMAIN Manual |-> [sym |-> Manual[i], cost |-> 0]]
  <2>4. active \in Seq(Entries)
    <3>1. Manual \in Seq(Symbols) /\ DOMAIN Manual = 1..Len(Manual) /\ Len(Manual) \in Nat
      BY AppStartupAssumption
    <3>2. \A i \in DOMAIN Manual : [sym |-> Manual[i], cost |-> 0] \in Entries
      BY <3>1 DEF Entries
    <3>3. active \in [1..Len(Manual) -> Entries]
      BY <3>1, <3>2
    <3> QED
      BY <3>1, <3>3
  <2> HIDE DEF active
  <2>5. /\ boot \in [pc: BootPcs, attempt: Nat, early: BOOLEAN, auto: BOOLEAN,
                     markets: SUBSET Markets, active: Seq(Entries), forced: Seq(Symbols),
                     reported: SUBSET Sides]
        /\ boot.forced = <<>>
    <3>1. /\ "scan" \in BootPcs /\ "query" \in BootPcs
      BY DEF BootPcs
    <3>2. CASE boot = [Booting("scan") EXCEPT !.markets = s.markets]
      BY <2>3, <3>1, <3>2, BootingTyped
    <3>3. CASE boot = [Booting("query") EXCEPT !.auto = FALSE, !.active = active]
      <4>1. boot = [pc |-> "query", attempt |-> 1, early |-> FALSE, auto |-> FALSE,
                    markets |-> {}, active |-> active, forced |-> <<>>, reported |-> {}]
        BY <3>3 DEF Booting
      <4>2. 1 \in Nat /\ {} \in SUBSET Markets /\ <<>> \in Seq(Symbols) /\ {} \in SUBSET Sides
        OBVIOUS
      <4> QED
        BY <2>4, <3>1, <4>1, <4>2
    <3> QED
      BY <2>1, <3>2, <3>3 DEF active
  <2>6. ScannerSound
    <3>1. scanner = [pc |-> "idle", breaker |-> Closed, market |-> {}, todo |-> <<>>,
                     loaded |-> {}, chosen |-> <<>>]
      BY DEF Init, Idle
    <3>2. scanner.pc = "idle" /\ ScannerWhole
      BY <3>1 DEF ScannerWhole
    <3> QED
      BY <3>2 DEF ScannerSound
  <2> QED
    BY <2>2, <2>5, <2>6 DEF StartInv, BootTypes, ForcedSound
<1>2. StartInv /\ [Next]_vars => StartInv'
  <2> SUFFICES ASSUME StartInv, [Next]_vars PROVE StartInv'
    OBVIOUS
  <2>1. CASE early_shutdown_handler \/ EntryFills
    BY <2>1, WipeKeepsStart
  <2>2. CASE BootStep
    BY <2>2, ScanKeepsStart, ScanReturnKeepsStart, WipeKeepsStart, FilterKeepsStart DEF BootStep
  <2>3. ASSUME UNCHANGED <<boot, exchange, scanner>>,
               \/ SignalHandler \/ MainStep \/ FindIdle \/ MonitorProgress
               \/ \E i \in Indices : Tick(i)
        PROVE  StartInv'
    BY <2>3, LiveKeepsStart, MainLeavesBoot
  <2>4. CASE UNCHANGED vars \/ Live(Done)
    BY <2>4, LiveKeepsStart DEF vars, lifeVars, Live, Done
  <2> QED
    BY <2>1, <2>2, <2>3, <2>4 DEF Next, Live
<1> QED
  BY <1>1, <1>2, PTL DEF Spec

-----------------------------------------------------------------------------
(* What the startup promises                                               *)

(* The pipelines are for the listed symbols.                               *)
LEMMA Creation ==
  ASSUME NEW active \in Seq(Symbols), CreatePipelines(active)
  PROVE  /\ DOMAIN pipe' = 0..Len(active) /\ Slots' = 1..Len(active)
         /\ pipe'[Fresh] = NoPipe
         /\ \A i \in 1..Len(active) : pipe'[i] = Created(active[i])
         /\ ActiveSymbols' = {active[i] : i \in 1..Len(active)}
<1>1. DOMAIN active = 1..Len(active) /\ Len(active) \in Nat
  OBVIOUS
<1>2. pipe' = [i \in 0..Len(active) |-> IF i = 0 THEN NoPipe ELSE Created(active[i])]
  <2>1. {Fresh} \cup DOMAIN active = 0..Len(active)
    BY <1>1 DEF Fresh
  <2> QED
    BY <2>1 DEF CreatePipelines, Fresh
<1>3. DOMAIN pipe' = 0..Len(active) /\ Slots' = 1..Len(active) /\ pipe'[Fresh] = NoPipe
  BY <1>1, <1>2 DEF Slots, Fresh
<1>4. \A i \in 1..Len(active) : pipe'[i] = Created(active[i])
  BY <1>1, <1>2
<1>5. ActiveSymbols' = {active[i] : i \in 1..Len(active)}
  <2>1. ActiveSymbols' = {pipe'[i].sym : i \in 1..Len(active)}
    BY <1>3, Zenon DEF ActiveSymbols
  <2>2. \A s : Created(s).sym = s
    BY DEF Created
  <2>3. \A i \in 1..Len(active) : pipe'[i].sym = active[i]
    BY <1>4, <2>2, Zenon
  <2> QED
    BY <2>1, <2>3, Zenon
<1> QED
  BY <1>3, <1>4, <1>5

(* The step from the startup to the pipelines.                             *)
LEMMA StartupEnds ==
  ASSUME main.pc = "boot", main'.pc # "boot", [Next]_vars
  PROVE  ScanReturns \/ Sleep \/ Filter
<1>1. CASE BootStep
  <2>1. ~(Scan \/ WipePlans \/ WipeOrders \/ NoCredentials \/ OpenPositions
          \/ PositionsUnknown \/ FilterPass)
    BY DEF Scan, WipePlans, WipeOrders, NoCredentials, OpenPositions, PositionsUnknown,
       FilterPass, Boot, lifeVars
  <2> QED
    BY <1>1, <2>1 DEF BootStep
<1>2. CASE early_shutdown_handler \/ EntryFills
  BY <1>2 DEF early_shutdown_handler, EntryFills, Boot, lifeVars
<1>3. CASE MainStep
  BY <1>3 DEF MainStep, start, StartNext, StartedOk, StartFailed, StartDone, LaunchMonitor,
     wait_for_shutdown, JoinMonitor, JoinRotation, StopPipeline, PipelineStopped, stop
<1>4. CASE SignalHandler \/ FindIdle \/ \E i \in Indices : Tick(i)
  BY <1>4 DEF SignalHandler, FindIdle, Tick, TickBegin, TickEnd
<1>5. CASE MonitorProgress
  BY <1>5 DEF MonitorProgress, MonitorExit, ScanEmpty, Rescan, RotationDone, SkipHeld,
     Unregister, MonitorStop, MonitorStopped, Create, StartFresh, Register, Assign
<1>6. CASE Done \/ UNCHANGED vars
  BY <1>6 DEF Done, vars, lifeVars
<1> QED
  BY <1>1, <1>2, <1>3, <1>4, <1>5, <1>6 DEF Next, Live

LEMMA OnlyFilterCreates ==
  ASSUME main.pc = "boot", main'.pc = "init", [Next]_vars
  PROVE  /\ Filter /\ boot.active # <<>>
         /\ CreatePipelines(AfterFilter([i \in DOMAIN boot.active |-> boot.active[i].sym]))
<1>1. ~Exit
  BY DEF Exit, Leave
<1>2. ~ScanReturns /\ ~Sleep
  BY <1>1 DEF ScanReturns, Sleep, NextAttempt, Boot, lifeVars
<1> QED
  BY <1>1, <1>2, StartupEnds DEF Filter

(* The list the pipelines are created for: what the filter kept, then the  *)
(* symbols of the positions.                                               *)
LEMMA ListedForCreation ==
  ASSUME BootTypes
  PROVE  LET kept == [i \in DOMAIN boot.active |-> boot.active[i].sym]
             list == AfterFilter(kept)
         IN /\ boot.active \in Seq(Entries) /\ boot.forced \in Seq(Symbols)
            /\ list \in Seq(Symbols)
            /\ Len(list) = Len(boot.active) + Len(boot.forced)
            /\ \A i \in 1..Len(boot.active) : list[i] = boot.active[i].sym
            /\ \A i \in 1..Len(boot.forced) : list[Len(boot.active) + i] = boot.forced[i]
<1> DEFINE kept == [i \in DOMAIN boot.active |-> boot.active[i].sym]
           list == AfterFilter(kept)
<1>1. boot.active \in Seq(Entries) /\ boot.forced \in Seq(Symbols)
  BY DEF BootTypes
<1>2. /\ DOMAIN boot.active = 1..Len(boot.active) /\ Len(boot.active) \in Nat
      /\ \A i \in 1..Len(boot.active) : boot.active[i].sym \in Symbols
      /\ Len(boot.forced) \in Nat
  <2>1. /\ DOMAIN boot.active = 1..Len(boot.active) /\ Len(boot.active) \in Nat
        /\ \A i \in 1..Len(boot.active) : boot.active[i] \in Entries
    BY <1>1
  <2>2. Len(boot.forced) \in Nat
    BY <1>1
  <2>3. \A e \in Entries : e.sym \in Symbols
    BY DEF Entries
  <2> QED
    BY <2>1, <2>2, <2>3
<1>3. kept \in [1..Len(boot.active) -> Symbols]
  BY <1>2
<1>4. kept \in Seq(Symbols) /\ Len(kept) = Len(boot.active)
  BY <1>2, <1>3
<1>5. \A i \in 1..Len(boot.active) : kept[i] = boot.active[i].sym
  BY <1>2
<1> HIDE DEF kept
<1>6. /\ list \in Seq(Symbols)
      /\ Len(list) = Len(kept) + Len(boot.forced)
      /\ \A i \in 1..Len(kept) + Len(boot.forced) :
           list[i] = IF i <= Len(kept) THEN kept[i] ELSE boot.forced[i - Len(kept)]
  BY <1>1, <1>4, ConcatProperties DEF AfterFilter
<1> HIDE DEF list
<1> DEFINE n == Len(boot.active)
           m == Len(boot.forced)
<1>6a. /\ n \in Nat /\ m \in Nat
       /\ \A i \in 1..n : i \in 1..n + m /\ i <= n
       /\ \A i \in 1..m : n + i \in 1..n + m /\ ~(n + i <= n) /\ (n + i) - n = i
  <2>1. n \in Nat /\ m \in Nat
    BY <1>2
  <2> HIDE DEF n, m
  <2> QED
    BY <2>1
<1>7a. \A i \in 1..n + m : list[i] = IF i <= n THEN kept[i] ELSE boot.forced[i - n]
  BY <1>4, <1>6
<1> HIDE DEF n, m
<1>7. \A i \in 1..n : list[i] = boot.active[i].sym
  BY <1>5, <1>6a, <1>7a DEF n
<1>8. \A i \in 1..m : list[n + i] = boot.forced[i]
  <2> TAKE i \in 1..m
  <2>1. n + i \in 1..n + m /\ ~(n + i <= n) /\ (n + i) - n = i
    BY <1>6a
  <2> QED
    BY <1>7a, <2>1
<1> QED
  BY <1>1, <1>4, <1>6, <1>7, <1>8 DEF list, kept, n, m

(* main.cpp:737-746: a startup that ends with symbols added for positions  *)
(* either gives each of them a pipeline, or the filter has left no pair of *)
(* the scan and main returns.                                              *)
THEOREM ForcedSymbolsManaged == Spec => ForcedManagedOrExit
<1> DEFINE Managed == Range(boot.forced) \subseteq ActiveSymbols'
<1>1. ASSUME StartInv, [Next]_vars, main.pc = "boot", main'.pc # "boot", boot.forced # <<>>
      PROVE  IF main'.pc = "init" THEN Managed ELSE BootAt("filter") /\ boot.active = <<>>
  <2>1. CASE main'.pc = "init"
    <3> DEFINE list == AfterFilter([i \in DOMAIN boot.active |-> boot.active[i].sym])
    <3>1. CreatePipelines(list)
      BY <1>1, <2>1, OnlyFilterCreates
    <3>2. /\ boot.active \in Seq(Entries) /\ boot.forced \in Seq(Symbols)
          /\ list \in Seq(Symbols)
          /\ Len(list) = Len(boot.active) + Len(boot.forced)
          /\ \A i \in 1..Len(boot.forced) : list[Len(boot.active) + i] = boot.forced[i]
      BY <1>1, ListedForCreation DEF StartInv
    <3> HIDE DEF list
    <3>3. ActiveSymbols' = {list[i] : i \in 1..Len(list)}
      BY <3>1, <3>2, Creation
    <3>4. \A i \in DOMAIN boot.forced : boot.forced[i] \in ActiveSymbols'
      <4> TAKE i \in DOMAIN boot.forced
      <4>1. i \in 1..Len(boot.forced) /\ Len(boot.active) \in Nat /\ Len(boot.forced) \in Nat
        BY <3>2
      <4>2. Len(boot.active) + i \in 1..Len(list)
        <5> DEFINE n == Len(boot.active)
                   m == Len(boot.forced)
        <5>1. n \in Nat /\ m \in Nat /\ i \in 1..m /\ Len(list) = n + m
          BY <3>2, <4>1
        <5> HIDE DEF n, m
        <5>2. n + i \in 1..n + m
          BY <5>1
        <5> QED
          BY <5>1, <5>2 DEF n
      <4> QED
        BY <3>2, <3>3, <4>1, <4>2
    <3> QED
      BY <2>1, <3>4 DEF Range
  <2>2. CASE main'.pc # "init"
    <3>1. ~ScanReturns /\ ~Sleep
      BY <1>1 DEF ScanReturns, Sleep, BootAt, StartInv, ForcedSound
    <3>2. Filter
      BY <1>1, <3>1, StartupEnds
    <3> QED
      BY <2>2, <3>2 DEF Filter, CreatePipelines
  <2> QED
    BY <2>1, <2>2
<1> QED
  BY <1>1, StartupSound, PTL DEF Spec, ForcedManagedOrExit

(* The pairs a scan puts in the list of active symbols: those it chose, so *)
(* listed, quiet and spread over the sectors, each once, and no other pair *)
(* of the market.                                                          *)
THEOREM BasketsSound == Spec => BasketIsSound
<1> DEFINE basket == {p \in scanner.market : \E i \in DOMAIN boot'.active :
                                                boot'.active[i] = Listed(p)}
           Sound ==
             /\ scanner.market \in boot.markets
             /\ Cardinality(basket) = Len(boot'.active)
             /\ Cardinality(basket) <= TopN
             /\ \A p \in basket :
                  /\ p.online /\ ~p.banned /\ ~(TotalRisk(p) > TradeTrapLimit)
                  /\ Cardinality({q \in basket : q.sector = p.sector}) <= MaxPerSector
<1>1. ASSUME StartInv, [Next]_vars, BootAt("scan"), boot'.pc = "query"
      PROVE  /\ scanner.market \in boot.markets /\ IsBasket(scanner.chosen, scanner.market)
             /\ boot'.active = [i \in DOMAIN scanner.chosen |-> Listed(scanner.chosen[i])]
  <2>1. ASSUME ScanReturns
        PROVE  /\ scanner.pc = "done" /\ scanner.chosen # <<>>
               /\ boot' = [boot EXCEPT !.pc = "query", !.markets = {}, !.attempt = 1,
                              !.active = [i \in DOMAIN scanner.chosen |->
                                            Listed(scanner.chosen[i])]]
    <3>1. ~Exit
      BY <1>1 DEF Exit, Booting
    <3>2. ~Boot([boot EXCEPT !.pc = "sleep"])
      BY <1>1, BootFields DEF Boot
    <3> QED
      BY <2>1, <3>1, <3>2 DEF ScanReturns, Boot
  <2>2. ScanReturns
    <3>1. CASE BootStep
      <4>1. ~(Sleep \/ NoCredentials \/ OpenPositions \/ PositionsUnknown \/ WipePlans
              \/ WipeOrders \/ FilterPass \/ Filter)
        BY <1>1 DEF BootAt, Sleep, NoCredentials, OpenPositions, PositionsUnknown, WipePlans,
           WipeOrders, FilterPass, Filter
      <4>2. ~Scan
        BY <1>1 DEF Scan, BootAt
      <4> QED
        BY <3>1, <4>1, <4>2 DEF BootStep
    <3>2. CASE early_shutdown_handler
      BY <1>1, <3>2, BootFields DEF early_shutdown_handler, Boot, BootAt
    <3>3. CASE EntryFills
      BY <1>1, <3>3 DEF EntryFills, Boot, BootAt
    <3>4. ~(boot' = boot)
      BY <1>1 DEF BootAt
    <3> QED
      BY <1>1, <3>1, <3>2, <3>3, <3>4 DEF Next, Live, vars
  <2>3. boot' = [pc |-> "query", attempt |-> 1, early |-> boot.early, auto |-> boot.auto,
                 markets |-> {}, active |-> [i \in DOMAIN scanner.chosen |->
                                               Listed(scanner.chosen[i])],
                 forced |-> boot.forced, reported |-> boot.reported]
    BY <1>1, <2>1, <2>2, BootFields
  <2>4. boot'.active = [i \in DOMAIN scanner.chosen |-> Listed(scanner.chosen[i])]
    BY <2>3
  <2> QED
    BY <1>1, <2>1, <2>2, <2>4 DEF StartInv, ScannerSound, BootAt
<1>2. ASSUME StartInv, [Next]_vars, BootAt("scan"), boot'.pc = "query"
      PROVE  Sound
  <2> DEFINE chosen == scanner.chosen
             market == scanner.market
  <2>1. /\ market \in boot.markets /\ IsBasket(chosen, market)
        /\ boot'.active = [i \in DOMAIN chosen |-> Listed(chosen[i])]
    BY <1>1, <1>2
  <2>2. /\ market \in Markets
        /\ \A p, q \in market : Listed(p) = Listed(q) => p = q
    BY <1>2, <2>1, MarketsListed DEF StartInv, BootTypes
  <2>3. /\ chosen \in Seq(market) /\ ~Repeats(chosen) /\ Len(chosen) <= TopN
        /\ \A i \in DOMAIN chosen :
             /\ chosen[i].online /\ ~chosen[i].banned
             /\ ~(TotalRisk(chosen[i]) > TradeTrapLimit)
             /\ Cardinality(Sector(chosen, i)) <= MaxPerSector
    BY <2>1 DEF IsBasket
  <2> HIDE DEF chosen, market
  <2>4. /\ DOMAIN chosen = 1..Len(chosen) /\ Len(chosen) \in Nat
        /\ \A i \in DOMAIN chosen : chosen[i] \in market
    BY <2>3
  <2>5. basket = {chosen[i] : i \in DOMAIN chosen}
    <3>1. /\ DOMAIN boot'.active = DOMAIN chosen
          /\ \A i \in DOMAIN chosen : boot'.active[i] = Listed(chosen[i])
      BY <2>1
    <3>2. \A p : p \in basket <=> \E i \in DOMAIN chosen : p = chosen[i]
      BY <2>2, <2>4, <3>1 DEF market
    <3> HIDE DEF basket
    <3> QED
      BY <3>2
  <2> HIDE DEF basket
  <2>6. Cardinality(basket) = Len(chosen) /\ Len(boot'.active) = Len(chosen)
    <3>1. DOMAIN chosen \in SUBSET DOMAIN chosen
      OBVIOUS
    <3>2. \A K \in SUBSET DOMAIN chosen :
            Cardinality({chosen[i] : i \in K}) = Cardinality(K)
      BY <2>3, ListImage
    <3>3. Cardinality({chosen[i] : i \in DOMAIN chosen}) = Cardinality(DOMAIN chosen)
      BY <3>2, <3>1, Zenon
    <3>4. Cardinality(basket) = Cardinality(DOMAIN chosen)
      BY <2>5, <3>3, Zenon
    <3>5. Cardinality(1..Len(chosen)) = Len(chosen)
      BY <2>4, FS_Interval
    <3>6. Len(boot'.active) = Len(chosen)
      BY <2>1, <2>4
    <3> QED
      BY <2>4, <3>4, <3>5, <3>6
  <2>7. ASSUME NEW p \in basket
        PROVE  /\ p.online /\ ~p.banned /\ ~(TotalRisk(p) > TradeTrapLimit)
               /\ Cardinality({q \in basket : q.sector = p.sector}) <= MaxPerSector
    <3>1. PICK k \in DOMAIN chosen : p = chosen[k]
      BY <2>5
    <3>2. {q \in basket : q.sector = p.sector} = {chosen[i] : i \in Sector(chosen, k)}
      BY <2>5, <3>1 DEF Sector
    <3>3. Sector(chosen, k) \in SUBSET DOMAIN chosen
      BY DEF Sector
    <3>4. Cardinality({chosen[i] : i \in Sector(chosen, k)}) = Cardinality(Sector(chosen, k))
      BY <2>3, <3>3, ListImage
    <3> QED
      BY <2>3, <3>1, <3>2, <3>4
  <2> QED
    BY <2>1, <2>3, <2>6, <2>7 DEF market
<1>3. StartInv /\ [Next]_vars => (BootAt("scan") /\ boot'.pc = "query" => Sound)
  BY <1>2
<1> QED
  BY <1>3, StartupSound, PTL DEF Spec, BasketIsSound

-----------------------------------------------------------------------------
(* One pipeline for each symbol                                            *)

(* The lists main() is to create the pipelines for: no symbol twice, none  *)
(* in both.                                                                *)
ListsSound ==
  main.pc = "boot" =>
    /\ \A i, j \in DOMAIN boot.active : i # j => boot.active[i].sym # boot.active[j].sym
    /\ ~Repeats(boot.forced)
    /\ \A i \in DOMAIN boot.active, j \in DOMAIN boot.forced :
         boot.active[i].sym # boot.forced[j]
    /\ boot.pc \in {"scan", "sleep", "query"} => boot.forced = <<>>

(* The steps that leave the lists alone, or main() leaves its startup.     *)
LEMMA ListsKept ==
  ASSUME ListsSound,
         \/ main'.pc # "boot"
         \/ /\ main'.pc = main.pc /\ boot'.active = boot.active /\ boot'.forced = boot.forced
            /\ boot'.pc \in {"scan", "sleep", "query"} => boot.pc \in {"scan", "sleep", "query"}
  PROVE  ListsSound'
BY DEF ListsSound

(* What a scan chose lists a symbol once: the exchange does.               *)
LEMMA ScanListsOnce ==
  ASSUME StartInv, ListsSound, ScanReturns
  PROVE  ListsSound'
<1>1. BootAt("scan") /\ boot.forced = <<>>
  BY DEF ScanReturns, BootAt, ListsSound
<1>2. CASE Exit
  BY <1>2, ListsKept DEF Exit, Leave
<1>3. CASE Boot([boot EXCEPT !.pc = "sleep"])
  <2>1. boot' = [pc |-> "sleep", attempt |-> boot.attempt, early |-> boot.early,
                 auto |-> boot.auto, markets |-> boot.markets, active |-> boot.active,
                 forced |-> boot.forced, reported |-> boot.reported]
    BY <1>3, BootFields DEF Boot
  <2> QED
    BY <1>1, <1>3, <2>1, ListsKept DEF Boot, lifeVars, BootAt
<1>4. ASSUME scanner.pc = "done", scanner.chosen # <<>>,
             Boot([boot EXCEPT !.pc = "query", !.markets = {}, !.attempt = 1,
                               !.active = [i \in DOMAIN scanner.chosen |->
                                             Listed(scanner.chosen[i])]])
      PROVE  ListsSound'
  <2>1. /\ scanner.market \in Markets /\ scanner.chosen \in Seq(scanner.market)
        /\ ~Repeats(scanner.chosen)
    BY <1>1, <1>4 DEF BootAt, StartInv, ScannerSound, BootTypes, IsBasket
  <2>2. \A i \in DOMAIN scanner.chosen : scanner.chosen[i] \in scanner.market
    BY <2>1
  <2>3. \A p, q \in scanner.market : p.sym = q.sym => p = q
    BY <2>1, AppStartupAssumption DEF Markets
  <2>4. \A i, j \in DOMAIN scanner.chosen :
          i # j => scanner.chosen[i].sym # scanner.chosen[j].sym
    BY <2>1, <2>2, <2>3 DEF Repeats
  <2>5. boot' = [pc |-> "query", attempt |-> 1, early |-> boot.early, auto |-> boot.auto,
                 markets |-> {}, active |-> [i \in DOMAIN scanner.chosen |->
                                               Listed(scanner.chosen[i])],
                 forced |-> boot.forced, reported |-> boot.reported]
    BY <1>4, BootFields DEF Boot
  <2>6. boot'.forced = <<>>
    BY <1>1, <2>5
  <2>7. boot'.active = [i \in DOMAIN scanner.chosen |-> Listed(scanner.chosen[i])]
    BY <2>5
  <2>8. \A i, j \in DOMAIN boot'.active : i # j => boot'.active[i].sym # boot'.active[j].sym
    BY <2>4, <2>7 DEF Listed
  <2> QED
    BY <2>6, <2>8 DEF ListsSound, Repeats
<1> QED
  BY <1>2, <1>3, <1>4 DEF ScanReturns

(* The symbols of the positions are those that are not listed yet, each of *)
(* them once.                                                              *)
LEMMA PositionsListOnce ==
  ASSUME StartInv, ListsSound, OpenPositions
  PROVE  ListsSound'
<1> DEFINE known == {boot.active[i].sym : i \in DOMAIN boot.active}
           added == {k.sym : k \in exchange.held} \ known
<1>1. PICK forced \in Orderings(added, [s \in added |-> 0]) :
        Boot([boot EXCEPT !.pc = "wipe plans", !.reported = exchange.held,
                          !.forced = forced])
  BY DEF OpenPositions
<1>2. main.pc = "boot"
  BY DEF OpenPositions, BootAt
<1>3. IsFiniteSet(added)
  <2>1. added \subseteq Symbols
    BY DEF StartInv, BootTypes, Sides
  <2> QED
    BY <2>1, AppLifecycleAssumption, FS_Subset
<1>4. \A i \in DOMAIN boot.active : boot.active[i].sym \notin added
  OBVIOUS
<1> HIDE DEF added
<1>5. forced \in Seq(added) /\ ~Repeats(forced)
  BY <1>1, <1>3, OrderingsList
<1>6. boot' = [pc |-> "wipe plans", attempt |-> boot.attempt, early |-> boot.early,
               auto |-> boot.auto, markets |-> boot.markets, active |-> boot.active,
               forced |-> forced, reported |-> exchange.held]
  BY <1>1, BootFields DEF Boot
<1>7. boot'.pc = "wipe plans" /\ boot'.active = boot.active /\ boot'.forced = forced
  BY <1>6
<1>8. \A j \in DOMAIN forced : forced[j] \in added
  BY <1>5
<1> QED
  BY <1>2, <1>4, <1>5, <1>7, <1>8 DEF ListsSound

(* The filter drops entries of the list, and changes nothing else.         *)
LEMMA FilterListsOnce ==
  ASSUME StartInv, ListsSound, FilterPass
  PROVE  ListsSound'
<1>1. PICK kept \in Kept(boot.active, Affordable) : Boot([boot EXCEPT !.active = kept])
  BY DEF FilterPass
<1>2. main.pc = "boot" /\ boot.pc = "filter"
  BY DEF FilterPass, BootAt
<1>3. boot.active \in Seq(Entries) /\ Affordable \in SUBSET DOMAIN boot.active
  BY DEF StartInv, BootTypes, Affordable
<1>4. /\ kept \in Seq(Entries)
      /\ \E order \in [1..Len(kept) -> Affordable] :
           ~Repeats(order) /\ \A i \in 1..Len(kept) : kept[i] = boot.active[order[i]]
  BY <1>1, <1>3, KeptList
<1>5. PICK order \in [1..Len(kept) -> Affordable] :
        ~Repeats(order) /\ \A i \in 1..Len(kept) : kept[i] = boot.active[order[i]]
  BY <1>4
<1>6. DOMAIN kept = 1..Len(kept) /\ DOMAIN order = 1..Len(kept)
  BY <1>4
<1>7. \A i \in DOMAIN kept : kept[i] = boot.active[order[i]] /\ order[i] \in DOMAIN boot.active
  BY <1>3, <1>5, <1>6
<1>8. \A i, j \in DOMAIN kept : i # j => order[i] # order[j]
  BY <1>5, <1>6 DEF Repeats
<1>9. boot' = [pc |-> boot.pc, attempt |-> boot.attempt, early |-> boot.early,
               auto |-> boot.auto, markets |-> boot.markets, active |-> kept,
               forced |-> boot.forced, reported |-> boot.reported]
  BY <1>1, BootFields DEF Boot
<1>10. boot'.pc = "filter" /\ boot'.active = kept /\ boot'.forced = boot.forced
  BY <1>2, <1>9
<1> QED
  BY <1>2, <1>7, <1>8, <1>10 DEF ListsSound

(* The list the pipelines are created for has a symbol once.               *)
LEMMA CreatedOnce ==
  ASSUME StartInv, ListsSound, main.pc = "boot"
  PROVE  ~Repeats(AfterFilter([i \in DOMAIN boot.active |-> boot.active[i].sym]))
<1> DEFINE list == AfterFilter([i \in DOMAIN boot.active |-> boot.active[i].sym])
           n == Len(boot.active)
           m == Len(boot.forced)
<1>1. /\ boot.active \in Seq(Entries) /\ boot.forced \in Seq(Symbols)
      /\ list \in Seq(Symbols) /\ Len(list) = n + m
      /\ \A i \in 1..n : list[i] = boot.active[i].sym
      /\ \A i \in 1..m : list[n + i] = boot.forced[i]
  BY ListedForCreation DEF StartInv
<1>2. /\ DOMAIN boot.active = 1..n /\ DOMAIN boot.forced = 1..m
      /\ n \in Nat /\ m \in Nat
  BY <1>1
<1>3. DOMAIN list = 1..n + m
  BY <1>1
<1> HIDE DEF list, n, m
<1>4. \A i \in 1..n + m : i \in 1..n \/ (i - n \in 1..m /\ n + (i - n) = i)
  BY <1>2
<1>5. \A i \in 1..n + m : \/ i \in 1..n /\ list[i] = boot.active[i].sym
                          \/ i - n \in 1..m /\ list[i] = boot.forced[i - n]
  <2> TAKE i \in 1..n + m
  <2>1. CASE i \in 1..n
    <3>1. list[i] = boot.active[i].sym
      BY <1>1, <2>1
    <3> QED
      BY <2>1, <3>1
  <2>2. CASE i - n \in 1..m /\ n + (i - n) = i
    <3>1. list[n + (i - n)] = boot.forced[i - n]
      BY <1>1, <2>2
    <3> QED
      BY <2>2, <3>1
  <2> QED
    BY <1>4, <2>1, <2>2
<1>6. \A i, j \in 1..n + m : i - n = j - n => i = j
  BY <1>2
<1>7. SUFFICES ASSUME NEW i \in 1..n + m, NEW j \in 1..n + m, i # j
               PROVE  list[i] # list[j]
  BY <1>3 DEF Repeats, list
<1>8. /\ \A k, l \in 1..n : k # l => boot.active[k].sym # boot.active[l].sym
      /\ \A k, l \in 1..m : k # l => boot.forced[k] # boot.forced[l]
      /\ \A k \in 1..n, l \in 1..m : boot.active[k].sym # boot.forced[l]
  BY <1>2 DEF ListsSound, Repeats
<1>9. i - n # j - n
  BY <1>6, <1>7
<1> QED
  BY <1>5, <1>7, <1>8, <1>9

(* Pipelines created for different symbols: the monitor has not begun.     *)
LEMMA CreationKeepsLife ==
  ASSUME LifeInv, NEW list \in Seq(Symbols), ~Repeats(list), CreatePipelines(list)
  PROVE  LifeInv'
<1>1. /\ DOMAIN pipe' = 0..Len(list) /\ Slots' = 1..Len(list)
      /\ pipe'[Fresh] = NoPipe
      /\ \A i \in 1..Len(list) : pipe'[i] = Created(list[i])
  BY Creation
<1>2. /\ monitor' = monitor /\ monitor.pc = "none"
      /\ main' = [pc |-> "init", at |-> 1]
  BY DEF CreatePipelines, LifeInv, PlacesAreSlots
<1>3. DOMAIN list = 1..Len(list) /\ Len(list) \in Nat /\ \A i \in 1..Len(list) : list[i] \in Symbols
  OBVIOUS
<1>4. /\ NoPipe \in Pipes /\ NoPipe.run = "none"
      /\ \A s \in Symbols : Created(s) \in Pipes /\ Created(s).sym = s
  BY DEF NoPipe, Created, Pipes
<1>5. \A i \in 0..Len(list) : i = Fresh \/ i \in 1..Len(list)
  BY <1>3 DEF Fresh
<1>6. \A i \in 0..Len(list) : pipe'[i] \in Pipes
  BY <1>1, <1>3, <1>4, <1>5
<1>7. pipe' \in [0..Len(list) -> Pipes]
  <2>1. pipe' = [i \in DOMAIN pipe' |-> pipe'[i]]
    BY <1>1 DEF CreatePipelines
  <2> QED
    BY <1>1, <1>6, <2>1
<1>8. LifeTypes'
  BY <1>1, <1>2, <1>3, <1>7 DEF LifeInv, LifeTypes, MainPcs, Fresh
<1>9. SlotsDiffer'
  <2> SUFFICES ASSUME NEW i \in 1..Len(list), NEW j \in 1..Len(list), i # j
               PROVE  pipe'[i].sym # pipe'[j].sym
    BY <1>1 DEF SlotsDiffer
  <2>1. list[i] # list[j]
    BY <1>3 DEF Repeats
  <2>2. pipe'[i].sym = list[i] /\ pipe'[j].sym = list[j]
    BY <1>1, <1>3, <1>4
  <2> QED
    BY <2>1, <2>2
<1>10. PoolIsFree' /\ FreshIsFree' /\ PlacesAreSlots'
  BY <1>1, <1>2, <1>4 DEF PoolIsFree, FreshIsFree, PlacesAreSlots, Rotating, WithSlot, WithFresh
<1> QED
  BY <1>8, <1>9, <1>10 DEF LifeInv

(* main() has no pipeline yet; a configured list is taken as it is.        *)
LEMMA LifeBegins ==
  ASSUME ~Repeats(Manual), Init
  PROVE  LifeInv /\ ListsSound
<1>1. LifeInv
  <2>1. /\ pipe = [i \in {Fresh} |-> NoPipe]
        /\ main = [pc |-> "boot", at |-> 1]
        /\ monitor = [pc |-> "none", idle |-> {}, pool |-> {}, slot |-> 1, old |-> NoSymbol]
    BY DEF Init, LifeInit, NotRotating
  <2>2. NoPipe \in Pipes /\ NoPipe.run = "none"
    BY DEF NoPipe, Pipes
  <2>3. DOMAIN pipe = {Fresh} /\ Slots = {} /\ pipe[Fresh] = NoPipe
    BY <2>1 DEF Slots
  <2>4. LifeTypes
    <3>1. pipe \in [DOMAIN pipe -> Pipes]
      BY <2>1, <2>2
    <3> QED
      BY <2>1, <2>3, <3>1 DEF LifeTypes, MainPcs, MonitorPcs, Fresh
  <2>5. SlotsDiffer /\ PoolIsFree /\ FreshIsFree /\ PlacesAreSlots
    BY <2>1, <2>2, <2>3
       DEF SlotsDiffer, PoolIsFree, FreshIsFree, PlacesAreSlots, Rotating, WithSlot, WithFresh
  <2> QED
    BY <2>4, <2>5 DEF LifeInv
<1>2. ListsSound
  <2> DEFINE active == [i \in DOMAIN Manual |-> [sym |-> Manual[i], cost |-> 0]]
  <2>1. PICK s \in Scenarios : boot \in {[Booting("scan") EXCEPT !.markets = s.markets],
                                        [Booting("query") EXCEPT !.auto = FALSE,
                                                                 !.active = active]}
    BY DEF Init
  <2>2. \A i, j \in DOMAIN active : i # j => active[i].sym # active[j].sym
    BY DEF Repeats
  <2> HIDE DEF active
  <2>3. boot.active \in {<<>>, active} /\ boot.forced = <<>>
    BY <2>1 DEF Booting
  <2> QED
    BY <2>2, <2>3 DEF ListsSound, Repeats
<1> QED
  BY <1>1, <1>2

(* Every step of the startup keeps the pipelines, or creates the first.    *)
LEMMA BootKeepsLife ==
  ASSUME StartInv, LifeInv, ListsSound, BootStep \/ early_shutdown_handler \/ EntryFills
  PROVE  LifeInv' /\ ListsSound'
<1>1. ASSUME UNCHANGED lifeVars PROVE LifeInv'
  BY <1>1 DEF lifeVars, LifeInv, LifeTypes, SlotsDiffer, PoolIsFree, FreshIsFree, PlacesAreSlots,
     Slots, ActiveSymbols, Slot
<1>2. ASSUME Exit PROVE LifeInv' /\ ListsSound'
  <2>1. /\ main.pc = "boot" /\ main' = [pc |-> "done", at |-> 1]
        /\ UNCHANGED <<pipe, monitor>>
    BY <1>2 DEF Exit, Leave
  <2>2. LifeInv'
    BY <2>1, MainMoves DEF Goto, MainPcs
  <2> QED
    BY <2>1, <2>2, ListsKept
<1>3. CASE ScanReturns
  <2>1. Exit \/ UNCHANGED lifeVars
    BY <1>3 DEF ScanReturns, Boot
  <2> QED
    BY <1>1, <1>2, <1>3, <2>1, ScanListsOnce
<1>4. ASSUME UNCHANGED lifeVars, boot'.active = boot.active, boot'.forced = boot.forced,
             boot'.pc \in {"scan", "sleep", "query"} => boot.pc \in {"scan", "sleep", "query"}
      PROVE  LifeInv' /\ ListsSound'
  <2>1. main' = main
    BY <1>4 DEF lifeVars
  <2> QED
    BY <1>1, <1>4, <2>1, ListsKept
<1>5. ASSUME NEW pc \in {"wipe plans", "wipe orders", "filter"}, Boot([boot EXCEPT !.pc = pc])
      PROVE  LifeInv' /\ ListsSound'
  <2>1. boot' = [pc |-> pc, attempt |-> boot.attempt, early |-> boot.early,
                 auto |-> boot.auto, markets |-> boot.markets, active |-> boot.active,
                 forced |-> boot.forced, reported |-> boot.reported]
    BY <1>5, BootFields DEF Boot
  <2>2. boot'.pc = pc /\ boot'.active = boot.active /\ boot'.forced = boot.forced
    BY <2>1
  <2> QED
    BY <1>4, <1>5, <2>2 DEF Boot
<1>6. CASE NoCredentials \/ PositionsUnknown \/ WipePlans \/ WipeOrders
  BY <1>5, <1>6 DEF NoCredentials, PositionsUnknown, WipePlans, WipeOrders
<1>7. CASE Scan
  <2>1. UNCHANGED lifeVars /\ boot' = boot /\ main' = main
    BY <1>7 DEF Scan, lifeVars
  <2> QED
    BY <1>1, <2>1, ListsKept
<1>8. CASE EntryFills
  BY <1>4, <1>8 DEF EntryFills, Boot
<1>9. CASE early_shutdown_handler
  <2>1. boot' = [pc |-> boot.pc, attempt |-> boot.attempt, early |-> TRUE,
                 auto |-> boot.auto, markets |-> boot.markets, active |-> boot.active,
                 forced |-> boot.forced, reported |-> boot.reported]
    BY <1>9, BootFields DEF early_shutdown_handler, Boot
  <2>2. boot'.pc = boot.pc /\ boot'.active = boot.active /\ boot'.forced = boot.forced
    BY <2>1
  <2> QED
    BY <1>4, <1>9, <2>2 DEF early_shutdown_handler, Boot
<1>10. CASE Sleep
  <2>1. ASSUME BootAt("sleep"), NextAttempt PROVE LifeInv' /\ ListsSound'
    <3>1. boot' = [pc |-> "scan", attempt |-> boot.attempt + 1, early |-> boot.early,
                   auto |-> boot.auto, markets |-> boot.markets, active |-> boot.active,
                   forced |-> boot.forced, reported |-> boot.reported]
      BY <2>1, BootFields DEF NextAttempt, Boot
    <3>2. boot'.pc = "scan" /\ boot'.active = boot.active /\ boot'.forced = boot.forced
      BY <3>1
    <3> QED
      BY <1>4, <2>1, <3>2 DEF NextAttempt, BootAt, Boot
  <2> QED
    BY <1>2, <1>10, <2>1 DEF Sleep
<1>11. CASE OpenPositions
  <2>1. UNCHANGED lifeVars
    BY <1>11 DEF OpenPositions, Boot
  <2> QED
    BY <1>1, <1>11, <2>1, PositionsListOnce
<1>12. CASE FilterPass
  <2>1. UNCHANGED lifeVars
    BY <1>12 DEF FilterPass, Boot
  <2> QED
    BY <1>1, <1>12, <2>1, FilterListsOnce
<1>13. CASE Filter
  <2> DEFINE list == AfterFilter([i \in DOMAIN boot.active |-> boot.active[i].sym])
  <2>1. Exit \/ (CreatePipelines(list) /\ main.pc = "boot")
    BY <1>13 DEF Filter, BootAt
  <2>2. ASSUME CreatePipelines(list), main.pc = "boot" PROVE LifeInv' /\ ListsSound'
    <3>1. list \in Seq(Symbols)
      BY ListedForCreation DEF StartInv
    <3>2. ~Repeats(list)
      BY <2>2, CreatedOnce
    <3>3. main'.pc = "init"
      BY <2>2 DEF CreatePipelines
    <3> HIDE DEF list
    <3>4. LifeInv'
      BY <2>2, <3>1, <3>2, CreationKeepsLife
    <3> QED
      BY <3>3, <3>4, ListsKept
  <2> QED
    BY <1>2, <2>1, <2>2
<1> QED
  BY <1>3, <1>6, <1>7, <1>8, <1>9, <1>10, <1>11, <1>12, <1>13 DEF BootStep

(* The steps after the startup keep the pipelines apart.                   *)
LEMMA LiveKeepsLife ==
  ASSUME LifeInv, ListsSound, UNCHANGED boot,
         \/ SignalHandler \/ MainStep \/ FindIdle \/ MonitorProgress
         \/ \E i \in Indices : Tick(i)
  PROVE  LifeInv' /\ ListsSound'
<1>1. MainStep => main'.pc # "boot"
  <2>1. MainStep => \E pc \in MainPcs \ {"boot"} : \E i : Goto(pc, i)
    BY DEF MainPcs, MainStep, start, StartNext, StartedOk, StartFailed, StartDone, LaunchMonitor,
       wait_for_shutdown, JoinMonitor, JoinRotation, StopPipeline, PipelineStopped, stop
  <2>2. \A pc, i : Goto(pc, i) => main'.pc = pc
    BY DEF Goto
  <2> QED
    BY <2>1, <2>2
<1>2. main'.pc # "boot" \/ main'.pc = main.pc
  <2>1. CASE MonitorProgress
    BY <2>1 DEF MonitorProgress, MonitorExit, ScanEmpty, Rescan, RotationDone, SkipHeld,
       Unregister, MonitorStop, MonitorStopped, Create, StartFresh, Register, Assign
  <2>2. CASE SignalHandler \/ FindIdle \/ \E i \in Indices : Tick(i)
    BY <2>2 DEF SignalHandler, FindIdle, Tick, TickBegin, TickEnd
  <2>3. CASE MainStep
    BY <1>1, <2>3
  <2> QED
    BY <2>1, <2>2, <2>3
<1>3. ListsSound'
  BY <1>2, ListsKept
<1>4. CASE MonitorProgress
  BY <1>3, <1>4, MonitorLooks, MonitorStopsSlot, CreateKeepsLife, StartFreshKeepsLife,
     AssignKeepsLife DEF MonitorProgress
<1>5. CASE FindIdle
  BY <1>3, <1>5, MonitorLooks
<1>6. CASE \E i \in Indices : Tick(i)
  BY <1>3, <1>6, TickKeepsLife
<1>7. CASE SignalHandler
  <2>1. UNCHANGED <<pipe, main, monitor>>
    BY <1>7 DEF SignalHandler
  <2> QED
    BY <1>3, <2>1 DEF LifeInv, LifeTypes, SlotsDiffer, PoolIsFree, FreshIsFree, PlacesAreSlots,
       Slots, ActiveSymbols, Slot
<1> QED
  BY <1>3, <1>4, <1>5, <1>6, <1>7, MainKeepsLife

(* No two pipelines ever trade the same symbol, if the configuration lists *)
(* none twice: not after the scan, the positions of the exchange and the   *)
(* filter have made the first list, and not while the monitor rotates.     *)
THEOREM PipelinesDiffer ==
  ASSUME ~Repeats(Manual)
  PROVE  Spec => []OnePipelinePerSymbol
<1> DEFINE IInv == LifeInv /\ ListsSound
<1>1. Init => IInv
  BY LifeBegins
<1>2. StartInv /\ IInv /\ [Next]_vars => IInv'
  <2> SUFFICES ASSUME StartInv, LifeInv, ListsSound, [Next]_vars
               PROVE  LifeInv' /\ ListsSound'
    OBVIOUS
  <2>1. CASE BootStep \/ early_shutdown_handler \/ EntryFills
    BY <2>1, BootKeepsLife
  <2>2. CASE \/ Live(SignalHandler) \/ Live(MainStep) \/ Live(FindIdle)
             \/ Live(MonitorProgress) \/ \E i \in Indices : Live(Tick(i))
    BY <2>2, LiveKeepsLife DEF Live
  <2>3. CASE Live(Done) \/ UNCHANGED vars
    <3>1. UNCHANGED <<pipe, main, monitor, boot>>
      BY <2>3 DEF Live, Done, vars, lifeVars
    <3> QED
      BY <3>1, ListsKept DEF LifeInv, LifeTypes, SlotsDiffer, PoolIsFree, FreshIsFree,
         PlacesAreSlots, Slots, ActiveSymbols, Slot
  <2> QED
    BY <2>1, <2>2, <2>3 DEF Next
<1>3. IInv => OnePipelinePerSymbol
  <2> SUFFICES ASSUME LifeInv, NEW i \in DOMAIN pipe, NEW j \in DOMAIN pipe, i # j,
                      pipe[i].run # "none", pipe[j].run # "none"
               PROVE  pipe[i].sym # pipe[j].sym
    BY DEF OnePipelinePerSymbol
  <2>1. CASE i # Fresh /\ j # Fresh
    BY <2>1 DEF LifeInv, SlotsDiffer, Slots
  <2>2. ASSUME NEW k \in DOMAIN pipe, k # Fresh, pipe[Fresh].run # "none"
        PROVE  pipe[k].sym # pipe[Fresh].sym
    <3>1. k \in Slots
      BY <2>2 DEF Slots
    <3>2. pipe[k].sym \in ActiveSymbols
      BY <3>1 DEF ActiveSymbols
    <3> QED
      BY <2>2, <3>2 DEF LifeInv, FreshIsFree
  <2> QED
    BY <2>1, <2>2
<1> QED
  BY <1>1, <1>2, <1>3, StartupSound, PTL DEF Spec

-----------------------------------------------------------------------------
(* The periodic tasks                                                      *)

WorkerPcs == {"top", "wait", "exited", "popped", "run", "clear", "done"}
WorkerStates == [pc: WorkerPcs, job: TaskSet \cup {Nothing}]

TasksInv ==
  /\ queue \in Seq(TaskSet)
  /\ worker \in [Workers -> WorkerStates]
  /\ OneJobPerFlag

(* A worker that neither takes a job nor gives one up.                     *)
LEMMA WorkerMoves ==
  ASSUME TasksInv, NEW w \in Workers, NEW r \in WorkerStates,
         worker' = [worker EXCEPT ![w] = r], UNCHANGED <<queue, flags>>,
         r.pc \in {"popped", "run", "clear"} => Active(w) /\ r.job = worker[w].job
  PROVE  TasksInv'
<1>1. worker' \in [Workers -> WorkerStates]
  BY DEF TasksInv
<1>2. \A v \in Workers, k \in Guarded : Takes(v, k)' => Takes(v, k)
  <2> TAKE v \in Workers, k \in Guarded
  <2>1. worker'[v] = IF v = w THEN r ELSE worker[v]
    BY DEF TasksInv
  <2> QED
    BY <2>1 DEF Takes, Active
<1>3. OneJobPerFlag'
  BY <1>2 DEF TasksInv, OneJobPerFlag
<1> QED
  BY <1>1, <1>3 DEF TasksInv

(* A worker takes the oldest job: it leaves the queue as it is taken.      *)
LEMMA PopKeepsTasks ==
  ASSUME TasksInv, NEW w \in Workers, Pop(w)
  PROVE  TasksInv'
<1> DEFINE q == Tail(queue)
           h == Head(queue)
           r == [pc |-> "popped", job |-> h]
<1>1. /\ queue \in Seq(TaskSet) /\ queue # <<>>
      /\ queue' = q /\ worker' = [worker EXCEPT ![w] = r] /\ flags' = flags
      /\ worker[w].pc = "wait"
  BY DEF Pop, TasksInv
<1>2. /\ h = queue[1] /\ h \in TaskSet /\ q \in Seq(TaskSet)
      /\ Len(q) = Len(queue) - 1 /\ Len(queue) \in Nat \ {0}
  BY <1>1, HeadTailProperties, EmptySeq
<1>3. \A i \in DOMAIN q : q[i] = queue[i + 1] /\ i + 1 \in DOMAIN queue /\ i \in Nat
  BY <1>1, <1>2, HeadTailProperties
<1>4. 1 \in DOMAIN queue /\ \A i \in DOMAIN q : i + 1 # 1
  BY <1>1, <1>2, <1>3
<1> HIDE DEF q, h
<1>5. r \in WorkerStates /\ r.job = h
  BY <1>2 DEF WorkerStates, WorkerPcs
<1>6. worker' \in [Workers -> WorkerStates]
  BY <1>1, <1>5 DEF TasksInv
<1>7. \A v \in Workers, k \in Guarded : Takes(v, k)' => IF v = w THEN k = h ELSE Takes(v, k)
  <2> TAKE v \in Workers, k \in Guarded
  <2>1. worker'[v] = IF v = w THEN r ELSE worker[v]
    BY <1>1 DEF TasksInv
  <2> QED
    BY <1>5, <2>1 DEF Takes, Active
<1>8. OneJobPerFlag'
  <2> SUFFICES ASSUME NEW k \in Guarded
               PROVE  /\ \A i, j \in DOMAIN q : q[i] = k /\ q[j] = k => i = j
                      /\ \A u, v \in Workers : Takes(u, k)' /\ Takes(v, k)' => u = v
                      /\ \A i \in DOMAIN q, v \in Workers : ~(q[i] = k /\ Takes(v, k)')
                      /\ (\E i \in DOMAIN q : q[i] = k) \/ (\E v \in Workers : Takes(v, k)')
                           => k \in flags
    BY <1>1 DEF OneJobPerFlag
  <2>1. /\ \A i, j \in DOMAIN queue : queue[i] = k /\ queue[j] = k => i = j
        /\ \A u, v \in Workers : Takes(u, k) /\ Takes(v, k) => u = v
        /\ \A i \in DOMAIN queue, v \in Workers : ~(queue[i] = k /\ Takes(v, k))
        /\ (\E i \in DOMAIN queue : queue[i] = k) \/ (\E v \in Workers : Takes(v, k))
             => k \in flags
    BY DEF TasksInv, OneJobPerFlag
  <2>2. \A i, j \in DOMAIN q : q[i] = k /\ q[j] = k => i = j
    <3> SUFFICES ASSUME NEW i \in DOMAIN q, NEW j \in DOMAIN q, q[i] = k, q[j] = k
                 PROVE  i = j
      OBVIOUS
    <3>1. i + 1 = j + 1 /\ i \in Nat /\ j \in Nat
      BY <1>3, <2>1
    <3> QED
      BY <3>1
  <2>3. k = h => (\A v \in Workers : ~Takes(v, k)) /\ (\A i \in DOMAIN q : q[i] # k)
    BY <1>2, <1>3, <1>4, <2>1
  <2>4. \A u, v \in Workers : Takes(u, k)' /\ Takes(v, k)' => u = v
    BY <1>7, <2>1, <2>3
  <2>5. \A i \in DOMAIN q, v \in Workers : ~(q[i] = k /\ Takes(v, k)')
    BY <1>3, <1>7, <2>1, <2>3
  <2>6. (\E i \in DOMAIN q : q[i] = k) \/ (\E v \in Workers : Takes(v, k)') => k \in flags
    BY <1>2, <1>3, <1>4, <1>7, <2>1
  <2> QED
    BY <2>2, <2>4, <2>5, <2>6
<1> QED
  BY <1>1, <1>2, <1>6, <1>8 DEF TasksInv

(* A flag goes down when its only job is at its end.                       *)
LEMMA ClearKeepsTasks ==
  ASSUME TasksInv, NEW w \in Workers, ClearFlag(w)
  PROVE  TasksInv'
<1> DEFINE r == [worker[w] EXCEPT !.pc = "done"]
<1>1. /\ queue' = queue /\ flags' = flags \ {worker[w].job}
      /\ worker' = [worker EXCEPT ![w] = r]
      /\ Active(w)
  BY DEF ClearFlag, Active
<1>2. r \in WorkerStates /\ r.pc = "done"
  BY DEF TasksInv, WorkerStates, WorkerPcs
<1> HIDE DEF r
<1>3. worker' \in [Workers -> WorkerStates]
  BY <1>1, <1>2 DEF TasksInv
<1>4. \A v \in Workers, k \in Guarded : Takes(v, k)' => Takes(v, k) /\ v # w
  <2> TAKE v \in Workers, k \in Guarded
  <2>1. worker'[v] = IF v = w THEN r ELSE worker[v]
    BY <1>1 DEF TasksInv
  <2> QED
    BY <1>2, <2>1 DEF Takes, Active
<1>5. OneJobPerFlag'
  <2> SUFFICES ASSUME NEW k \in Guarded
               PROVE  /\ \A u, v \in Workers : Takes(u, k)' /\ Takes(v, k)' => u = v
                      /\ \A i \in DOMAIN queue, v \in Workers : ~(queue[i] = k /\ Takes(v, k)')
                      /\ (\E i \in DOMAIN queue : queue[i] = k)
                           \/ (\E v \in Workers : Takes(v, k)') => k \in flags'
    BY <1>1 DEF TasksInv, OneJobPerFlag
  <2>1. /\ \A u, v \in Workers : Takes(u, k) /\ Takes(v, k) => u = v
        /\ \A i \in DOMAIN queue, v \in Workers : ~(queue[i] = k /\ Takes(v, k))
        /\ (\E i \in DOMAIN queue : queue[i] = k) \/ (\E v \in Workers : Takes(v, k))
             => k \in flags
    BY DEF TasksInv, OneJobPerFlag
  <2>2. k = worker[w].job => Takes(w, k)
    BY <1>1 DEF Takes
  <2> QED
    BY <1>1, <1>4, <2>1, <2>2
<1> QED
  BY <1>1, <1>3, <1>5 DEF TasksInv

(* A queue to which a job is added, at its limit without its first: the    *)
(* others are those of the queue.                                          *)
LEMMA Submitted ==
  ASSUME queue \in Seq(TaskSet), NEW k \in TaskSet, submit(k)
  PROVE  /\ queue' \in Seq(TaskSet)
         /\ queue'[Len(queue')] = k
         /\ \E d \in {0, 1} : \A i \in DOMAIN queue' :
              i # Len(queue') => i \in Nat /\ i + d \in DOMAIN queue /\ queue'[i] = queue[i + d]
<1>1. ASSUME NEW d \in {0, 1}, NEW q \in Seq(TaskSet), queue' = Append(q, k),
             \A i \in DOMAIN q : i + d \in DOMAIN queue /\ q[i] = queue[i + d]
      PROVE  /\ queue' \in Seq(TaskSet) /\ queue'[Len(queue')] = k
             /\ \A i \in DOMAIN queue' :
                  i # Len(queue') => i \in Nat /\ i + d \in DOMAIN queue /\ queue'[i] = queue[i + d]
  <2>1. /\ queue' \in Seq(TaskSet) /\ Len(queue') = Len(q) + 1 /\ Len(q) \in Nat
        /\ DOMAIN queue' = 1..Len(q) + 1 /\ DOMAIN q = 1..Len(q)
        /\ \A i \in 1..Len(q) : queue'[i] = q[i]
        /\ queue'[Len(q) + 1] = k
    BY <1>1, AppendProperties
  <2>2. \A i \in 1..Len(q) + 1 : i # Len(q) + 1 => i \in 1..Len(q) /\ i \in Nat
    BY <2>1
  <2> QED
    BY <1>1, <2>1, <2>2
<1>2. CASE Len(queue) >= MaxQueue
  <2>1. /\ queue # <<>> /\ queue' = Append(Tail(queue), k)
    BY <1>2, PeriodicTasksAssumption, EmptySeq DEF submit
  <2>2. /\ Tail(queue) \in Seq(TaskSet) /\ Len(Tail(queue)) = Len(queue) - 1
        /\ \A i \in 1..Len(Tail(queue)) : Tail(queue)[i] = queue[i + 1]
        /\ Len(queue) \in Nat
    BY <2>1, HeadTailProperties
  <2>3. \A i \in DOMAIN Tail(queue) : i + 1 \in DOMAIN queue /\ Tail(queue)[i] = queue[i + 1]
    BY <2>2
  <2> QED
    BY <1>1, <2>1, <2>2, <2>3
<1>3. CASE ~(Len(queue) >= MaxQueue)
  <2>1. queue' = Append(queue, k)
    BY <1>3 DEF submit
  <2>2. \A i \in DOMAIN queue : i + 0 \in DOMAIN queue /\ queue[i] = queue[i + 0]
    OBVIOUS
  <2> QED
    BY <1>1, <2>1, <2>2
<1> QED
  BY <1>2, <1>3

(* A guarded task is offered when its flag is down, that is when no job of *)
(* it is queued or taken, and then raises it.                              *)
LEMMA OfferKeepsTasks ==
  ASSUME TasksInv, OfferTask
  PROVE  TasksInv'
<1>1. Turn \in TaskSet /\ worker' = worker
  BY PeriodicTasksAssumption DEF OfferTask
<1>2. \A w \in Workers, k \in Guarded : Takes(w, k)' <=> Takes(w, k)
  BY <1>1 DEF Takes, Active
<1>3. CASE Turn \in flags
  <2>1. queue' = queue /\ flags' = flags
    BY <1>3 DEF OfferTask
  <2> QED
    BY <1>1, <1>2, <2>1 DEF TasksInv, OneJobPerFlag
<1>4. CASE Turn \notin flags
  <2>1. submit(Turn) /\ flags' = flags \cup ({Turn} \cap Guarded)
    BY <1>4 DEF OfferTask
  <2>2. queue' \in Seq(TaskSet) /\ queue'[Len(queue')] = Turn
    BY <1>1, <2>1, Submitted DEF TasksInv
  <2>3. PICK d \in {0, 1} : \A i \in DOMAIN queue' :
          i # Len(queue') => i \in Nat /\ i + d \in DOMAIN queue /\ queue'[i] = queue[i + d]
    BY <1>1, <2>1, Submitted DEF TasksInv
  <2>4. OneJobPerFlag'
    <3> SUFFICES ASSUME NEW k \in Guarded
                 PROVE  /\ \A i, j \in DOMAIN queue' : queue'[i] = k /\ queue'[j] = k => i = j
                        /\ \A v, w \in Workers : Takes(v, k) /\ Takes(w, k) => v = w
                        /\ \A i \in DOMAIN queue', w \in Workers : ~(queue'[i] = k /\ Takes(w, k))
                        /\ (\E i \in DOMAIN queue' : queue'[i] = k)
                             \/ (\E w \in Workers : Takes(w, k)) => k \in flags'
      BY <1>2 DEF OneJobPerFlag
    <3>1. /\ \A i, j \in DOMAIN queue : queue[i] = k /\ queue[j] = k => i = j
          /\ \A v, w \in Workers : Takes(v, k) /\ Takes(w, k) => v = w
          /\ \A i \in DOMAIN queue, w \in Workers : ~(queue[i] = k /\ Takes(w, k))
          /\ (\E i \in DOMAIN queue : queue[i] = k) \/ (\E w \in Workers : Takes(w, k))
               => k \in flags
      BY DEF TasksInv, OneJobPerFlag
    <3>2. CASE k = Turn
      <4>1. /\ k \in flags'
            /\ \A i \in DOMAIN queue : queue[i] # k
            /\ \A w \in Workers : ~Takes(w, k)
        BY <1>4, <2>1, <3>1, <3>2
      <4>2. \A i \in DOMAIN queue' : queue'[i] = k => i = Len(queue')
        BY <2>3, <4>1
      <4> QED
        BY <4>1, <4>2
    <3>3. CASE k # Turn
      <4>1. \A i \in DOMAIN queue' :
              queue'[i] = k => i \in Nat /\ i + d \in DOMAIN queue /\ queue[i + d] = k
        BY <2>2, <2>3, <3>3
      <4>2. \A i, j \in DOMAIN queue' : queue'[i] = k /\ queue'[j] = k => i = j
        <5> SUFFICES ASSUME NEW i \in DOMAIN queue', NEW j \in DOMAIN queue',
                            queue'[i] = k, queue'[j] = k
                     PROVE  i = j
          OBVIOUS
        <5>1. i \in Nat /\ j \in Nat /\ i + d = j + d
          BY <3>1, <4>1
        <5> QED
          BY <5>1
      <4>3. k \in flags => k \in flags'
        BY <2>1
      <4> QED
        BY <3>1, <4>1, <4>2, <4>3
    <3> QED
      BY <3>2, <3>3
  <2> QED
    BY <1>1, <2>2, <2>4 DEF TasksInv
<1> QED
  BY <1>3, <1>4

(* The steps of a worker that keep it out of a job, or in its job.         *)
LEMMA WorkersKeepTasks ==
  ASSUME TasksInv, NEW w \in Workers, WorkerStep(w)
  PROVE  TasksInv'
<1>1. worker[w] \in WorkerStates
  BY DEF TasksInv
<1>2. ASSUME NEW pc \in WorkerPcs, worker' = [worker EXCEPT ![w].pc = pc],
             UNCHANGED <<queue, flags>>, pc \in {"popped", "run", "clear"} => Active(w)
      PROVE  TasksInv'
  <2> DEFINE r == [worker[w] EXCEPT !.pc = pc]
  <2>1. r \in WorkerStates /\ r.pc = pc /\ r.job = worker[w].job
    BY <1>1 DEF WorkerStates
  <2>2. worker' = [worker EXCEPT ![w] = r]
    BY <1>2
  <2> HIDE DEF r
  <2> QED
    BY <1>2, <2>1, <2>2, WorkerMoves
<1>3. CASE LoopTop(w) \/ WorkerExit(w) \/ Begin(w)
  BY <1>2, <1>3 DEF LoopTop, WorkerExit, Begin, Active, WorkerPcs
<1>4. CASE Reconcile(w) \/ BalanceSync(w) \/ ClockSync(w) \/ OtherJob(w)
  <2>1. Ran(w) /\ UNCHANGED <<queue, flags>> /\ Active(w)
    BY <1>4 DEF Reconcile, BalanceSync, ClockSync, OtherJob, Runs, Active
  <2>2. PICK pc \in {"clear", "done"} : worker' = [worker EXCEPT ![w].pc = pc]
    BY <2>1 DEF Ran
  <2> QED
    BY <1>2, <2>1, <2>2 DEF WorkerPcs
<1>5. CASE Finish(w)
  <2> DEFINE r == [pc |-> "top", job |-> Nothing]
  <2>1. r \in WorkerStates
    BY DEF WorkerStates, WorkerPcs
  <2> QED
    BY <1>5, <2>1, WorkerMoves DEF Finish
<1>6. CASE Pop(w) \/ ClearFlag(w)
  BY <1>6, PopKeepsTasks, ClearKeepsTasks
<1> QED
  BY <1>3, <1>4, <1>5, <1>6 DEF WorkerStep

(* With any number of workers and any limit of the queue, a guarded task   *)
(* is queued or run at most once, and only while its flag is up.           *)
THEOREM GuardedTasksOnce == BackgroundSpec => []OneJobPerFlag
<1>1. BackgroundInit => TasksInv
  <2> SUFFICES ASSUME BackgroundInit PROVE TasksInv
    OBVIOUS
  <2>1. PICK pc \in {"top", "exited"} :
          queue = <<>> /\ worker = [w \in Workers |-> [pc |-> pc, job |-> Nothing]]
    BY DEF BackgroundInit, TasksInit
  <2>2. [pc |-> pc, job |-> Nothing] \in WorkerStates
    BY DEF WorkerStates, WorkerPcs
  <2>3. \A w \in Workers, k \in Guarded : ~Takes(w, k)
    BY <2>1 DEF Takes, Active
  <2> QED
    BY <2>1, <2>2, <2>3 DEF TasksInv, OneJobPerFlag
<1>2. TasksInv /\ [BackgroundNext]_<<taskVars, breakerVars>> => TasksInv'
  <2> SUFFICES ASSUME TasksInv, [BackgroundNext]_<<taskVars, breakerVars>> PROVE TasksInv'
    OBVIOUS
  <2>1. CASE \E w \in Workers : WorkerStep(w)
    BY <2>1, WorkersKeepTasks
  <2>2. CASE OfferTask
    BY <2>2, OfferKeepsTasks
  <2>3. ASSUME UNCHANGED <<queue, worker, flags>> PROVE TasksInv'
    <3>1. \A w \in Workers, k \in Guarded : Takes(w, k)' <=> Takes(w, k)
      BY <2>3 DEF Takes, Active
    <3> QED
      BY <2>3, <3>1 DEF TasksInv, OneJobPerFlag
  <2>4. CASE BeginTick \/ NotDue \/ TasksDone \/ EndTick \/ Stop \/ StopStep
    BY <2>3, <2>4 DEF BeginTick, NotDue, TasksDone, EndTick, Stop, StopStep, DrainQueue,
       DrainCounter, Destroy, Join, pool
  <2>5. CASE UNCHANGED taskVars
    BY <2>3, <2>5 DEF taskVars
  <2> QED
    BY <2>1, <2>2, <2>4, <2>5 DEF BackgroundNext, TasksNext, TickStep
<1>3. TasksInv => OneJobPerFlag
  BY DEF TasksInv
<1> QED
  BY <1>1, <1>2, <1>3, PTL DEF BackgroundSpec

-----------------------------------------------------------------------------
(* The circuit breaker                                                     *)

(* Moving a caller to another program counter keeps the type of caller.    *)
LEMMA JumpTyped ==
  ASSUME BreakerTypeOK, NEW c \in Callers, NEW pc \in Pcs, Jump(c, pc)
  PROVE  caller' \in [Callers -> [pc : Pcs, n : 0..MaxRetries]]
BY DEF BreakerTypeOK, Jump

(* A caller replaced by a typed record keeps the type of caller.           *)
LEMMA CallerTyped ==
  ASSUME BreakerTypeOK, NEW c \in Callers, NEW r \in [pc : Pcs, n : 0..MaxRetries],
         caller' = [caller EXCEPT ![c] = r]
  PROVE  caller' \in [Callers -> [pc : Pcs, n : 0..MaxRetries]]
BY DEF BreakerTypeOK

(* The idle caller is typed.                                               *)
LEMMA ReadyTyped == Ready \in [pc : Pcs, n : 0..MaxRetries]
BY CircuitBreakerAssumption DEF Ready, Pcs

(* Saturating counters stay in their range.                                *)
LEMMA CountTyped ==
  ASSUME NEW x \in 0..MaxCount
  PROVE  Count(x) \in 0..MaxCount
BY CircuitBreakerAssumption DEF Count

(* The atomics and the callers keep their types, with any number of        *)
(* callers and any thresholds.                                             *)
THEOREM BreakerTypeCorrect == BreakerSpec => []BreakerTypeOK
<1>1. ASSUME BreakerInit PROVE BreakerTypeOK
  <2>1. caller \in [Callers -> [pc : Pcs, n : 0..MaxRetries]]
    BY <1>1, ReadyTyped DEF BreakerInit
  <2>2. 0 \in 0..MaxCount
    BY CircuitBreakerAssumption
  <2>3. elapsed \in BOOLEAN
    BY <1>1, Zenon DEF BreakerInit
  <2> QED
    BY <1>1, <2>1, <2>2, <2>3 DEF BreakerInit, BreakerTypeOK
<1>2. BreakerTypeOK /\ [BreakerNext]_breakerVars => BreakerTypeOK'
  <2> SUFFICES ASSUME BreakerTypeOK, [BreakerNext]_breakerVars PROVE BreakerTypeOK'
    OBVIOUS
  <2> USE DEF breaker
  <2>1. ASSUME NEW c \in Callers, Call(c) PROVE BreakerTypeOK'
    BY <2>1, JumpTyped DEF Call, BreakerTypeOK, Pcs
  <2>2. ASSUME NEW c \in Callers, Operation(c) PROVE BreakerTypeOK'
    BY <2>2, JumpTyped DEF Operation, BreakerTypeOK, Pcs
  <2>3. ASSUME NEW c \in Callers, Retry(c) PROVE BreakerTypeOK'
    <3>1. CASE caller' = [caller EXCEPT ![c] = Ready]
      BY <2>3, <3>1, ReadyTyped, CallerTyped DEF Retry, BreakerTypeOK
    <3>2. CASE /\ caller[c].n < MaxRetries
               /\ caller' = [caller EXCEPT ![c] = [pc |-> "allow", n |-> @.n + 1]]
      <4>1. caller[c].n \in 0..MaxRetries
        BY DEF BreakerTypeOK
      <4>2. [pc |-> "allow", n |-> caller[c].n + 1] \in [pc : Pcs, n : 0..MaxRetries]
        BY <4>1, <3>2, CircuitBreakerAssumption DEF Pcs
      <4> QED
        BY <2>3, <3>2, <4>2, CallerTyped DEF Retry, BreakerTypeOK
    <3> QED
      BY <2>3, <3>1, <3>2 DEF Retry
  <2>4. ASSUME NEW c \in Callers, AllowLoad(c) PROVE BreakerTypeOK'
    <3>1. CASE state = "Closed"
      <4>1. Jump(c, "operation")
        BY <2>4, <3>1 DEF AllowLoad, Jump
      <4> QED
        BY <2>4, <4>1, JumpTyped DEF AllowLoad, BreakerTypeOK, Pcs
    <3>2. CASE state = "HalfOpen"
      <4>1. Jump(c, "probe")
        BY <2>4, <3>2 DEF AllowLoad, Jump
      <4> QED
        BY <2>4, <4>1, JumpTyped DEF AllowLoad, BreakerTypeOK, Pcs
    <3>3. CASE state = "Open" /\ elapsed
      <4>1. Jump(c, "exchange")
        BY <2>4, <3>3 DEF AllowLoad, Jump
      <4> QED
        BY <2>4, <4>1, JumpTyped DEF AllowLoad, BreakerTypeOK, Pcs
    <3>4. CASE state = "Open" /\ ~elapsed
      <4>1. caller' = [caller EXCEPT ![c] = Ready]
        BY <2>4, <3>4 DEF AllowLoad
      <4> QED
        BY <2>4, <4>1, ReadyTyped, CallerTyped DEF AllowLoad, BreakerTypeOK
    <3> QED
      BY <3>1, <3>2, <3>3, <3>4 DEF BreakerTypeOK
  <2>5. ASSUME NEW c \in Callers, AllowExchange(c) PROVE BreakerTypeOK'
    <3>1. CASE state = "Open"
      BY <2>5, <3>1, JumpTyped, CircuitBreakerAssumption DEF AllowExchange, BreakerTypeOK, Pcs
    <3>2. CASE state = "HalfOpen"
      <4>1. Jump(c, "probe")
        BY <2>5, <3>2 DEF AllowExchange, Jump
      <4> QED
        BY <2>5, <3>2, <4>1, JumpTyped DEF AllowExchange, BreakerTypeOK, Pcs
    <3>3. CASE state = "Closed"
      <4>1. caller' = [caller EXCEPT ![c] = Ready]
        BY <2>5, <3>3 DEF AllowExchange
      <4> QED
        BY <2>5, <3>3, <4>1, ReadyTyped, CallerTyped DEF AllowExchange, BreakerTypeOK
    <3> QED
      BY <3>1, <3>2, <3>3 DEF BreakerTypeOK
  <2>6. ASSUME NEW c \in Callers, FirstProbe(c) PROVE BreakerTypeOK'
    BY <2>6, JumpTyped, CountTyped, CircuitBreakerAssumption DEF FirstProbe, BreakerTypeOK, Pcs
  <2>7. ASSUME NEW c \in Callers, Probe(c) PROVE BreakerTypeOK'
    <3>1. CASE attempts < MaxProbes
      BY <2>7, <3>1, JumpTyped, CountTyped DEF Probe, BreakerTypeOK, Pcs
    <3>2. CASE ~(attempts < MaxProbes)
      BY <2>7, <3>2, ReadyTyped, CallerTyped, CountTyped DEF Probe, BreakerTypeOK
    <3> QED
      BY <3>1, <3>2
  <2>8. ASSUME NEW c \in Callers, SuccessLoad(c) PROVE BreakerTypeOK'
    BY <2>8, JumpTyped DEF SuccessLoad, BreakerTypeOK, Pcs
  <2>9. ASSUME NEW c \in Callers, SuccessClose(c) PROVE BreakerTypeOK'
    BY <2>9, JumpTyped DEF SuccessClose, BreakerTypeOK, Pcs
  <2>10. ASSUME NEW c \in Callers, SuccessReset(c) PROVE BreakerTypeOK'
    <3>1. CASE caller[c].pc = "reset_failures"
      BY <2>10, <3>1, JumpTyped, CircuitBreakerAssumption DEF SuccessReset, BreakerTypeOK, Pcs
    <3>2. CASE caller[c].pc = "reset_attempts"
      BY <2>10, <3>2, ReadyTyped, CallerTyped, CircuitBreakerAssumption
         DEF SuccessReset, BreakerTypeOK
    <3> QED
      BY <2>10, <3>1, <3>2 DEF SuccessReset
  <2>11. ASSUME NEW c \in Callers, FailureTime(c) PROVE BreakerTypeOK'
    BY <2>11, JumpTyped DEF FailureTime, BreakerTypeOK, Pcs
  <2>12. ASSUME NEW c \in Callers, FailureLoad(c) PROVE BreakerTypeOK'
    BY <2>12, JumpTyped DEF FailureLoad, BreakerTypeOK, Pcs
  <2>13. ASSUME NEW c \in Callers, FailureCount(c) PROVE BreakerTypeOK'
    <3>1. PICK pc \in {"open", "failed"} : Jump(c, pc)
      BY <2>13 DEF FailureCount
    <3> QED
      BY <2>13, <3>1, JumpTyped, CountTyped DEF FailureCount, BreakerTypeOK, Pcs
  <2>14. ASSUME NEW c \in Callers, FailureOpen(c) PROVE BreakerTypeOK'
    BY <2>14, JumpTyped DEF FailureOpen, BreakerTypeOK, Pcs
  <2>15. CASE TimePasses
    BY <2>15 DEF TimePasses, BreakerTypeOK
  <2>16. CASE UNCHANGED breakerVars
    BY <2>16 DEF breakerVars, BreakerTypeOK
  <2> QED
    BY <2>1, <2>2, <2>3, <2>4, <2>5, <2>6, <2>7, <2>8, <2>9, <2>10, <2>11,
       <2>12, <2>13, <2>14, <2>15, <2>16 DEF BreakerNext, CallerStep
<1> QED
  BY <1>1, <1>2, PTL DEF BreakerSpec

(* A step of one caller leaves every other caller as it is.                *)
LEMMA OthersUnchanged ==
  ASSUME BreakerTypeOK, NEW c \in Callers, Call(c) \/ CallerStep(c),
         NEW d \in Callers, d # c
  PROVE  caller'[d] = caller[d]
BY DEF BreakerTypeOK, Call, CallerStep, Operation, Retry, AllowLoad, AllowExchange,
       FirstProbe, Probe, SuccessLoad, SuccessClose, SuccessReset, FailureTime,
       FailureLoad, FailureCount, FailureOpen, Jump

(* allow_request, record_success and record_failure never leave the        *)
(* breaker half-open with nobody to decide, however the callers' loads and *)
(* stores interleave.                                                      *)
THEOREM NeverStuckHalfOpen == BreakerSpec => []HalfOpenIsDecided
<1>1. BreakerInit => HalfOpenIsDecided
  BY DEF BreakerInit, HalfOpenIsDecided
<1>2. BreakerTypeOK /\ HalfOpenIsDecided /\ [BreakerNext]_breakerVars => HalfOpenIsDecided'
  <2> SUFFICES ASSUME BreakerTypeOK, HalfOpenIsDecided, [BreakerNext]_breakerVars, state' = "HalfOpen"
               PROVE  \E d \in Callers : Deciding(d)'
    BY DEF HalfOpenIsDecided
  <2>1. ASSUME NEW c \in Callers, Call(c) \/ CallerStep(c)
        PROVE  \E d \in Callers : Deciding(d)'
    <3>1. CASE AllowExchange(c) /\ state = "Open"
      <4>1. caller'[c].pc = "first_probe"
        BY <3>1 DEF AllowExchange, Jump, BreakerTypeOK
      <4> QED
        BY <4>1 DEF Deciding
    <3>2. CASE ~(AllowExchange(c) /\ state = "Open")
      <4>1. state = "HalfOpen"
        BY <2>1, <3>2 DEF Call, CallerStep, Operation, Retry, AllowLoad,
           AllowExchange, FirstProbe, Probe, SuccessLoad, SuccessClose,
           SuccessReset, FailureTime, FailureLoad, FailureCount, FailureOpen,
           breaker
      <4>2. PICK d \in Callers : Deciding(d)
        BY <4>1 DEF HalfOpenIsDecided
      <4>3. CASE d # c
        BY <4>2, <4>3, <2>1, OthersUnchanged DEF Deciding
      <4>4. CASE d = c
        <5>1. Deciding(c)
          BY <4>2, <4>4
        <5>2. caller'[c].pc \in {"operation", "success", "close", "failure",
                                 "failure_load", "reopen", "open"}
          BY <2>1, <4>1, <5>1 DEF Deciding, BreakerTypeOK, Call, CallerStep,
             Operation, Retry, AllowLoad, AllowExchange, FirstProbe, Probe,
             SuccessLoad, SuccessClose, SuccessReset, FailureTime, FailureLoad,
             FailureCount, FailureOpen, Jump
        <5> QED
          BY <5>2 DEF Deciding
      <4> QED
        BY <4>3, <4>4
    <3> QED
      BY <3>1, <3>2
  <2>2. CASE TimePasses
    BY <2>2 DEF TimePasses, HalfOpenIsDecided, Deciding
  <2>3. CASE UNCHANGED breakerVars
    BY <2>3 DEF breakerVars, HalfOpenIsDecided, Deciding
  <2> QED
    BY <2>1, <2>2, <2>3 DEF BreakerNext
<1> QED
  BY <1>1, <1>2, BreakerTypeCorrect, PTL DEF BreakerSpec
=============================================================================
