----------------------------- MODULE Background -----------------------------
(***************************************************************************)
(* What runs beside the ticks: the periodic tasks of a pipeline on the     *)
(* REST worker pool, and the circuit breaker under its callers.  They      *)
(* share no state, so a behaviour runs one of them; the other is a pool    *)
(* that has been stopped, or a breaker that nobody calls.                  *)
(***************************************************************************)
EXTENDS PeriodicTasks, CircuitBreaker

BackgroundInit ==
  \/ /\ TasksInit
     /\ state = "Closed" /\ failures = 0 /\ attempts = 0 /\ elapsed = TRUE
     /\ caller = [c \in Callers |-> [pc |-> "absent", n |-> 0]]
  \/ /\ BreakerInit
     /\ queue = <<>> /\ counter = 0 /\ flags = {} /\ resync = FALSE
     /\ worker = [w \in Workers |-> [pc |-> "exited", job |-> Nothing]]
     /\ desync = FALSE /\ offline = FALSE
     /\ tick = [pc |-> "idle", turn |-> 0] /\ stopper = "stopped"

BackgroundNext ==
  \/ TasksNext /\ UNCHANGED breakerVars
  \/ BreakerNext /\ UNCHANGED taskVars

BackgroundSpec ==
  /\ BackgroundInit
  /\ [][BackgroundNext]_<<taskVars, breakerVars>>
  /\ TasksFairness
  /\ BreakerFairness
=============================================================================
