--------------------------- MODULE CircuitBreaker ---------------------------
(***************************************************************************)
(* resilience::CircuitBreaker shared by callers of RetryExecutor::execute. *)
(* The breaker has no mutex: a step is one load, store or read-modify-     *)
(* write of one of its atomics.                                            *)
(***************************************************************************)
EXTENDS Integers, FiniteSets

CONSTANTS Callers,
          Threshold,    \* failure_threshold
          MaxProbes,    \* half_open_max_attempts
          MaxRetries,   \* max_retries
          MaxCount      \* bound: the counters stop counting here

ASSUME CircuitBreakerAssumption ==
  /\ Callers # {}
  /\ Threshold \in Nat \ {0}
  /\ MaxProbes \in Nat \ {0}
  /\ MaxRetries \in Nat
  /\ MaxCount \in Nat /\ MaxCount > Threshold /\ MaxCount > MaxProbes + 1

VARIABLES
  state,     \* state_
  failures,  \* consecutive_failures_
  attempts,  \* half_open_attempts_
  elapsed,   \* whether recovery_timeout_ms passed since last_failure_time_ms_
  caller     \* program counter and retry number of each caller

breakerVars == <<state, failures, attempts, elapsed, caller>>
breaker == <<state, failures, attempts, elapsed>>

Ready == [pc |-> "ready", n |-> 0]

BreakerInit ==
  /\ state = "Closed"
  /\ failures = 0
  /\ attempts = 0
  /\ elapsed = FALSE
  /\ caller = [c \in Callers |-> Ready]

Jump(c, pc) == caller' = [caller EXCEPT ![c].pc = pc]
Count(x) == IF x < MaxCount THEN x + 1 ELSE x

-----------------------------------------------------------------------------
(* RetryExecutor::execute: the loop of attempts around one operation.      *)

Call(c) ==
  /\ caller[c].pc = "ready"
  /\ Jump(c, "allow")
  /\ UNCHANGED breaker

(* The operation succeeds or fails; a failure is recorded before the       *)
(* decision to retry.                                                      *)
Operation(c) ==
  /\ caller[c].pc = "operation"
  /\ Jump(c, "success") \/ Jump(c, "failure")
  /\ UNCHANGED breaker

(* Permanent and auth errors end the call, transient ones and rate limits  *)
(* are retried until max_retries.                                          *)
Retry(c) ==
  /\ caller[c].pc = "failed"
  /\ \/ caller' = [caller EXCEPT ![c] = Ready]
     \/ /\ caller[c].n < MaxRetries
        /\ caller' = [caller EXCEPT ![c] = [pc |-> "allow", n |-> @.n + 1]]
  /\ UNCHANGED breaker

-----------------------------------------------------------------------------
(* allow_request                                                           *)

(* Mutant: an open breaker refuses whatever time has passed.               *)
AllowLoad_NoRecovery(c) ==
  /\ caller[c].pc = "allow"
  /\ caller' = [caller EXCEPT ![c] =
       CASE state = "Closed" -> [@ EXCEPT !.pc = "operation"]
         [] state = "HalfOpen" -> [@ EXCEPT !.pc = "probe"]
         [] OTHER -> Ready]
  /\ UNCHANGED breaker

AllowLoad(c) ==
  /\ caller[c].pc = "allow"
  /\ caller' = [caller EXCEPT ![c] =
       CASE state = "Closed" -> [@ EXCEPT !.pc = "operation"]
         [] state = "HalfOpen" -> [@ EXCEPT !.pc = "probe"]
         [] state = "Open" /\ elapsed -> [@ EXCEPT !.pc = "exchange"]
         [] OTHER -> Ready]
  /\ UNCHANGED breaker

(* compare_exchange Open -> HalfOpen.  The caller that loses it joins the  *)
(* half-open period, or is refused if the breaker is closed meanwhile.     *)
AllowExchange(c) ==
  /\ caller[c].pc = "exchange"
  /\ IF state = "Open"
     THEN /\ state' = "HalfOpen"
          /\ Jump(c, "first_probe")
     ELSE /\ caller' = [caller EXCEPT ![c] =
               IF state = "HalfOpen" THEN [@ EXCEPT !.pc = "probe"] ELSE Ready]
          /\ UNCHANGED state
  /\ UNCHANGED <<failures, attempts, elapsed>>

FirstProbe(c) ==
  /\ caller[c].pc = "first_probe"
  /\ attempts' = 1
  /\ Jump(c, "operation")
  /\ UNCHANGED <<state, failures, elapsed>>

(* fetch_add on half_open_attempts_                                        *)
Probe(c) ==
  /\ caller[c].pc = "probe"
  /\ attempts' = Count(attempts)
  /\ IF attempts < MaxProbes
     THEN Jump(c, "operation")
     ELSE caller' = [caller EXCEPT ![c] = Ready]
  /\ UNCHANGED <<state, failures, elapsed>>

-----------------------------------------------------------------------------
(* record_success: load the state, close a half-open breaker, and reset    *)
(* both counters.                                                          *)

(* Mutant: a success is not looked at in the half-open state.              *)
SuccessLoad_NeverCloses(c) ==
  /\ caller[c].pc = "success"
  /\ Jump(c, "reset_failures")
  /\ UNCHANGED breaker

SuccessLoad(c) ==
  /\ caller[c].pc = "success"
  /\ Jump(c, IF state = "HalfOpen" THEN "close" ELSE "reset_failures")
  /\ UNCHANGED breaker

SuccessClose(c) ==
  /\ caller[c].pc = "close"
  /\ state' = "Closed"
  /\ Jump(c, "reset_failures")
  /\ UNCHANGED <<failures, attempts, elapsed>>

SuccessReset(c) ==
  /\ \/ /\ caller[c].pc = "reset_failures"
        /\ failures' = 0
        /\ Jump(c, "reset_attempts")
        /\ UNCHANGED attempts
     \/ /\ caller[c].pc = "reset_attempts"
        /\ attempts' = 0
        /\ caller' = [caller EXCEPT ![c] = Ready]
        /\ UNCHANGED failures
  /\ UNCHANGED <<state, elapsed>>

(* record_failure: the time, the state, then the counter, and Open when    *)
(* half-open or at the threshold.                                          *)
FailureTime(c) ==
  /\ caller[c].pc = "failure"
  /\ elapsed' = FALSE
  /\ Jump(c, "failure_load")
  /\ UNCHANGED <<state, failures, attempts>>

FailureLoad(c) ==
  /\ caller[c].pc = "failure_load"
  /\ Jump(c, IF state = "HalfOpen" THEN "reopen" ELSE "count")
  /\ UNCHANGED breaker

FailureCount(c) ==
  /\ caller[c].pc \in {"reopen", "count"}
  /\ failures' = Count(failures)
  /\ Jump(c, IF caller[c].pc = "reopen" \/ failures + 1 >= Threshold
             THEN "open" ELSE "failed")
  /\ UNCHANGED <<state, attempts, elapsed>>

FailureOpen(c) ==
  /\ caller[c].pc = "open"
  /\ state' = "Open"
  /\ Jump(c, "failed")
  /\ UNCHANGED <<failures, attempts, elapsed>>

(* The recovery timeout passes.                                            *)
TimePasses ==
  /\ ~elapsed
  /\ elapsed' = TRUE
  /\ UNCHANGED <<state, failures, attempts, caller>>

-----------------------------------------------------------------------------
CallerStep(c) ==
  \/ Operation(c) \/ Retry(c)
  \/ AllowLoad(c) \/ AllowExchange(c) \/ FirstProbe(c) \/ Probe(c)
  \/ SuccessLoad(c) \/ SuccessClose(c) \/ SuccessReset(c)
  \/ FailureTime(c) \/ FailureLoad(c) \/ FailureCount(c) \/ FailureOpen(c)

BreakerNext == (\E c \in Callers : Call(c) \/ CallerStep(c)) \/ TimePasses

BreakerSpec == BreakerInit /\ [][BreakerNext]_breakerVars

(* Callers run and call again; time passes.                                *)
BreakerFairness ==
  /\ \A c \in Callers : WF_breakerVars(Call(c) \/ CallerStep(c))
  /\ WF_breakerVars(TimePasses)

-----------------------------------------------------------------------------
(* A caller that was let through and has not yet acted on the state it     *)
(* finds when it records its result.                                       *)
Deciding(c) ==
  caller[c].pc \in {"first_probe", "operation", "success", "close",
                    "failure", "failure_load", "reopen", "open"}

Pcs == {"ready", "allow", "operation", "success", "failure", "failed",
        "exchange", "first_probe", "probe", "close", "reset_failures",
        "reset_attempts", "failure_load", "reopen", "count", "open"}

(* Types of the atomics and of the callers; a caller never counts more     *)
(* than max_retries retries.                                               *)
BreakerTypeOK ==
  /\ state \in {"Closed", "Open", "HalfOpen"}
  /\ failures \in 0..MaxCount
  /\ attempts \in 0..MaxCount
  /\ elapsed \in BOOLEAN
  /\ caller \in [Callers -> [pc : Pcs, n : 0..MaxRetries]]

(* The breaker cannot get stuck half-open: half_open_attempts_ may be used *)
(* up, but while the state is HalfOpen some request is under way whose     *)
(* success or failure decides the state.                                   *)
HalfOpenIsDecided == state = "HalfOpen" => \E c \in Callers : Deciding(c)

(* A breaker that opened is tried again.                                   *)
OpenRecovers == (state = "Open") ~> (state # "Open")

=============================================================================
