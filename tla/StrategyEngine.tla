--------------------------- MODULE StrategyEngine ---------------------------
(***************************************************************************)
(* The scalping strategy (strategy/): the state machine of a symbol, the   *)
(* setup life cycle and the engine that drives both. Every public method   *)
(* holds mutex_, so each is an operator on the record `s` of its state.    *)
(*                                                                         *)
(* Prices and indicators are abstracted to what the code asks of them: a   *)
(* detector sees which side triggers and which sides each guard blocks.    *)
(* Confidence is counted in steps of 0.05, time in units that separate the *)
(* configured delays; ages are kept instead of time stamps.                *)
(***************************************************************************)
EXTENDS Naturals, FiniteSets

CONSTANTS
  EnabledSetups,     \* the enable_* switches of ScalpStrategyConfig
  Confirmation,      \* setup_confirmation_window_ms
  SignalAge,         \* max_signal_age_ns
  SetupTimeout,      \* setup_timeout_ms
  EntryTimeout,      \* entry_sent_timeout_ms
  CooldownFailed,    \* cooldown_after_failed_setup_ms
  CooldownRejected,  \* cooldown_after_rejection_ms
  CooldownExit,      \* cooldown_after_exit_ms
  CooldownLoss       \* the 30 minutes after two losses in a row

SetupTypes == {"MomentumContinuation", "Retest", "PullbackInMicrotrend", "Rejection"}

ASSUME StrategyAssumption ==
  /\ EnabledSetups \subseteq SetupTypes
  /\ {Confirmation, SignalAge, SetupTimeout, EntryTimeout} \subseteq Nat
  /\ Confirmation < SignalAge /\ SignalAge < SetupTimeout
  /\ {CooldownFailed, CooldownRejected, CooldownExit, CooldownLoss} \subseteq Nat \ {0}
  /\ CooldownFailed <= CooldownLoss /\ CooldownRejected <= CooldownLoss
  /\ CooldownExit <= CooldownLoss

Sides == {"Buy", "Sell"}

None == "none"

SymbolStates ==
  {"Idle", "Candidate", "SetupForming", "SetupPendingConfirmation", "EntryReady",
   "EntrySent", "PositionOpen", "PositionManaging", "ExitPending", "Cooldown", "Blocked"}

(* confidence in steps of 0.05: 0.50, 0.65 and so on *)
BaseConviction == 10
MinConfidence == 13
MarginalConfidence == MinConfidence + 3
HighConfidence == 17
ConfirmationBonus == 2
MaxConviction == 19

Lesser(a, b) == IF a < b THEN a ELSE b

Greater(a, b) == IF a < b THEN b ELSE a

(* An age stops growing once it is past every limit it is compared with. *)
AgeCap == SetupTimeout + 1

Setup == [side: Sides, confidence: 0..MaxConviction, age: 0..AgeCap]

NoSetup == [side |-> None, confidence |-> 0, age |-> 0]

StrategyState ==
  [state: SymbolStates, setup: Setup \cup {NoSetup}, has_position: BOOLEAN,
   cooldown: 0..CooldownLoss, since: 0..(EntryTimeout + 1), losses: 0..2, exit_sent: BOOLEAN]

InitStrategy ==
  [state |-> "Idle", setup |-> NoSetup, has_position |-> FALSE, cooldown |-> 0,
   since |-> 0, losses |-> 0, exit_sent |-> FALSE]

-----------------------------------------------------------------------------
(* StrategyStateMachine *)

AllowedTransitions ==
  [Idle |-> {"Candidate", "SetupForming", "PositionOpen", "Cooldown", "Blocked"},
   Candidate |-> {"SetupForming", "PositionOpen", "Idle", "Blocked"},
   SetupForming |-> {"SetupPendingConfirmation", "PositionOpen", "Idle", "Cooldown", "Blocked"},
   SetupPendingConfirmation |-> {"EntryReady", "PositionOpen", "Idle", "Cooldown", "Blocked"},
   EntryReady |-> {"EntrySent", "PositionOpen", "Idle", "Cooldown", "Blocked"},
   EntrySent |-> {"PositionOpen", "Idle", "Cooldown"},
   PositionOpen |-> {"PositionManaging", "ExitPending", "Cooldown"},
   PositionManaging |-> {"ExitPending", "PositionOpen", "Cooldown"},
   ExitPending |-> {"Cooldown", "Idle"},
   Cooldown |-> {"Idle"},
   Blocked |-> {"Idle"}]

(* A transition that the table does not allow is dropped without a trace. *)
TransitionTo(s, new) ==
  IF new \in AllowedTransitions[s.state]
  THEN [s EXCEPT !.state = new, !.since = 0]
  ELSE s

ClearSetup(s) == [s EXCEPT !.setup = NoSetup]

(* The end of the cooldown is moved even if the transition is refused. *)
StartCooldown(s, duration) ==
  TransitionTo([s EXCEPT !.cooldown = duration], "Cooldown")

ClosePosition(s) == [s EXCEPT !.has_position = FALSE]

-----------------------------------------------------------------------------
(* Market context: the facts are the conditions that evaluate() tests. *)

ContextFacts ==
  {"feed_fresh", "micro_valid", "spread_negative", "spread_wide", "liquidity_low",
   "vpin_toxic", "volatility_abnormal", "tight_and_deep"}

MarketContextQuality(f) ==
  LET failed == Cardinality(f \cap {"spread_wide", "liquidity_low", "vpin_toxic",
                                    "volatility_abnormal"})
  IN  CASE "feed_fresh" \notin f \/ "micro_valid" \notin f \/ "spread_negative" \in f -> "Invalid"
        [] OTHER -> CASE failed = 0 -> IF "tight_and_deep" \in f THEN "Excellent" ELSE "Good"
                      [] failed = 1 -> "Marginal"
                      [] OTHER -> "Poor"

-----------------------------------------------------------------------------
(* SetupDetector. A reading is what one detector finds in the market: are   *)
(* its inputs valid, which side triggers (the two sides exclude each other  *)
(* in all four) and which guards object to that side. "spot" stands for a   *)
(* short without futures and without a position to close.                   *)

Guards == {"rsi", "bollinger", "ema_trend", "htf_trend", "sideways", "bayes", "spot"}

Readings == [valid: BOOLEAN, trigger: Sides \cup {None}, objections: SUBSET Guards]

Passes(r, guards) == r.valid /\ r.trigger # None /\ r.objections \cap guards = {}

NewSetup(side, confidence) ==
  [side |-> side, confidence |-> Lesser(confidence, MaxConviction), age |-> 0]

(* imbalance, fusion, trend and volume profile add up to 0.45 or take a step away *)
MomentumBonuses == {0, 2, 5, 9}

DetectMomentum(r, bonus) ==
  IF Passes(r, Guards) THEN NewSetup(r.trigger, BaseConviction + bonus) ELSE NoSetup

(* the bonus is that of a trend that agrees *)
DetectRetest(r, bonus) ==
  IF Passes(r, Guards \ {"bollinger"})
  THEN NewSetup(r.trigger, BaseConviction + 1 + bonus) ELSE NoSetup

DetectPullback(r) ==
  IF Passes(r, {"htf_trend", "rsi", "spot", "bayes"})
  THEN NewSetup(r.trigger, BaseConviction + 5) ELSE NoSetup

DetectRejection(r) ==
  IF Passes(r, {"rsi", "bayes", "spot"})
  THEN NewSetup(r.trigger, BaseConviction - 1) ELSE NoSetup

(* What each detector can answer over all readings. *)
Detectable ==
  [MomentumContinuation |-> {DetectMomentum(r, b) : r \in Readings, b \in MomentumBonuses},
   Retest |-> {DetectRetest(r, b) : r \in Readings, b \in {0, 3}},
   PullbackInMicrotrend |-> {DetectPullback(r) : r \in Readings},
   Rejection |-> {DetectRejection(r) : r \in Readings}]

(* detect() asks the detectors one by one; any of those it asks may be the  *)
(* first to find a setup, and there may be none.                            *)
Asked(ctx) ==
  IF ctx.uncertainty = "Extreme" \/ ctx.world = "Disrupted" THEN {}
  ELSE {t \in EnabledSetups :
          t \in {"MomentumContinuation", "PullbackInMicrotrend"} =>
            ctx.regime # "Ranging" /\ ctx.uncertainty # "High"}

Detect(ctx) == {NoSetup} \cup UNION {Detectable[t] : t \in Asked(ctx)}

-----------------------------------------------------------------------------
(* SetupValidator *)

SetupFaults ==
  {"spread_degraded", "liquidity_degraded", "imbalance_reversed", "price_moved_too_far",
   "stop_level_breached"}

(* Thin liquidity above the hard limit and toxic flow are only noted. *)
Validate(setup, faults) == setup.age <= SetupTimeout /\ faults = {}

CanConfirm(setup, spreadWide, bookAgainst) ==
  /\ setup.confidence > HighConfidence \/ setup.age >= Confirmation
  /\ ~spreadWide
  /\ ~bookAgainst

-----------------------------------------------------------------------------
(* StrategyEngine. `ctx` is the StrategyContext the pipeline fills in, `m`   *)
(* what the market answers while it is evaluated. evaluate() returns the new *)
(* state and the side of an entry, an exit or no intent.                     *)

Answer(s, intent) == [s |-> s, intent |-> intent]

Exit == "Exit"

InPosition(s) == s.state \in {"PositionOpen", "PositionManaging"}

CancelSetup(s) == StartCooldown(ClearSetup(s), CooldownFailed)

(* after two losses in a row the cooldown is the long one *)
AfterClose(s) ==
  StartCooldown(s, IF s.losses >= 2 THEN Greater(CooldownExit, CooldownLoss) ELSE CooldownExit)

(* PositionManager::evaluate holds: the exits belong to the pipeline. *)
HandlePosition(s) == Answer(TransitionTo(s, "PositionManaging"), None)

(* EntryReady: the setup is confident enough for the market, and not too old. *)
TryEnter(s, m) ==
  LET c == s.setup.confidence
      ready == TransitionTo(s, "EntryReady")
  IN  CASE c < MinConfidence \/ (m.quality = "Marginal" /\ c < MarginalConfidence) ->
             Answer(ready, None)
        [] OTHER ->
             IF s.setup.age > SignalAge THEN Answer(TransitionTo(ready, "Idle"), None)
             ELSE Answer(TransitionTo(ready, "EntrySent"), s.setup.side)

ConfirmSetup(s) ==
  TransitionTo([s EXCEPT !.setup.confidence = Lesser(@ + ConfirmationBonus, MaxConviction)],
               "SetupPendingConfirmation")

HandlePreEntry(s, m) ==
  CASE m.quality \in {"Invalid", "Poor"} ->
         Answer(IF s.setup = NoSetup THEN s ELSE CancelSetup(s), None)
    [] m.quality \notin {"Invalid", "Poor"} /\ s.state = "Idle" ->
         Answer(IF m.found = NoSetup THEN s
                ELSE TransitionTo([s EXCEPT !.setup = m.found], "SetupForming"), None)
    [] OTHER ->
         CASE s.setup = NoSetup -> Answer(TransitionTo(s, "Idle"), None)
           [] s.setup # NoSetup /\ ~Validate(s.setup, m.faults) -> Answer(CancelSetup(s), None)
           [] OTHER ->
                CASE s.state = "SetupForming" ->
                       IF CanConfirm(s.setup, m.spreadWide, m.bookAgainst)
                       THEN TryEnter(ConfirmSetup(s), m) ELSE Answer(s, None)
                  [] s.state \in {"SetupPendingConfirmation", "EntryReady"} -> TryEnter(s, m)
                  [] s.state = "EntrySent" ->
                       Answer(IF s.since > EntryTimeout THEN CancelSetup(s) ELSE s, None)
                  [] OTHER -> Answer(s, None)

HandleCooldown(s, m) ==
  IF s.cooldown = 0 THEN HandlePreEntry(TransitionTo(s, "Idle"), m) ELSE Answer(s, None)

(* has_position without the transition *)
AdoptPosition_NoTransition(s) == ClearSetup([s EXCEPT !.has_position = TRUE])

(* A position that the context shows and the machine does not: the state may *)
(* refuse to follow (Cooldown, Blocked), has_position does not.              *)
AdoptPosition(s) ==
  IF InPosition(s) \/ s.state = "ExitPending" THEN s
  ELSE ClearSetup([TransitionTo(s, "PositionOpen") EXCEPT !.has_position = TRUE])

(* an entry that was sent waits for its notification only *)
Route_EntryWaits(s, ctx, m) ==
  CASE s.state = "Cooldown" -> HandleCooldown(s, m)
    [] InPosition(s) \/ s.state = "ExitPending" -> HandlePosition(s)
    [] s.state \in {"Blocked", "EntrySent"} -> Answer(s, None)
    [] OTHER -> HandlePreEntry(s, m)

Route(s, ctx, m) ==
  CASE s.state = "Cooldown" -> HandleCooldown(s, m)
    [] s.state = "Blocked" ->
         Answer(IF ctx.locked THEN s ELSE [s EXCEPT !.state = "Idle", !.since = 0], None)
    [] InPosition(s) \/ s.state = "ExitPending" -> HandlePosition(s)
    [] OTHER -> HandlePreEntry(s, m)

Evaluate(s, ctx, m) ==
  CASE ctx.halt -> Answer(s, IF InPosition(s) THEN Exit ELSE None)
    [] ~ctx.halt /\ ctx.locked /\ ~InPosition(s) ->
         Answer([s EXCEPT !.state = "Blocked", !.since = 0], None)
    [] OTHER ->
         CASE ~ctx.fresh ->
                IF InPosition(s) THEN HandlePosition(s)
                ELSE Answer(IF s.setup = NoSetup THEN s ELSE CancelSetup(s), None)
           [] ctx.fresh /\ ~ctx.enabled -> Answer(s, None)
           [] ctx.fresh /\ ctx.enabled /\ ctx.has_position -> Route(AdoptPosition(s), ctx, m)
           [] OTHER ->
                IF s.has_position
                THEN Answer(AfterClose([ClearSetup(ClosePosition(s)) EXCEPT !.exit_sent = FALSE]),
                            None)
                ELSE Route(s, ctx, m)

NotifyPositionOpened(s) == TransitionTo([s EXCEPT !.has_position = TRUE], "PositionOpen")

(* `result` is the sign of the pnl against the threshold of one basis point. *)
NotifyPositionClosed(s, result) ==
  LET closed == [ClearSetup(ClosePosition(s)) EXCEPT !.exit_sent = FALSE,
                   !.losses = CASE result = "loss" -> Lesser(@ + 1, 2)
                                [] result = "win" -> 0
                                [] OTHER -> @]
  IN  AfterClose(closed)

NotifyEntryRejected(s) == StartCooldown(CancelSetup(s), CooldownRejected)

(* The clock: ages grow, the cooldown runs down. The time in a state is     *)
(* kept in the one state that asks for it.                                  *)
Elapse(s) ==
  [s EXCEPT !.cooldown = IF @ = 0 THEN 0 ELSE @ - 1,
            !.since = IF s.state = "EntrySent" THEN Lesser(@ + 1, EntryTimeout + 1) ELSE 0,
            !.setup.age = IF s.setup = NoSetup THEN 0 ELSE Lesser(@ + 1, AgeCap)]
=============================================================================
