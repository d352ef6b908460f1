----------------------------- MODULE SignalFlow -----------------------------
(***************************************************************************)
(* One tick of the pipeline from the market to the order                   *)
(* (TradingPipeline::on_feature_snapshot), composed of the strategy, the   *)
(* assessment of the market, the committee, the gates, the sizing, the     *)
(* risk engine, the leverage and the TWAP executor.                        *)
(*                                                                         *)
(* A tick holds pipeline_mutex_, so there is one at a time; the jobs of    *)
(* the REST pool, the fills of the private feed and the kill switch do not *)
(* take it. A tick is cut where it calls something that they also change:  *)
(* the strategy, then the sizing and the risk engine, then the leverage on *)
(* the exchange, then the order. What it has read stays in `tick`.         *)
(*                                                                         *)
(* A closing order of the stop-loss is filled at once: its own life is     *)
(* that of PositionControl.                                                *)
(***************************************************************************)
EXTENDS StrategyEngine, RiskEngine, DecisionEngine, ExecutionAlpha, TwapExecutor,
        EntrySizing, EntryGates

CONSTANTS
  Scenarios,     \* the markets, accounts and conditions the ticks are drawn from
  BaseUrgency,   \* the urgency of an intent, in percent
  MaxWorking,    \* bound: quantity of the entries that work on the exchange
  MaxRejections  \* bound: rejections in a row that are told apart

ASSUME ScenariosAssumption ==
  /\ \A e \in Scenarios :
       /\ e.markets \subseteq Snapshots
       /\ e.account \in Accounts
       /\ e.contexts \subseteq SUBSET ContextFacts
       /\ e.faults \subseteq SUBSET SetupFaults
       /\ \A q \in e.conditions : q.noise \in Nat
  /\ {MaxWorking, MaxRejections} \subseteq Nat \ {0}

VARIABLES
  strat,   \* StrategyEngine: a StrategyState
  risk,    \* ProductionRiskEngine: a RiskState
  hyst,    \* RuleBasedRegimeEngine: a Hysteresis
  unc,     \* RuleBasedUncertaintyEngine: an Uncertainty
  ml,      \* sampler, cascade cooldown, pending_entry_, consecutive_wait1_count_
  twap,    \* the active plan of SmartTwapExecutor
  lever,   \* leverage: of the engine, last applied, of the execution engine
  book,    \* entries that work, strays (live entries whose cancel failed), the
           \* position, and whether the exchange closed it
  clocks,  \* order and stop-loss cooldown, consecutive_rejections_
  kill,    \* the supervisor's switch
  tick,    \* what the tick under way has read and decided
  sent,    \* history: the entry of the last tick, what its plan has sent in all,
           \* the price at which it was sized, and what an entry has joined
  env      \* the scenario, chosen once

vars == <<strat, risk, hyst, unc, ml, twap, lever, book, clocks, kill, tick, sent, env>>

NoTick == [at |-> "idle"]

NothingSent ==
  [at |-> "none", total |-> 0, price |-> 0, halted |-> FALSE, joins |-> {}, stray |-> FALSE]

Init ==
  /\ env \in Scenarios
  /\ strat = InitStrategy
  /\ risk = InitRisk
  /\ hyst = InitHysteresis
  /\ unc = InitUncertainty
  /\ ml = [sampler |-> InitSampler, cascade |-> 0, wait |-> 0, waits |-> 0]
  /\ twap = NoTwap
  /\ lever = [engine |-> InitLeverage, applied |-> 0, used |-> 0]
  /\ book = [working |-> 0, stray |-> 0, position |-> 0, closed |-> FALSE]
  /\ clocks = [order |-> 0, stop |-> 0, rejections |-> 0]
  /\ kill = FALSE
  /\ tick = NoTick
  /\ sent = NothingSent

-----------------------------------------------------------------------------
(* The first part of a tick: the flags, the guards, then whatever is under  *)
(* way.                                                                     *)

HasPosition == book.position > 0
Joined == {part \in {"working", "stray", "position"} : book[part] > 0}
Room(qty) == book.working + book.stray + qty <= MaxWorking

Probability(q) == CascadeProbability(q.velocity, q.volume, q.depth)

(* run_periodic_tasks writes two flags of the risk engine, so no tick reads  *)
(* what an earlier one or a job has left there. Then the cascade detector.   *)
Ingress(x, q) ==
  LET imminent == Imminent(ml.cascade, Probability(q))
  IN  /\ tick = NoTick
      /\ tick' = [at |-> "read", x |-> x, q |-> q, imminent |-> imminent, kill |-> kill]
      /\ risk' = [risk EXCEPT !.ws_down = q.ws_down, !.desync = q.desync]
      /\ ml' = [ml EXCEPT !.cascade = IF imminent THEN CascadeCooldown ELSE @]
      /\ sent' = IF twap = NoTwap THEN NothingSent ELSE sent
      /\ UNCHANGED <<strat, hyst, unc, twap, lever, book, clocks, kill, env>>

(* check_position_stop_loss: the cooldowns start before the order. A close  *)
(* tells the risk engine and the bandit, and classifies the market once     *)
(* more; the strategy finds out from the portfolio.                         *)
StopLoss(loss, ok) ==
  /\ tick.at = "read"
  /\ HasPosition /\ ~book.closed
  /\ clocks.stop = 0
  /\ clocks' = [clocks EXCEPT !.order = Higher(@, OrderCooldown), !.stop = StopCooldown]
  /\ tick' = NoTick
  /\ IF ok
     THEN /\ risk' = RecordTradeClose(RecordOrderSent(risk), loss)
          /\ ml' = [ml EXCEPT !.sampler = RecordReward(@)]
          /\ hyst' = Classify(hyst, tick.x)
          /\ book' = [book EXCEPT !.position = 0]
     ELSE UNCHANGED <<risk, ml, hyst, book>>
  /\ UNCHANGED <<strat, unc, twap, lever, kill, sent, env>>

(* the same check, when the exchange no longer has the position *)
Phantom ==
  /\ tick.at = "read"
  /\ HasPosition /\ book.closed
  /\ book' = [book EXCEPT !.position = 0, !.closed = FALSE]
  /\ strat' = NotifyPositionClosed(strat, "other")
  /\ tick' = NoTick
  /\ UNCHANGED <<risk, hyst, unc, ml, twap, lever, clocks, kill, sent, env>>

(* warm-up and readiness, entropy, cascade *)
Passable == tick.q.ready /\ ~tick.q.noisy /\ ~tick.imminent

Ignored ==
  /\ tick.at = "read"
  /\ ~Passable
  /\ tick' = NoTick
  /\ UNCHANGED <<strat, risk, hyst, unc, ml, twap, lever, book, clocks, kill, sent, env>>

(* pending_entry_: the tick counts down and returns, unless it was the last *)
Waits ==
  /\ tick.at = "read"
  /\ Passable
  /\ ml.wait > 1
  /\ ml' = [ml EXCEPT !.wait = @ - 1]
  /\ tick' = NoTick
  /\ UNCHANGED <<strat, risk, hyst, unc, twap, lever, book, clocks, kill, sent, env>>

(* A slice of the active plan is judged with a neutral uncertainty. A       *)
(* denial ends the plan; any other failure only loses the slice.            *)
Slice(facts, ok) ==
  LET slice == NextSlice(twap, tick.x)
      judged == EvaluateRisk(risk, kill, FALSE, NeutralUncertainty, facts)
      style == EvaluateAlpha(tick.x, twap.side, BaseUrgency, NeutralUncertainty)
      sending == ok /\ judged.verdict \in {"Approved", "ReduceSize"} /\ style # NoExecution
      lost == slice.qty > 0 /\ judged.verdict # "Denied" /\ ~sending
  IN  /\ tick.at = "read"
      /\ Passable
      /\ ml.wait <= 1
      /\ twap # NoTwap /\ ~twap.completed
      /\ ml' = [ml EXCEPT !.wait = 0]
      /\ tick' = NoTick
      /\ CASE slice.qty = 0 -> twap' = slice.t /\ UNCHANGED <<risk, book, sent>>
           [] slice.qty > 0 /\ judged.verdict = "Denied" ->
                twap' = NoTwap /\ risk' = judged.r /\ UNCHANGED <<book, sent>>
           [] lost -> twap' = slice.t /\ risk' = judged.r /\ UNCHANGED <<book, sent>>
           [] OTHER ->
                /\ Room(slice.qty)
                /\ twap' = RecordSliceFill(slice.t, twap.next, slice.qty, TRUE)
                /\ risk' = RecordOrderSent(judged.r)
                /\ book' = [book EXCEPT !.working = @ + slice.qty]
                /\ sent' = [at |-> "slice", total |-> sent.total + slice.qty,
                            price |-> sent.price, halted |-> kill /\ tick.kill,
                            joins |-> {}, stray |-> FALSE]
      /\ UNCHANGED <<strat, hyst, unc, lever, clocks, kill, env>>

-----------------------------------------------------------------------------
(* The assessment, the strategy and the gates, up to the sizing. `t` is the *)
(* tick with what it has read so far.                                       *)

Assessed ==
  LET h == Classify(hyst, tick.x)
      u == Assess(unc, tick.x, ComputeConfidence(tick.x, h.confirmed),
                  [cascade |-> Probability(tick.q), break |-> tick.q.break])
  IN  [at |-> "size", x |-> tick.x, q |-> tick.q, kill |-> tick.kill, h |-> h, unc |-> u,
       u |-> UncertaintySnapshot(u), world |-> ClassifyWorld(tick.x), position |-> HasPosition,
       conviction |-> 0, qty |-> 0, stray |-> FALSE]

Context(t) ==
  [halt |-> FALSE, locked |-> FALSE, enabled |-> TRUE, fresh |-> t.x.fresh,
   has_position |-> t.position, uncertainty |-> t.u.level, world |-> WorldLabel(t.world),
   regime |-> SimpleLabel(t.h.confirmed)]

(* no entry in a market that does not pay for its own costs *)
TooQuiet(t) ==
  /\ ~t.position
  /\ t.h.confirmed = "LowVolCompression" \/ (Has(t.x, {"atr"}) /\ t.x.atr < 1)

(* the setups that the detectors can find for the side of the scenario *)
Findings(t) ==
  {f \in Detect(Context(t)) : f = NoSetup \/ (f.side = env.side /\ f.confidence \in env.strengths)}

Markets(t) ==
  [quality: {MarketContextQuality(f) : f \in env.contexts}, found: Findings(t),
   faults: env.faults, spreadWide: {FALSE}, bookAgainst: env.against]

Conviction(s) == 5 * s.setup.confidence

(* committee, fingerprint, RSI, adapted threshold, reward to risk *)
Agreed(t, c) ==
  LET a == env.account
  IN  /\ Aggregate(t.x, t.u, t.h.confirmed, t.world, c, 0, DrawdownBoost(a.drawdown, a.losses))
      /\ ~FingerprintBlocks(PredictEdge(t.q.samples, t.q.winRate, t.q.return))
      /\ ~RsiExtreme(t.x, env.side)
      /\ c >= AdaptedThreshold(t.q.observations, ConvictionThreshold, t.q.adapted)
      /\ RewardRiskOk(t.x, t.q.reward, t.q.risk, t.q.agrees, 100)

(* higher time frame and the two cooldowns *)
Timely(t) == ~HtfBlocks(t.q.htf, env.side) /\ clocks.order = 0 /\ clocks.stop = 0

(* A plan that is complete is dropped by the tick that finds it, and a wait *)
(* that is over bypasses the bandit.                                        *)
Signal ==
  LET t == Assessed
      free == [ml EXCEPT !.wait = 0]
      bypass == ml.wait = 1
      pulled(arm) == IF bypass THEN free ELSE [free EXCEPT !.sampler = Pull(@, arm)]
  IN  /\ tick.at = "read"
      /\ Passable
      /\ ml.wait <= 1
      /\ twap = NoTwap \/ twap.completed
      /\ twap' = NoTwap
      /\ hyst' = t.h
      /\ risk' = SetCurrentRegime(risk, t.h.confirmed)
      /\ unc' = IF TooQuiet(t) THEN unc ELSE t.unc
      /\ IF TooQuiet(t) \/ t.u.action = "NoTrade"
         THEN ml' = free /\ tick' = NoTick /\ UNCHANGED strat
         ELSE \E m \in Markets(t) :
                LET answer == Evaluate(strat, Context(t), m)
                    c == Conviction(answer.s)
                IN  CASE answer.intent = None ->
                           /\ strat' = answer.s
                           /\ ml' = free
                           /\ tick' = NoTick
                      [] answer.intent # None /\ ~Agreed(t, c) ->
                           /\ strat' = NotifyEntryRejected(answer.s)
                           /\ ml' = free
                           /\ tick' = NoTick
                      [] OTHER ->
                           \E arm \in IF bypass THEN {1} ELSE Selectable(ml.sampler) :
                             IF WaitPeriods(arm) > 0
                             THEN /\ strat' = answer.s
                                  /\ ml' = IF ml.waits + 1 >= MaxWaits
                                           THEN [pulled(arm) EXCEPT !.waits = 0]
                                           ELSE [pulled(arm) EXCEPT !.waits = @ + 1,
                                                                    !.wait = WaitPeriods(arm)]
                                  /\ tick' = NoTick
                             ELSE /\ ml' = [pulled(arm) EXCEPT !.waits = IF bypass THEN @ ELSE 0]
                                  /\ IF Timely(t)
                                     THEN /\ strat' = answer.s
                                          /\ tick' = [t EXCEPT !.conviction = c]
                                     ELSE /\ strat' = NotifyEntryRejected(answer.s)
                                          /\ tick' = NoTick
      /\ UNCHANGED <<lever, book, clocks, kill, sent, env>>

-----------------------------------------------------------------------------
(* Opportunity cost, market reaction, size, risk and the choice of TWAP.   *)

Style(t) == EvaluateAlpha(t.x, env.side, BaseUrgency, t.u)

(* a style that is refused has no cost *)
Net(t) ==
  ExpectedReturn(t.conviction)
    - (IF Style(t) = NoExecution THEN 0
       ELSE TotalCost(Style(t), t.x, AdverseSelection(t.x)) \div 10)

Worthwhile(t) ==
  DetermineAction(Net(t), t.conviction, OpportunityThreshold(ConvictionThreshold, env.account),
                  env.share, FALSE) = "Execute"

(* the size of the uncertainty is in it twice *)
SizeMultiplier(t) ==
  (10 * t.u.size
     * ((CorrelationMultiplier(t.q.break, FALSE, t.q.decorrelated, t.q.someUndefined)
          * EntrySizePercent(t.u, t.q.reversal, t.q.fundingAgainst)) \div 100)) \div 100

WantsTwap(t, qty) ==
  /\ qty * t.x.mid >= TwapNotional
  /\ SlicePlan(t.x, env.account.hint * t.x.mid) > 0 \/ ShouldUseTwap(t.x, qty)

Reject == strat' = NotifyEntryRejected(strat) /\ tick' = NoTick

(* The tick returns, and tells the strategy nothing, while a closing order *)
(* of the strategy is pending or where it has read a position of the same  *)
(* side (all positions of a scenario are of its side).                     *)
Barred(t) == t.q.closing \/ t.position

Held ==
  /\ tick.at = "size"
  /\ Barred(tick)
  /\ tick' = NoTick
  /\ UNCHANGED <<strat, risk, hyst, unc, ml, twap, lever, book, clocks, kill, sent, env>>

Size(facts) ==
  LET t == tick
      qty == ComputeSize(t.x, env.account, t.h.confirmed, SizeMultiplier(t))
      small == IF (qty \div 2) * t.x.mid < MinTradeNotional THEN {"below_minimum"} ELSE {}
      judged == EvaluateRisk(risk, kill, FALSE, t.u, facts \cup small)
      approved == IF judged.verdict = "ReduceSize" THEN qty \div 2 ELSE qty
  IN  /\ tick.at = "size"
      /\ ~Barred(t)
      /\ CASE ~Worthwhile(t) \/ EntryVetoed(t.x, t.u, t.q.shock) \/ qty = 0 ->
                Reject /\ UNCHANGED <<risk, twap, sent>>
           [] OTHER ->
                /\ risk' = judged.r
                /\ CASE judged.verdict \in {"Denied", "Throttled"} ->
                          Reject /\ UNCHANGED <<twap, sent>>
                     [] judged.verdict \notin {"Denied", "Throttled"} /\ WantsTwap(t, approved) ->
                          /\ twap' = CreateTwapPlan(t.x, env.side, approved)
                          /\ sent' = [NothingSent EXCEPT !.price = t.x.mid]
                          /\ tick' = NoTick
                          /\ UNCHANGED strat
                     [] OTHER ->
                          /\ tick' = [t EXCEPT !.at = "lever", !.qty = approved]
                          /\ UNCHANGED <<strat, twap, sent>>
      /\ UNCHANGED <<hyst, unc, ml, lever, book, clocks, kill, env>>

-----------------------------------------------------------------------------
(* Leverage: the engine's answer, the two guards against a second entry,   *)
(* and the exchange. What it returns on, nobody tells the strategy.        *)

(* an entry that still works does not count *)
WouldPyramid_PositionOnly == HasPosition

(* EDGE-16 and run86. A stray is in UnknownRecovery, which active_orders()  *)
(* does not list: the guards overlook it.                                  *)
WouldPyramid == HasPosition \/ book.working > 0

Lever(ok) ==
  LET t == tick
      label == SimpleLabel(t.h.confirmed)
      raw == RawLeverage(t.x, env.account, label, t.u.level, t.world, t.conviction, t.q.funding)
      engine == SmoothLeverage(lever.engine, label, raw)
      computed == ClampLeverage(engine.average)
      wanted == AutoLeverage(env.account, t.qty * t.x.mid, computed)
      differs == \/ wanted >= lever.applied + LeverageDelta
                 \/ lever.applied >= wanted + LeverageDelta
  IN  /\ tick.at = "lever"
      /\ CASE ~LiquidationSafe(computed) \/ WouldPyramid ->
                /\ ok
                /\ lever' = [lever EXCEPT !.engine = engine]
                /\ tick' = NoTick
                /\ UNCHANGED clocks
           [] OTHER ->
                CASE differs /\ ~ok ->
                       /\ lever' = [lever EXCEPT !.engine = engine]
                       /\ clocks' = [clocks EXCEPT !.order = OrderCooldown]
                       /\ tick' = NoTick
                  [] OTHER ->
                       /\ ok
                       /\ lever' = [engine |-> engine, used |-> wanted,
                                    applied |-> IF differs THEN wanted ELSE lever.applied]
                       /\ tick' = [t EXCEPT !.at = "send", !.stray = book.stray > 0]
                       /\ UNCHANGED clocks
      /\ UNCHANGED <<strat, risk, hyst, unc, ml, twap, book, kill, sent, env>>

-----------------------------------------------------------------------------
(* The last two gates and the order. The cooldown starts before it.        *)

Gated(t) ==
  /\ FreshnessOk(t.x, t.x, env.side, t.q.age, 2)
  /\ NetRewardRiskOk(t.q.target, t.q.stop, Style(t) # "PostOnly", t.q.funding, 100)

Dispatch(result) ==
  LET t == tick
      qty == NoisyQuantity(t.qty, t.q.noise, t.x.mid, MinTradeNotional)
      refused == Style(t) = NoExecution \/ t.u.level = "Extreme"
  IN  /\ tick.at = "send"
      /\ tick' = NoTick
      /\ CASE ~Gated(t) ->
                /\ result = "error"
                /\ strat' = NotifyEntryRejected(strat)
                /\ UNCHANGED <<risk, book, clocks, sent>>
           [] Gated(t) /\ result = "sent" ->
                /\ ~refused
                /\ Room(qty)
                /\ clocks' = [clocks EXCEPT !.order = OrderCooldown, !.rejections = 0]
                /\ risk' = RecordOrderSent(risk)
                /\ strat' = NotifyPositionOpened(strat)
                /\ book' = [book EXCEPT !.working = @ + qty]
                /\ sent' = [at |-> "entry", total |-> qty, price |-> t.x.mid,
                            halted |-> kill /\ t.kill, joins |-> Joined, stray |-> t.stray]
           [] Gated(t) /\ result = "no_action" ->
                /\ ~refused
                /\ clocks' = [clocks EXCEPT !.order = OrderCooldown]
                /\ UNCHANGED <<strat, risk, book, sent>>
           [] OTHER ->
                /\ clocks' = [clocks EXCEPT !.rejections = Lower(@ + 1, MaxRejections),
                                            !.order = Backoff(clocks.rejections + 1)]
                /\ strat' = NotifyEntryRejected(strat)
                /\ UNCHANGED <<risk, book, sent>>
      /\ UNCHANGED <<hyst, unc, ml, twap, lever, kill, env>>

-----------------------------------------------------------------------------
(* What goes on beside the ticks, without pipeline_mutex_.                 *)

(* the entries that work are filled, as the private feed reports it *)
Fill ==
  /\ book.working > 0
  /\ book' = [book EXCEPT !.position = @ + book.working, !.working = 0, !.closed = FALSE]
  /\ UNCHANGED <<strat, risk, hyst, unc, ml, twap, lever, clocks, kill, tick, sent, env>>

(* or the watchdog cancels them. A cancel that fails leaves them alive on   *)
(* the exchange, and the registry no longer counts them as active.          *)
Cancel(ok) ==
  /\ book.working > 0
  /\ book' = [book EXCEPT !.working = 0, !.stray = IF ok THEN @ ELSE @ + book.working]
  /\ UNCHANGED <<strat, risk, hyst, unc, ml, twap, lever, clocks, kill, tick, sent, env>>

(* A stray is filled after all, ends on the exchange, or an update of the  *)
(* exchange makes it an active order again.                                *)
StrayResolves(to) ==
  /\ book.stray > 0
  /\ book' = CASE to = "position" -> [book EXCEPT !.position = @ + book.stray, !.stray = 0,
                                                  !.closed = FALSE]
               [] to = "working" -> [book EXCEPT !.working = @ + book.stray, !.stray = 0]
               [] OTHER -> [book EXCEPT !.stray = 0]
  /\ UNCHANGED <<strat, risk, hyst, unc, ml, twap, lever, clocks, kill, tick, sent, env>>

(* a bracket on the exchange closes the position; nobody here knows yet *)
ExchangeClose ==
  /\ HasPosition /\ ~book.closed
  /\ book' = [book EXCEPT !.closed = TRUE]
  /\ UNCHANGED <<strat, risk, hyst, unc, ml, twap, lever, clocks, kill, tick, sent, env>>

(* The balance sync finds that out: the portfolio and the strategy learn of *)
(* it, the risk engine does not.                                            *)
BalanceSync(result) ==
  /\ HasPosition /\ book.closed
  /\ book' = [book EXCEPT !.position = 0, !.closed = FALSE]
  /\ strat' = NotifyPositionClosed(strat, result)
  /\ UNCHANGED <<risk, hyst, unc, ml, twap, lever, clocks, kill, tick, sent, env>>

(* `tick.kill` stays true while the switch has been on since the tick began *)
KillSwitch ==
  /\ env.killable
  /\ kill' = ~kill
  /\ tick' = IF tick = NoTick THEN tick ELSE [tick EXCEPT !.kill = FALSE]
  /\ UNCHANGED <<strat, risk, hyst, unc, ml, twap, lever, book, clocks, sent, env>>

Down(n) == IF n = 0 THEN 0 ELSE n - 1

(* Time passes between two ticks. *)
Passage(ordersLeft) ==
  /\ tick = NoTick
  /\ strat' = Elapse(strat)
  /\ risk' = RiskElapse(risk, ordersLeft, TRUE)
  /\ unc' = UncertaintyElapse(unc)
  /\ twap' = TwapElapse(twap)
  /\ clocks' = [clocks EXCEPT !.order = Down(@), !.stop = Down(@)]
  /\ ml' = [ml EXCEPT !.cascade = Down(@)]
  /\ UNCHANGED <<hyst, lever, book, kill, tick, sent, env>>

NewDay ==
  /\ tick = NoTick
  /\ env.losses # {}
  /\ risk' = ResetDaily(risk)
  /\ UNCHANGED <<strat, hyst, unc, ml, twap, lever, book, clocks, kill, tick, sent, env>>

-----------------------------------------------------------------------------
Results == {"sent", "no_action", "error"}

Closes == \E loss \in env.losses : StopLoss(loss, TRUE)

(* a tick that no guard before the strategy holds back *)
Clear(q) == q.ready /\ ~q.noisy /\ ~Imminent(ml.cascade, Probability(q))

Through ==
  \E x \in {y \in env.markets : y.atr > 0} :
    \E q \in {p \in env.conditions : Clear(p)} : Ingress(x, q)

Clock == \E n \in {0, MaxOrders} : Passage(n)

Next ==
  \/ \E x \in env.markets, q \in env.conditions : Ingress(x, q)
  \/ \E loss \in env.losses, ok \in BOOLEAN : StopLoss(loss, ok)
  \/ Phantom
  \/ Ignored
  \/ Waits
  \/ \E f \in env.facts, ok \in BOOLEAN : Slice(f, ok)
  \/ Signal
  \/ Held
  \/ \E f \in env.facts : Size(f)
  \/ \E ok \in BOOLEAN : Lever(ok)
  \/ \E r \in Results : Dispatch(r)
  \/ Fill
  \/ \E ok \in env.cancels : Cancel(ok)
  \/ \E to \in {"position", "working", "gone"} : StrayResolves(to)
  \/ ExchangeClose
  \/ \E r \in env.results : BalanceSync(r)
  \/ KillSwitch
  \/ Clock
  \/ NewDay

(* A tick that has begun ends; time passes; ticks keep coming that reach     *)
(* the strategy, which is frozen in the others; and the exchange does not    *)
(* refuse a closing order for ever.                                          *)
Fairness ==
  /\ []<>(tick = NoTick)
  /\ SF_vars(Clock)
  /\ SF_vars(Through)
  /\ SF_vars(Closes)

Spec == Init /\ [][Next]_vars /\ Fairness

-----------------------------------------------------------------------------
(* The supervisor's switch stops every entry, those of a signal and the    *)
(* slices of a plan that was made before: nothing is sent by a tick during *)
(* the whole of which the switch was on (risk_engine.cpp evaluate,         *)
(* on_feature_snapshot).                                                   *)
HaltedSendsNothing == ~sent.halted

(* An entry of a signal joins neither a position nor another entry that    *)
(* works on the exchange, although the strategy believes that the position *)
(* of a working entry is gone and looks for the next one (the guards       *)
(* EDGE-16 and run86 of on_feature_snapshot). The one exception is a stray *)
(* that was alive when the guards looked: they do not see an order whose   *)
(* cancel failed (cancel_manager.cpp:134), and it may be filled, or become *)
(* active again, beside or just before the second entry.                   *)
EntryJoinsOnlyStrays == sent.at = "entry" /\ sent.joins # {} => sent.stray

(* What one signal sends in all, as one order or in slices, loses no more  *)
(* at its stop than a trade may: bumping an order to the exchange's        *)
(* minimum, reducing it, slicing it and adding noise keep the notional     *)
(* under the allocator's cap, at the price the size was computed with      *)
(* (compute_size_v2, create_twap_plan).                                    *)
SizedWithinRisk == sent.total * sent.price <= RiskCap(env.account)

(* Whatever becomes of an entry, the strategy does not wait for it for     *)
(* ever: the returns of the tick that tell it nothing (leverage, guards,   *)
(* bandit, plan) are caught by its own timeout (handle_pre_entry).         *)
EntrySettles == strat.state = "EntrySent" ~> strat.state # "EntrySent"

(* A TWAP plan ends, though slices are lost, refused and throttled: until  *)
(* then the tick looks at nothing else (on_feature_snapshot, section 0f).  *)
TwapEnds == twap # NoTwap ~> twap = NoTwap

(* A position that comes from a late fill or from slices, while the        *)
(* strategy is in a cooldown or waits for an entry, is taken over by it    *)
(* or is gone (StrategyEngine::evaluate).                                  *)
PositionAdopted ==
  HasPosition ~> \/ ~HasPosition
                 \/ strat.state \in {"PositionOpen", "PositionManaging"}
=============================================================================
