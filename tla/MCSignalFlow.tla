---------------------------- MODULE MCSignalFlow ----------------------------
(***************************************************************************)
(* Instances of SignalFlow for TLC: five scenarios, each around one of the *)
(* ways in which a signal can become an order or fail to.                  *)
(***************************************************************************)
EXTENDS SignalFlow

(* a liquid market in a strong trend *)
Trend ==
  [valid |-> Indicators \cup {"momentum"}, ema |-> "up", rsi |-> 60, adx |-> 32,
   bandwidth |-> 40, atr |-> 5, volume |-> 10, cusum |-> FALSE, toxic |-> FALSE, vpin |-> 20,
   flow |-> 30, spread |-> 2, instability |-> 10, liquidity |-> 80, trending |-> TRUE,
   turning |-> FALSE, fresh |-> TRUE, mid |-> 10, slippage |-> 1, volatility |-> 2,
   session |-> 0, imbalance |-> 0, queue |-> 0, history |-> 0, depth |-> 10000,
   liquid |-> 1000]

Thin == [Trend EXCEPT !.liquid = 60]
Falling == [Trend EXCEPT !.ema = "down", !.rsi = 40]
Flat == [Trend EXCEPT !.atr = 0]

Open ==
  [ready |-> TRUE, noisy |-> FALSE, ws_down |-> FALSE, desync |-> FALSE, velocity |-> 0,
   volume |-> 0, depth |-> 0, break |-> FALSE, decorrelated |-> FALSE, someUndefined |-> FALSE,
   samples |-> 0, winRate |-> 50, return |-> 0, observations |-> 0, adapted |-> 50,
   reward |-> 20, risk |-> 15, agrees |-> FALSE,
   htf |-> [valid |-> TRUE, strong |-> TRUE, turned |-> FALSE, trend |-> 1],
   shock |-> 0, reversal |-> 10, fundingAgainst |-> FALSE, funding |-> 0, age |-> 0,
   target |-> 100, stop |-> 50, noise |-> 0, closing |-> FALSE]

Warming == [Open EXCEPT !.ready = FALSE]
Against == [Open EXCEPT !.htf.trend = -1]
Late == [Open EXCEPT !.age = 3]
Closing == [Open EXCEPT !.closing = TRUE]
Cascade == [Open EXCEPT !.velocity = 100, !.volume = 100]
Wary == [Open EXCEPT !.break = TRUE, !.noise = 1, !.reversal = 40]

Account ==
  [capital |-> 100, available |-> 100, exposure |-> 0, drawdown |-> 2, losses |-> 0, win |-> 60,
   ratio |-> 15, volatility |-> 0, hint |-> 1]

Scenario ==
  [side |-> "Buy", markets |-> {Trend}, conditions |-> {Open}, facts |-> {{}},
   account |-> Account, share |-> [gross |-> 0, symbol |-> 0, strategy |-> 0],
   contexts |-> {{"feed_fresh", "micro_valid"}}, faults |-> {{}}, against |-> {FALSE},
   strengths |-> {15}, results |-> {"loss"}, losses |-> {}, killable |-> FALSE,
   cancels |-> {TRUE}]

MCScenarios ==
  {\* the way of a single order, its gates and its returns
   [Scenario EXCEPT !.conditions = {Open, Late, Cascade}, !.cancels = BOOLEAN,
                    !.facts = {{}, {"over_notional"}, {"wide_spread"}}],
   \* a plan of slices, with the supervisor's switch and refusals on the way
   [Scenario EXCEPT !.markets = {Thin}, !.account.hint = 15, !.killable = TRUE, !.facts = {{}, {"turnover"}},
                    !.results = {"other"}],
   \* a market that dries up, and a higher time frame against the entry
   [Scenario EXCEPT !.markets = {Trend, Flat}, !.conditions = {Open, Against, Closing}],
   \* an account that has lost its edge: the order is raised to the minimum
   [Scenario EXCEPT !.markets = {Falling}, !.side = "Sell",
                    !.conditions = {[Wary EXCEPT !.htf.trend = 0], Warming},
                    !.account = [Account EXCEPT !.win = 30, !.volatility = 20],
                    !.contexts = {{"feed_fresh", "micro_valid"}, {}}],
   \* losses: locks, the bandit and the plan that outlives its position
   [Scenario EXCEPT !.results = {"other"}, !.losses = {TRUE}]}
=============================================================================
