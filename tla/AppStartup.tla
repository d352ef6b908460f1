----------------------------- MODULE AppStartup -----------------------------
(***************************************************************************)
(* The process from the first line of main() to its return.  main scans    *)
(* the market for pairs (MarketScan), asks the exchange for the positions  *)
(* that are open, wipes the orders an earlier process left behind, drops   *)
(* the pairs the capital is too small for, and creates the pipelines; the  *)
(* rest is AppLifecycle.                                                   *)
(*                                                                         *)
(* A signal before the supervisor's handlers are installed only raises     *)
(* g_early_shutdown, which only the sleep between two scans reads.  Orders *)
(* of an earlier process are still at the exchange and may fill meanwhile. *)
(* The exchange's orders are of no interest to this model once the         *)
(* pipelines exist (ProtectiveBrackets goes on from there).                *)
(***************************************************************************)
EXTENDS AppLifecycle, MarketScan

CONSTANTS
  Scenarios,   \* records: the markets a scan may find, what the exchange holds
  Manual,      \* pair_selection.manual_symbols
  MaxScans,    \* kMaxScanRetries
  Funds        \* initial_capital * max_leverage * 0.8

VARIABLES
  boot,        \* progress of main() up to the pipelines
  exchange     \* positions, stops (plan orders) and entries, by symbol and side

vars == <<lifeVars, boot, exchange, scanner>>

Sides == [sym: Symbols, side: {"Long", "Short"}]

(* The exchange lists a symbol once.                                       *)
ASSUME AppStartupAssumption ==
  /\ MaxScans \in Nat \ {0} /\ Funds \in Nat
  /\ Manual \in Seq(Symbols)
  /\ \A s \in Scenarios :
       /\ s.exchange \in [held: SUBSET Sides, stops: SUBSET Sides, entries: SUBSET Sides]
       /\ \A m \in s.markets :
            /\ IsFiniteSet(m)
            /\ \A p \in m : p.sym \in Symbols /\ p.cost \in Nat /\ p.unfit \subseteq FilterReasons
            /\ \A p, q \in m : p.sym = q.sym => p = q

NoOrders == [held |-> {}, stops |-> {}, entries |-> {}]

(* active: the symbols to trade, each with the notional of its smallest    *)
(* order, 0 where the scan did not tell.  forced: symbols added because of *)
(* a position.  reported: protected_pos.                                   *)
Booting(pc) == [pc |-> pc, attempt |-> 1, early |-> FALSE, auto |-> TRUE,
                markets |-> {}, active |-> <<>>, forced |-> <<>>, reported |-> {}]

Init ==
  /\ LifeInit
  /\ scanner = Idle(Closed)
  /\ \E s \in Scenarios :
       /\ boot \in {[Booting("scan") EXCEPT !.markets = s.markets],
                    [Booting("query") EXCEPT !.auto = FALSE,
                       !.active = [i \in DOMAIN Manual |-> [sym |-> Manual[i], cost |-> 0]]]}
       /\ exchange = s.exchange

-----------------------------------------------------------------------------
BootAt(pc) == main.pc = "boot" /\ boot.pc = pc
Boot(b) == boot' = b /\ UNCHANGED lifeVars
Exit == Leave /\ boot' = Booting("done")
Listed(p) == [sym |-> p.sym, cost |-> p.cost]

early_shutdown_handler ==
  /\ main.pc = "boot"
  /\ ~boot.early
  /\ Boot([boot EXCEPT !.early = TRUE])
  /\ UNCHANGED <<exchange, scanner>>

(* scan(), with every answer of the exchange.                              *)
Scan ==
  /\ BootAt("scan")
  /\ \/ ScanSkipped
     \/ ScanWithoutLists
     \/ \E market \in boot.markets : ScanBegins(market)
     \/ \E f \in Fetches : FetchNext(f)
     \/ Choose
  /\ UNCHANGED <<lifeVars, boot, exchange>>

(* The scan found pairs to trade (the scanner is not looked at again), or  *)
(* the attempt failed.                                                     *)
ScanReturns ==
  /\ BootAt("scan")
  /\ scanner.pc = "done"
  /\ IF scanner.chosen # <<>>
     THEN /\ Boot([boot EXCEPT !.pc = "query", !.markets = {}, !.attempt = 1,
                               !.active = [i \in DOMAIN scanner.chosen |->
                                             Listed(scanner.chosen[i])]])
          /\ scanner' = Idle(Closed)
     ELSE IF boot.attempt = MaxScans THEN Exit /\ scanner' = Idle(Closed)
     ELSE /\ Boot([boot EXCEPT !.pc = "sleep"])
          /\ scanner' = Idle(scanner.breaker)
  /\ UNCHANGED exchange

(* One minute later.                                                       *)
NextAttempt ==
  /\ Boot([boot EXCEPT !.pc = "scan", !.attempt = @ + 1])
  /\ scanner' = Idle(IntervalPasses(scanner.breaker))

(* Mutant: the sleep is not cut short.                                     *)
Sleep_Deaf == BootAt("sleep") /\ NextAttempt /\ UNCHANGED exchange

(* interruptible_sleep between two attempts.                               *)
Sleep ==
  /\ BootAt("sleep")
  /\ IF boot.early THEN Exit /\ UNCHANGED scanner ELSE NextAttempt
  /\ UNCHANGED exchange

(* Without credentials neither the positions nor the orders are looked at. *)
NoCredentials ==
  /\ BootAt("query")
  /\ Boot([boot EXCEPT !.pc = "filter"])
  /\ UNCHANGED <<exchange, scanner>>

(* A position on a symbol that is not yet listed adds it, in the order of  *)
(* the answer.                                                             *)
OpenPositions ==
  /\ BootAt("query")
  /\ LET known == {boot.active[i].sym : i \in DOMAIN boot.active}
         added == {k.sym : k \in exchange.held} \ known
     IN \E forced \in Orderings(added, [s \in added |-> 0]) :
          Boot([boot EXCEPT !.pc = "wipe plans", !.reported = exchange.held,
                            !.forced = forced])
  /\ UNCHANGED <<exchange, scanner>>

PositionsUnknown ==
  /\ BootAt("query")
  /\ Boot([boot EXCEPT !.pc = "wipe plans"])
  /\ UNCHANGED <<exchange, scanner>>

(* Every plan order without a reported position is cancelled, where the    *)
(* list and the cancellation succeed.                                      *)
WipePlans ==
  /\ BootAt("wipe plans")
  /\ \E wiped \in SUBSET (exchange.stops \ boot.reported) :
       exchange' = [exchange EXCEPT !.stops = @ \ wiped]
  /\ Boot([boot EXCEPT !.pc = "wipe orders"])
  /\ UNCHANGED scanner

WipeOrders ==
  /\ BootAt("wipe orders")
  /\ \E wiped \in SUBSET exchange.entries :
       exchange' = [exchange EXCEPT !.entries = @ \ wiped]
  /\ Boot([boot EXCEPT !.pc = "filter"])
  /\ UNCHANGED scanner

(* The exchange fills an entry order; its preset stop goes with it.        *)
EntryFills ==
  /\ main.pc = "boot"
  /\ \E k \in exchange.entries :
       exchange' = [held |-> exchange.held \cup {k}, stops |-> exchange.stops \cup {k},
                    entries |-> exchange.entries \ {k}]
  /\ Boot(boot)
  /\ UNCHANGED scanner

(* Mutant: they are left out.                                              *)
AfterFilter_Lost(kept) == kept

(* The symbols that were added for their position are put back.            *)
AfterFilter(kept) == kept \o boot.forced

(* A pass drops the pairs whose smallest order is above an equal share of  *)
(* the funds, until a pass drops none.                                     *)
Affordable == {i \in DOMAIN boot.active : boot.active[i].cost * Len(boot.active) <= Funds}

FilterPass ==
  /\ BootAt("filter")
  /\ Affordable # DOMAIN boot.active
  /\ \E kept \in Kept(boot.active, Affordable) : Boot([boot EXCEPT !.active = kept])
  /\ UNCHANGED <<exchange, scanner>>

Filter ==
  /\ BootAt("filter")
  /\ Affordable = DOMAIN boot.active
  /\ IF boot.active = <<>> THEN Exit
     ELSE LET kept == [i \in DOMAIN boot.active |-> boot.active[i].sym]
          IN /\ CreatePipelines(AfterFilter(kept))
             /\ boot' = [Booting("done") EXCEPT !.auto = boot.auto]
  /\ exchange' = NoOrders
  /\ UNCHANGED scanner

-----------------------------------------------------------------------------
BootStep ==
  \/ Scan \/ ScanReturns \/ Sleep
  \/ NoCredentials \/ OpenPositions \/ PositionsUnknown \/ WipePlans \/ WipeOrders
  \/ FilterPass \/ Filter

Live(A) == A /\ UNCHANGED <<boot, exchange, scanner>>

Next ==
  \/ early_shutdown_handler
  \/ EntryFills
  \/ BootStep
  \/ Live(SignalHandler)
  \/ Live(MainStep)
  \/ boot.auto /\ Live(FindIdle)
  \/ Live(MonitorProgress)
  \/ \E i \in Indices : Live(Tick(i))
  \/ Live(Done)

Spec == Init /\ [][Next]_vars

(* main, its threads and the ticks are scheduled, and requests and scans   *)
(* have timeouts.  No pipeline need ever become idle, no order need fill   *)
(* and no signal need come.                                                *)
Fairness ==
  /\ WF_vars(BootStep)
  /\ WF_vars(Live(MainStep))
  /\ WF_vars(Live(MonitorProgress))
  /\ \A i \in Indices : WF_vars(Live(TickEnd(i)))

LiveSpec == Spec /\ Fairness

-----------------------------------------------------------------------------
(* A signal ends the process, wherever it is accepted: in the wait between *)
(* two scans of the startup, while the pipelines start, during a rotation. *)
(* main joins the monitor and the scanner's thread, the monitor a          *)
(* pipeline's thread, which ends its tick: none of them waits for main.    *)
SignalEndsProcess ==
  sys = "ShuttingDown" \/ (boot.early /\ boot.pc = "sleep") ~> main.pc = "done"

(* main.cpp:429 says that open positions must always be managed; the code  *)
(* does it with one exception.  However main leaves the startup, either    *)
(* every symbol that was added for a position gets a pipeline, whatever    *)
(* pairs the scans chose and however many of them the filter drops, or the *)
(* filter has left no pair of the scan: then main returns 1                *)
(* (main.cpp:737) before the symbols are put back, and manages none.       *)
ForcedManagedOrExit ==
  [][main.pc = "boot" /\ main'.pc # "boot" /\ boot.forced # <<>> =>
       IF main'.pc = "init" THEN Range(boot.forced) \subseteq ActiveSymbols'
       ELSE BootAt("filter") /\ boot.active = <<>>]_vars

(* The pairs a scan puts in the basket are listed, quiet and spread over   *)
(* the sectors, whatever requests failed, however early the scan was cut   *)
(* short and whichever attempt it was.                                     *)
BasketIsSound ==
  [][BootAt("scan") /\ boot'.pc = "query" =>
       LET basket == {p \in scanner.market : \E i \in DOMAIN boot'.active :
                                               boot'.active[i] = Listed(p)}
       IN /\ scanner.market \in boot.markets
          /\ Cardinality(basket) = Len(boot'.active)
          /\ Cardinality(basket) <= TopN
          /\ \A p \in basket :
               /\ p.online /\ ~p.banned /\ ~(TotalRisk(p) > TradeTrapLimit)
               /\ Cardinality({q \in basket : q.sector = p.sector}) <= MaxPerSector]_vars

(* main.cpp:549: the plan orders of an open position are never touched.    *)
WipeSparesProtection ==
  [][\A k \in exchange.held :
       k \in exchange.stops /\ main'.pc = "boot" => k \in exchange'.stops]_vars
=============================================================================
