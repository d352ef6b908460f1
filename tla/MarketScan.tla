----------------------------- MODULE MarketScan -----------------------------
(***************************************************************************)
(* ScannerEngine::scan: from the tickers of the exchange to the basket of  *)
(* pairs to trade.                                                         *)
(*                                                                         *)
(* A market is a set of pairs.  A pair is a record of what FeatureCalcula- *)
(* tor and the detectors measure of it; ratios, risks and scores are in    *)
(* percent.  ScalpingProfile::enabled is never configured and stays true,  *)
(* so the score is the scalpability composite.  BiasDetector's result is   *)
(* only logged.  The correlation test of diversify_basket never applies:   *)
(* the candles of the analysed pairs have been moved out of the snapshots  *)
(* it is given.                                                            *)
(***************************************************************************)
EXTENDS Integers, Sequences, SequencesExt, FiniteSetsExt

CONSTANTS
  MaxDetailed,       \* max_candidates_detailed
  TopN,              \* top_n
  MicroAccount,      \* initial_capital is below the micro-account threshold
  MaxPerSector,      \* max_pairs_per_sector
  ScanThreshold,     \* circuit_breaker_threshold
  ScanReset          \* circuit_breaker_reset_ms, in retry intervals

ASSUME MarketScanAssumption ==
  /\ {MaxDetailed, TopN, MaxPerSector, ScanThreshold, ScanReset} \subseteq Nat \ {0}
  /\ MicroAccount \in BOOLEAN

-----------------------------------------------------------------------------
(* The scanner's circuit breaker.  A failure count past the threshold is   *)
(* kept at the threshold.                                                  *)

Closed == [fails |-> 0, cool |-> 0]

is_circuit_breaker_open(b) == b.fails >= ScanThreshold /\ b.cool > 0
record_api_failure(b) ==
  IF b.fails + 1 >= ScanThreshold THEN [fails |-> ScanThreshold, cool |-> ScanReset]
                                  ELSE [b EXCEPT !.fails = @ + 1]
record_api_success(b) == [b EXCEPT !.fails = 0]
Record(b, ok) == IF ok THEN record_api_success(b) ELSE record_api_failure(b)
IntervalPasses(b) == [b EXCEPT !.cool = Max({@ - 1, 0})]

-----------------------------------------------------------------------------
(* Trap detectors: a risk and the confidence in it.  Efficiency is 100     *)
(* when no candle has moved.                                               *)

None == [risk |-> 0, conf |-> 0]
Trap(risk, conf) == [risk |-> Min({risk, 100}), conf |-> conf]
Worse(a, b) == [risk |-> Max({a.risk, b.risk}), conf |-> Max({a.conf, b.conf})]
When(cond, trap) == IF cond THEN trap ELSE None

Spoofing(p) ==
  When(p.levels >= 5,
       Worse(When(p.wall > 25, Trap(2 * p.wall, 60)),
             When(p.asymmetry > 60, Trap((7 * p.asymmetry) \div 10, 50))))
StopHunt(p) ==
  When(p.candles >= 5 /\ p.hunts > 0,
       Trap(((p.wick - 70) * 100) \div 30 + 10 * p.hunts, Min({40 + 10 * p.hunts, 90})))
FalseBreakout(p) ==
  When(p.candles >= 15 /\ p.breakouts > 0,
       Trap(2 * p.depth, Min({50 + 15 * p.breakouts, 90})))
NoiseChop(p) ==
  When(p.candles >= 10,
       Worse(When(p.chop > 60, Trap(((p.chop - 60) * 7) \div 4 + 30, 70)),
             When(p.efficiency < 20, Trap(50 + ((20 - p.efficiency) * 5) \div 2, 60))))
MomentumTrap(p) ==
  When(p.candles >= 10 /\ p.reversal > 50,
       Trap(p.reversal, Min({50 + (3 * p.reversal) \div 10, 85})))
(* Funding in percent of the extreme threshold.                            *)
FundingCrowd(p) ==
  When(p.funding > 100,
       Trap(30 + (4 * (p.funding - 100)) \div 10, Min({50 + (p.funding - 100) \div 5, 85})))
BookInstability(p) ==
  IF p.levels < 5 THEN Trap(80, 70)
  ELSE Worse(When(p.gap > 20, Trap(p.gap, 60)), When(p.thin, Trap(60, 70)))

Detections(p) == <<Spoofing(p), StopHunt(p), FalseBreakout(p), NoiseChop(p),
                   MomentumTrap(p), FundingCrowd(p), BookInstability(p)>>

(* TrapAggregator::evaluate: the mean weighted by confidence, and more for *)
(* several traps at once.                                                  *)
TotalRisk(p) ==
  LET active == SelectSeq(Detections(p), LAMBDA d : d.risk > 10)
      weight == FoldLeft(LAMBDA n, d : n + d.conf, 0, active)
      mean == FoldLeft(LAMBDA n, d : n + d.risk * d.conf, 0, active) \div Max({weight, 1})
  IN Min({(mean * (100 + 15 * Max({Len(active) - 1, 0}))) \div 100, 100})

-----------------------------------------------------------------------------
(* Filter, score, state                                                    *)

FilterReasons == {"InvalidData", "NotOnline", "Blacklisted", "PriceTooLow",
                  "PoorTickEconomics", "LowLiquidity", "WideSpread", "LowOpenInterest",
                  "ThinOrderBook", "HighTrapRisk", "HighNoise", "ExtremeVolatility",
                  "LowVolatility", "ExtremeMove24h"}

(* PairFilter::evaluate; p.unfit is what the thresholds hold against the   *)
(* pair, the trap risk apart.                                              *)
Passed(p) == p.unfit = {} /\ TotalRisk(p) <= 85

(* PairRanker::compute; p.merit is the weighted sum of the components.     *)
FundingPenalty(p) == When(p.funding > 100, Trap((p.funding - 100) \div 2, 0)).risk
Score(p) == Max({0, p.merit - (3 * TotalRisk(p)) \div 10 - (15 * FundingPenalty(p)) \div 100})
Confidence(p) == IF TotalRisk(p) > 50 THEN 14 * p.strong ELSE 20 * p.strong

(* For a micro account main raises the limit to that of the filter.        *)
TradeTrapLimit == IF MicroAccount THEN 85 ELSE 60
TradeState(p) ==
  IF TotalRisk(p) > TradeTrapLimit THEN "DoNotTrade"
  ELSE IF Score(p) > 30 /\ Confidence(p) > 40 THEN "TradeAllowed"
  ELSE "Neutral"

-----------------------------------------------------------------------------
(* The scan: the lists, then the two requests of each candidate, then the  *)
(* ranking and the choice.                                                 *)

VARIABLE
  scanner    \* the breaker, and the scan under way: its market, the candidates
             \* to fetch, those that are fully loaded, the pairs it chooses

Idle(b) == [pc |-> "idle", breaker |-> b, market |-> {}, todo |-> <<>>,
            loaded |-> {}, chosen |-> <<>>]

(* The lists of a finite set S by descending key.  std::sort leaves equal  *)
(* elements in any order.                                                  *)
Orderings(S, key) ==
  {s \in [1..Cardinality(S) -> S] :
     \A i, j \in 1..Cardinality(S) : i < j => s[i] # s[j] /\ key[s[i]] >= key[s[j]]}

(* The elements of list at the places K, in their order.                   *)
Kept(list, K) ==
  {[i \in DOMAIN order |-> list[order[i]]] : order \in Orderings(K, [i \in K |-> -i])}

(* The pairs that pass the prefilter (turnover in thousands).              *)
Prefiltered(market) == {p \in market : p.online /\ p.turnover >= 500 /\ p.tight /\ ~p.banned}

ScanFails(b) == scanner' = [Idle(b) EXCEPT !.pc = "done"]

ScanSkipped ==
  /\ scanner.pc = "idle"
  /\ is_circuit_breaker_open(scanner.breaker)
  /\ ScanFails(scanner.breaker)

(* A list does not arrive, or is empty: of the contracts, of the tickers.  *)
ScanWithoutLists ==
  /\ scanner.pc = "idle"
  /\ ~is_circuit_breaker_open(scanner.breaker)
  /\ \E b \in {scanner.breaker, record_api_success(scanner.breaker)} :
       ScanFails(record_api_failure(b))

(* The most traded pairs become the candidates.                            *)
ScanBegins(market) ==
  /\ scanner.pc = "idle"
  /\ ~is_circuit_breaker_open(scanner.breaker)
  /\ LET fit == Prefiltered(market)
     IN \E sorted \in Orderings(fit, [p \in fit |-> p.turnover]) :
          scanner' = [Idle(record_api_success(scanner.breaker)) EXCEPT
                        !.pc = "fetch", !.market = market,
                        !.todo = SubSeq(sorted, 1, Min({Len(sorted), MaxDetailed}))]

(* What the two requests for a pair bring, and whether the deadline of the *)
(* scan passes: during the first, or during the second.                    *)
Fetches == [book: {"full", "half", "none"}, candles: BOOLEAN, late: {"no", "candles"}]
             \cup [book: {"none"}, candles: {FALSE}, late: {"book"}]

FetchNext(f) ==
  /\ scanner.pc = "fetch"
  /\ scanner.todo # <<>>
  /\ IF is_circuit_breaker_open(scanner.breaker) \/ f.late = "book"
     THEN scanner' = [scanner EXCEPT !.todo = <<>>]
     ELSE LET booked == Record(scanner.breaker, f.book # "none")
              late == f.late = "candles"
              ready == f.book = "full" /\ f.candles
          IN scanner' = [scanner EXCEPT
                           !.breaker = IF late THEN booked ELSE Record(booked, f.candles),
                           !.todo = IF late THEN <<>> ELSE Tail(@),
                           !.loaded = IF ready THEN @ \cup {Head(scanner.todo)} ELSE @]

(* The places of the ranking that each step of the choice keeps.           *)

Sector(ranked, i) == {j \in DOMAIN ranked : ranked[j].sector = ranked[i].sector}
Before(K, i) == {j \in K : j < i}

(* Mutant: one pair too many of a sector.                                  *)
diversify_basket_OneMore(ranked) ==
  {i \in DOMAIN ranked : Cardinality(Before(Sector(ranked, i), i)) <= MaxPerSector}

(* A pair is dropped when its sector is full: when enough pairs of the     *)
(* sector, the first of which were kept, are ahead of it.                  *)
diversify_basket(ranked) ==
  {i \in DOMAIN ranked : Cardinality(Before(Sector(ranked, i), i)) < MaxPerSector}

top_pairs(ranked) ==
  LET fit == {i \in diversify_basket(ranked) : TradeState(ranked[i]) # "DoNotTrade"}
  IN {i \in fit : Cardinality(Before(fit, i)) < TopN}
selected_tradable_symbols(ranked) ==
  {i \in top_pairs(ranked) : TradeState(ranked[i]) = "TradeAllowed"}

(* The scan returns, the better pairs first.                               *)
Choose ==
  /\ scanner.pc = "fetch"
  /\ scanner.todo = <<>>
  /\ LET fit == {p \in scanner.loaded : Passed(p)}
     IN \E ranked \in Orderings(fit, [p \in fit |-> Score(p)]) :
        \E chosen \in Kept(ranked, selected_tradable_symbols(ranked)) :
          scanner' = [scanner EXCEPT !.pc = "done", !.loaded = {}, !.chosen = chosen]
=============================================================================
