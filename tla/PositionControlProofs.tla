------------------------- MODULE PositionControlProofs -------------------------
(***************************************************************************)
(* Proof that PositionControl keeps its types for any symbols and bounds,  *)
(* the budget of hedges included.                                          *)
(***************************************************************************)
EXTENDS PositionControl, FiniteSetTheorems, TLAPS

\* A hedge order is on its way only below the budget.
BelowLimit(m) == m.state = "HedgeSentPending" => m.count < kMaxHedgesPerPosition

HedgeActions == {"None", "OpenHedge", "CloseBoth", "CloseHedge", "ClosePrimary"}
PcSet == {"idle", "hedge", "stop", "signal", "send"}

(* TypeOK is not inductive: evaluate_hedge_pending() adds one to the count *)
(* without a test, which is right because an order is sent below the limit.*)
HedgesBelowLimit == \A s \in Symbols : BelowLimit(ctl[s].mgr)
IInv == TypeOK /\ HedgesBelowLimit

(* hedge_pair_manager.cpp, reset() and the notifications keep the types.   *)
LEMMA PairResets ==
  /\ FreshPair \in HedgePair /\ BelowLimit(FreshPair)
  /\ \A m \in HedgePair : NotifyPrimaryOnly(m) \in HedgePair /\ BelowLimit(NotifyPrimaryOnly(m))
  /\ \A m \in HedgePair : CanHedge(m) =>
       NotifyHedgeOpened(m) \in HedgePair /\ BelowLimit(NotifyHedgeOpened(m))
<1>1. 0 \in 0 .. kMaxHedgesPerPosition
  BY HedgeLimitAssumption
<1>2. FreshPair \in HedgePair /\ BelowLimit(FreshPair)
  BY <1>1 DEF FreshPair, HedgePair, HedgePairState, BelowLimit
<1>3. ASSUME NEW m \in HedgePair
      PROVE  NotifyPrimaryOnly(m) \in HedgePair /\ BelowLimit(NotifyPrimaryOnly(m))
  BY <1>3 DEF NotifyPrimaryOnly, HedgePair, HedgePairState, BelowLimit
<1>4. ASSUME NEW m \in HedgePair, CanHedge(m)
      PROVE  NotifyHedgeOpened(m) \in HedgePair /\ BelowLimit(NotifyHedgeOpened(m))
  BY <1>4 DEF NotifyHedgeOpened, HedgePair, HedgePairState, BelowLimit, CanHedge
<1>5. QED
  BY <1>2, <1>3, <1>4

(* evaluate_pair_active() keeps the count.                                 *)
LEMMA PairActiveTyped ==
  ASSUME NEW m \in HedgePair, m.state # "HedgeSentPending", NEW h \in BOOLEAN,
         NEW d \in EvaluatePairActive(m, h)
  PROVE  d.mgr \in HedgePair /\ BelowLimit(d.mgr) /\ d.action \in HedgeActions \ {"OpenHedge"}
<1>1. CASE ~h
  <2>1. d = Outcome([m EXCEPT !.state = "PrimaryOnly"], "None")
    BY <1>1 DEF EvaluatePairActive
  <2>2. d.mgr = [m EXCEPT !.state = "PrimaryOnly"] /\ d.action = "None"
    BY <2>1 DEF Outcome
  <2>3. QED
    BY <2>2 DEF HedgePair, HedgePairState, BelowLimit, HedgeActions
<1>2. CASE h
  <2>1. \/ d = Outcome(m, "None")
        \/ d = Outcome([m EXCEPT !.state = "EmergencyFlatten"], "CloseBoth")
        \/ d = Outcome([m EXCEPT !.state = "ProfitLockPair"], "CloseBoth")
        \/ d = Outcome([m EXCEPT !.state = "AsymmetricUnwind"], "CloseHedge")
        \/ d = Outcome([m EXCEPT !.state = "ReverseTransition"], "ClosePrimary")
    BY <1>2 DEF EvaluatePairActive
  <2>2. ASSUME NEW st \in HedgePairState \ {"HedgeSentPending"},
               NEW a \in HedgeActions \ {"OpenHedge"},
               d = Outcome([m EXCEPT !.state = st], a)
        PROVE  d.mgr \in HedgePair /\ BelowLimit(d.mgr) /\ d.action \in HedgeActions \ {"OpenHedge"}
    <3>1. d.mgr = [m EXCEPT !.state = st] /\ d.action = a
      BY <2>2 DEF Outcome
    <3>2. QED
      BY <3>1 DEF HedgePair, BelowLimit
  <2>3. CASE d = Outcome(m, "None")
    BY <2>3 DEF Outcome, HedgeActions, BelowLimit
  <2>4. {"EmergencyFlatten", "ProfitLockPair", "AsymmetricUnwind", "ReverseTransition"}
          \subseteq HedgePairState \ {"HedgeSentPending"}
    BY DEF HedgePairState
  <2>5. {"CloseBoth", "CloseHedge", "ClosePrimary"} \subseteq HedgeActions \ {"OpenHedge"}
    BY DEF HedgeActions
  <2>6. QED
    BY <2>1, <2>2, <2>3, <2>4, <2>5
<1>3. QED
  BY <1>1, <1>2

(* evaluate(): whatever the market, the fields keep their types, and a     *)
(* hedge is asked for only within the budget.                              *)
LEMMA EvaluateTyped ==
  ASSUME NEW m \in HedgePair, BelowLimit(m), NEW h \in BOOLEAN, NEW d \in Evaluate(m, h)
  PROVE  /\ d.mgr \in HedgePair /\ BelowLimit(d.mgr) /\ d.action \in HedgeActions
         /\ d.action = "OpenHedge" => CanHedge(d.mgr)
<1>1. CASE m.state = "PrimaryOnly"
  <2>1. d = Outcome(m, "None") \/ (d = Outcome(m, "OpenHedge") /\ CanHedge(m))
    BY <1>1 DEF Evaluate, EvaluatePrimaryOnly
  <2>2. QED
    BY <2>1 DEF Outcome, HedgeActions
<1>2. CASE m.state = "HedgeSentPending"
  <2>1. d \in EvaluateHedgePending(m, h)
    BY <1>2 DEF Evaluate
  <2>2. CASE ~h
    BY <2>1, <2>2 DEF EvaluateHedgePending, Outcome, HedgeActions
  <2>3. CASE h
    <3> DEFINE n == [state |-> "PrimaryPlusHedge", count |-> m.count + 1]
    <3>1. m.count + 1 \in 0 .. kMaxHedgesPerPosition
      BY <1>2, HedgeLimitAssumption DEF BelowLimit, HedgePair
    <3>2. n \in HedgePair /\ n.state # "HedgeSentPending"
      BY <3>1 DEF HedgePair, HedgePairState
    <3>3. d \in EvaluatePairActive(n, h)
      BY <2>1, <2>3 DEF EvaluateHedgePending
    <3> HIDE DEF n
    <3>4. QED
      BY <3>2, <3>3, PairActiveTyped
  <2>4. QED
    BY <2>2, <2>3
<1>3. CASE m.state = "ReverseTransition"
  BY <1>3 DEF Evaluate, Outcome, HedgeActions
<1>4. CASE m.state = "EmergencyFlatten"
  BY <1>4 DEF Evaluate, Outcome, HedgeActions
<1>5. CASE m.state \notin {"PrimaryOnly", "HedgeSentPending", "ReverseTransition", "EmergencyFlatten"}
  <2>1. d \in EvaluatePairActive(m, h)
    BY <1>5 DEF Evaluate
  <2>2. QED
    BY <2>1, <1>5, PairActiveTyped
<1>6. QED
  BY <1>1, <1>2, <1>3, <1>4, <1>5
--------------------------------------------------------------------------------
(* The smaller of two quantities is a quantity.                            *)
LEMMA MinTyped ==
  ASSUME NEW a \in Nat, NEW b \in Nat
  PROVE  Min({a, b}) \in Nat /\ Min({a, b}) <= a /\ Min({a, b}) <= b
<1>1. \E x \in {a, b} : \A y \in {a, b} : x <= y
  OBVIOUS
<1>2. QED
  BY <1>1 DEF Min

LEMMA OppositeTyped == \A l \in Legs : Opposite(l) \in Legs
<1>1. \A l \in Legs : \E k \in Legs : k # l
  BY DEF Legs
<1>2. QED
  BY <1>1 DEF Opposite

(* A request is an order of the model.                                     *)
LEMMA NewOrderTyped ==
  ASSUME TypeOK, NEW s \in Symbols, NEW l \in Legs, NEW t \in {"Open", "Close"},
         NEW q \in Nat \ {0}
  PROVE  NewOrder(s, l, t, q) \in Order
<1>1. sent + 1 \in Nat \ {0}
  BY DEF TypeOK
<1>2. QED
  BY <1>1 DEF NewOrder, Order

(* execute() adds orders.                                                  *)
LEMMA ExecuteTyped ==
  ASSUME TypeOK, NEW new \in SUBSET Order, NEW placed, Execute(new, placed)
  PROVE  orders' \subseteq Order /\ sent' \in Nat
BY DEF TypeOK, Execute

(* reset_trailing_state() and reset_hedge_state() keep the types.          *)
LEMMA ResetsTyped ==
  ASSUME NEW c \in Control
  PROVE  /\ ResetTrailing(c) \in Control /\ ResetTrailing(c).mgr = FreshPair
         /\ ResetHedge(c) \in Control /\ ResetHedge(c).side = c.side
         /\ BelowLimit(c.mgr) => BelowLimit(ResetHedge(c).mgr)
<1>1. ResetTrailing(c) \in Control /\ ResetTrailing(c).mgr = FreshPair
  BY PairResets DEF ResetTrailing, Control
<1>2. CASE c.mgr.state = "HedgeSentPending"
  <2>1. ResetHedge(c) = [c EXCEPT !.hedge = FALSE, !.mgr = NotifyPrimaryOnly(c.mgr)]
    BY <1>2 DEF ResetHedge, Control
  <2>2. NotifyPrimaryOnly(c.mgr) \in HedgePair /\ BelowLimit(NotifyPrimaryOnly(c.mgr))
    BY PairResets DEF Control
  <2>3. QED
    BY <1>1, <2>1, <2>2 DEF Control
<1>3. CASE c.mgr.state # "HedgeSentPending"
  <2>1. ResetHedge(c) = [c EXCEPT !.hedge = FALSE, !.mgr = c.mgr]
    BY <1>3 DEF ResetHedge, Control
  <2>2. QED
    BY <1>1, <2>1 DEF Control
<1>4. QED
  BY <1>2, <1>3

(* What a hedge decision leaves in the fields, sends and returns.          *)
LEMMA HedgeStepTyped ==
  ASSUME IInv, NEW s \in Symbols, port[s][ctl[s].side] > 0, NEW ok \in BOOLEAN,
         NEW d, d.mgr \in HedgePair, BelowLimit(d.mgr), d.action \in HedgeActions,
         d.action = "OpenHedge" => CanHedge(d.mgr)
  PROVE  LET h == HedgeStep(s, d, ok) IN
           /\ h.ctl \in Control /\ BelowLimit(h.ctl.mgr)
           /\ h.new \subseteq Order
           /\ h.pc \in {"idle", "stop"}
<1> DEFINE h == HedgeStep(s, d, ok)
           c == [ctl[s] EXCEPT !.mgr = d.mgr]
           other == Opposite(c.side)
<1>1. c \in Control /\ c.mgr = d.mgr /\ c.side = ctl[s].side
  BY DEF IInv, TypeOK, Control
<1>2. c.side \in Legs /\ c.hside \in Legs /\ c.hedge \in BOOLEAN /\ other \in Legs
  BY <1>1, OppositeTyped DEF Control
<1>3. \A l \in Legs : port[s][l] \in Nat
  BY DEF IInv, TypeOK, Positions
<1>4. \A l \in Legs, q \in Nat :
        (IF q > 0 THEN {NewOrder(s, l, "Close", q)} ELSE {}) \subseteq Order
  BY NewOrderTyped DEF IInv
<1>5. CASE d.action = "None" \/ (d.action = "OpenHedge" /\ c.pending)
  <2>1. h.ctl = c /\ h.new = {} /\ h.pc = IF c.hedge THEN "idle" ELSE "stop"
    BY <1>5 DEF HedgeStep
  <2>2. QED
    BY <1>1, <2>1
<1>6. CASE d.action = "OpenHedge" /\ ~c.pending
  <2>1. /\ h.ctl = IF ok THEN [c EXCEPT !.hside = other, !.hedge = TRUE,
                                        !.mgr = NotifyHedgeOpened(c.mgr)]
                         ELSE [c EXCEPT !.hside = other]
        /\ h.new = {NewOrder(s, other, "Open", port[s][c.side])}
        /\ h.pc = IF ok THEN "idle" ELSE "stop"
    BY <1>6, <1>1 DEF HedgeStep, Control
  <2>2. NotifyHedgeOpened(c.mgr) \in HedgePair /\ BelowLimit(NotifyHedgeOpened(c.mgr))
    BY <1>6, <1>1, PairResets
  <2>3. h.ctl \in Control /\ BelowLimit(h.ctl.mgr)
    BY <1>1, <1>2, <2>1, <2>2 DEF Control
  <2>4. h.new \subseteq Order
    BY <1>1, <1>2, <1>3, <2>1, NewOrderTyped DEF IInv
  <2>5. QED
    BY <2>1, <2>3, <2>4
<1>7. CASE d.action = "CloseBoth"
  <2> DEFINE r == ResetTrailing(ResetHedge(c))
  <2>1. r \in Control
    BY <1>1, ResetsTyped
  <2>2. /\ h.ctl = [r EXCEPT !.mgr = NotifyPrimaryOnly(r.mgr)]
        /\ h.new = (IF port[s][c.side] > 0 THEN {NewOrder(s, c.side, "Close", port[s][c.side])} ELSE {})
                   \cup (IF c.hedge /\ port[s][other] > 0
                           THEN IF port[s][other] > 0
                                  THEN {NewOrder(s, c.hside, "Close", port[s][other])} ELSE {}
                           ELSE {})
        /\ h.pc = "idle"
    BY <1>7, <2>1 DEF HedgeStep, Control
  <2> HIDE DEF r
  <2>3. NotifyPrimaryOnly(r.mgr) \in HedgePair /\ BelowLimit(NotifyPrimaryOnly(r.mgr))
    BY <2>1, PairResets DEF Control
  <2>4. h.ctl \in Control /\ BelowLimit(h.ctl.mgr)
    BY <2>1, <2>2, <2>3 DEF Control
  <2>5. h.new \subseteq Order
    BY <1>2, <1>3, <1>4, <2>2
  <2>6. QED
    BY <2>2, <2>4, <2>5
<1>8. CASE d.action = "CloseHedge"
  <2> DEFINE r == ResetHedge(c)
  <2>1. r \in Control
    BY <1>1, ResetsTyped
  <2>2. /\ h.ctl = [r EXCEPT !.pending = TRUE, !.mgr = NotifyPrimaryOnly(r.mgr)]
        /\ h.new = (IF c.hedge /\ port[s][other] > 0
                      THEN IF port[s][other] > 0
                             THEN {NewOrder(s, c.hside, "Close", port[s][other])} ELSE {}
                      ELSE {})
        /\ h.pc = "stop"
    BY <1>8, <2>1 DEF HedgeStep, Control
  <2> HIDE DEF r
  <2>3. NotifyPrimaryOnly(r.mgr) \in HedgePair /\ BelowLimit(NotifyPrimaryOnly(r.mgr))
    BY <2>1, PairResets DEF Control
  <2>4. h.ctl \in Control /\ BelowLimit(h.ctl.mgr)
    BY <2>1, <2>2, <2>3 DEF Control
  <2>5. h.new \subseteq Order
    BY <1>2, <1>3, <1>4, <2>2
  <2>6. QED
    BY <2>2, <2>4, <2>5
<1>9. CASE d.action = "ClosePrimary"
  <2> DEFINE r == ResetHedge(c)
  <2>1. r \in Control
    BY <1>1, ResetsTyped
  <2>2. /\ h.ctl = [r EXCEPT !.side = c.hside, !.pending = TRUE, !.mgr = NotifyPrimaryOnly(r.mgr)]
        /\ h.new = (IF port[s][c.side] > 0 THEN {NewOrder(s, c.side, "Close", port[s][c.side])} ELSE {})
        /\ h.pc = "stop"
    BY <1>9, <2>1 DEF HedgeStep, Control
  <2> HIDE DEF r
  <2>3. NotifyPrimaryOnly(r.mgr) \in HedgePair /\ BelowLimit(NotifyPrimaryOnly(r.mgr))
    BY <2>1, PairResets DEF Control
  <2>4. h.ctl \in Control /\ BelowLimit(h.ctl.mgr)
    BY <1>2, <2>1, <2>2, <2>3 DEF Control
  <2>5. h.new \subseteq Order
    BY <1>2, <1>3, <1>4, <2>2
  <2>6. QED
    BY <2>2, <2>4, <2>5
<1>10. QED
  BY <1>5, <1>6, <1>7, <1>8, <1>9 DEF HedgeActions
--------------------------------------------------------------------------------
(* The balance sync leaves typed positions and fields.                     *)
LEMMA SyncedTyped ==
  ASSUME NEW book \in [Legs -> Nat], NEW listing \in [Legs -> Nat]
  PROVE  Synced(book, listing) \in [Legs -> Nat]
BY DEF Synced, Flat

LEMMA SyncedControlTyped ==
  ASSUME NEW c \in Control, BelowLimit(c.mgr), NEW listing \in [Legs -> Nat]
  PROVE  SyncedControl(c, listing) \in Control /\ BelowLimit(SyncedControl(c, listing).mgr)
<1> DEFINE l == MainLeg(listing)
           r == ResetTrailing(c)
           t == [r EXCEPT !.side = l, !.init = listing[l]]
<1>1. l \in Legs /\ Opposite(l) \in Legs
  BY OppositeTyped DEF MainLeg, Legs
<1>2. r \in Control /\ BelowLimit(r.mgr)
  BY ResetsTyped, PairResets
<1>3. SyncedControl(c, listing) =
        IF \A k \in Legs : listing[k] = 0 THEN c
        ELSE IF listing[Opposite(l)] > 0
               THEN [t EXCEPT !.hedge = TRUE, !.hside = Opposite(l)]
               ELSE [t EXCEPT !.hedge = FALSE]
  BY DEF SyncedControl
<1> HIDE DEF l, r
<1>4. t \in Control /\ BelowLimit(t.mgr)
  BY <1>1, <1>2 DEF Control
<1> HIDE DEF t
<1>5. /\ [t EXCEPT !.hedge = TRUE, !.hside = Opposite(l)] \in Control
      /\ [t EXCEPT !.hedge = TRUE, !.hside = Opposite(l)].mgr = t.mgr
      /\ [t EXCEPT !.hedge = FALSE] \in Control
      /\ [t EXCEPT !.hedge = FALSE].mgr = t.mgr
  BY <1>1, <1>4 DEF Control
<1>6. QED
  BY <1>3, <1>4, <1>5

(* So does the order of a signal.                                          *)
LEMMA AfterSendTyped ==
  ASSUME NEW c \in Control, BelowLimit(c.mgr), NEW j \in Job, NEW ok \in BOOLEAN
  PROVE  AfterSend(c, j, ok) \in Control /\ BelowLimit(AfterSend(c, j, ok).mgr)
<1> DEFINE r == ResetTrailing(c)
<1>1. r \in Control /\ BelowLimit(r.mgr)
  BY ResetsTyped, PairResets
<1>2. j.leg \in Legs /\ j.qty \in Nat /\ j.trade \in {"Open", "Close"}
  BY DEF Job
<1>3. CASE j.trade = "Open" /\ ok
  <2>1. AfterSend(c, j, ok) = [r EXCEPT !.side = j.leg, !.init = j.qty]
    BY <1>3 DEF AfterSend
  <2> HIDE DEF r
  <2>2. QED
    BY <1>1, <1>2, <2>1 DEF Control
<1>4. CASE j.trade = "Open" /\ ~ok
  BY <1>4 DEF AfterSend
<1>5. CASE j.trade = "Close" /\ ok
  <2>1. AfterSend(c, j, ok) = r
    BY <1>5 DEF AfterSend
  <2>2. QED
    BY <1>1, <2>1
<1>6. CASE j.trade = "Close" /\ ~ok
  <2>1. AfterSend(c, j, ok) = [c EXCEPT !.pending = FALSE]
    BY <1>6 DEF AfterSend
  <2>2. QED
    BY <2>1 DEF Control
<1>7. QED
  BY <1>2, <1>3, <1>4, <1>5, <1>6

(* A fill never makes a position negative.                                 *)
LEMMA MovedTyped ==
  ASSUME NEW book \in Positions, NEW o \in Order
  PROVE  Moved(book, o) \in Positions
<1>1. o.sym \in Symbols /\ o.leg \in Legs /\ o.qty \in Nat
  BY DEF Order
<1>2. book[o.sym] \in [Legs -> Nat] /\ book[o.sym][o.leg] \in Nat
  BY <1>1 DEF Positions
<1> DEFINE n == IF o.trade = "Open" THEN book[o.sym][o.leg] + o.qty
                ELSE book[o.sym][o.leg] - Min({book[o.sym][o.leg], o.qty})
<1>3. n \in Nat
  BY <1>1, <1>2, MinTyped
<1>4. Moved(book, o) = [book EXCEPT ![o.sym][o.leg] = n]
  BY DEF Moved
<1> HIDE DEF n
<1>5. QED
  BY <1>1, <1>2, <1>3, <1>4 DEF Positions

(* A step that replaces the fields of one pipeline.                        *)
LEMMA CtlTyped ==
  ASSUME IInv, NEW s \in Symbols, NEW c \in Control, BelowLimit(c.mgr),
         ctl' = [ctl EXCEPT ![s] = c]
  PROVE  ctl' \in [Symbols -> Control] /\ HedgesBelowLimit'
BY DEF IInv, TypeOK, HedgesBelowLimit, BelowLimit

(* A step that moves the tick of one pipeline, other than to its sending.  *)
LEMMA PcTyped ==
  ASSUME IInv, NEW s \in Symbols, NEW next \in PcSet \ {"send"},
         pc' = [pc EXCEPT ![s] = next], UNCHANGED job \/ job' = [job EXCEPT ![s] = Nothing]
  PROVE  /\ pc' \in [Symbols -> PcSet] /\ job' \in [Symbols -> Job \cup {Nothing}]
         /\ \A k \in Symbols : pc'[k] = "send" => job'[k] \in Job
BY DEF IInv, TypeOK, PcSet
--------------------------------------------------------------------------------
(* start() adopts what the exchange has: a typed state.                    *)
LEMMA InitTyped == Init => IInv
<1> SUFFICES ASSUME Init PROVE IInv
  OBVIOUS
<1>1. exch \in Positions
  <2>1. {0, Full} \subseteq Nat
    BY ControlAssumption
  <2>2. QED
    BY <2>1 DEF Init, Positions
<1>2. Flat \in [Legs -> Nat] /\ \A s \in Symbols : exch[s] \in [Legs -> Nat]
  BY <1>1 DEF Flat, Positions
<1>3. port \in Positions
  BY <1>2, SyncedTyped DEF Init, Positions
<1>4. FreshControl \in Control /\ BelowLimit(FreshControl.mgr)
  <2>1. FreshControl.mgr = FreshPair
    BY DEF FreshControl
  <2>2. QED
    BY <2>1, PairResets DEF FreshControl, Control, Legs
<1>5. ctl \in [Symbols -> Control] /\ HedgesBelowLimit
  <2>1. \A s \in Symbols : /\ SyncedControl(FreshControl, exch[s]) \in Control
                           /\ BelowLimit(SyncedControl(FreshControl, exch[s]).mgr)
    BY <1>2, <1>4, SyncedControlTyped
  <2>2. QED
    BY <2>1 DEF Init, HedgesBelowLimit
<1>6. sent \in Nat
  <2>1. IsFiniteSet({s \in Symbols : HasPosition(exch, s)})
    BY ControlAssumption, FS_Subset
  <2>2. QED
    BY <2>1, FS_CardinalityType DEF Init
<1>7. /\ pc \in [Symbols -> {"idle", "hedge", "stop", "signal", "send"}]
      /\ job \in [Symbols -> Job \cup {Nothing}]
      /\ \A s \in Symbols : pc[s] = "send" => job[s] \in Job
      /\ orders \subseteq Order
      /\ sync \in [Symbols -> [Legs -> Nat] \cup {Nothing}]
      /\ recon \in [Symbols -> [local : SUBSET (Symbols \X Legs)] \cup {Nothing}]
  BY DEF Init
<1>8. QED
  BY <1>1, <1>3, <1>5, <1>6, <1>7 DEF IInv, TypeOK

(* A step of the tick keeps the types.                                     *)
LEMMA TickTyped ==
  ASSUME IInv, NEW s \in Symbols, Tick(s)
  PROVE  IInv'
<1> USE DEF PcSet
<1>1. ctl[s] \in Control /\ BelowLimit(ctl[s].mgr) /\ ctl[s].side \in Legs /\ ctl[s].init \in Nat
  BY DEF IInv, TypeOK, HedgesBelowLimit, Control
<1>2. \A l \in Legs : port[s][l] \in Nat /\ exch[s][l] \in Nat
  BY DEF IInv, TypeOK, Positions
<1>3. ResetTrailing(ctl[s]) \in Control /\ BelowLimit(ResetTrailing(ctl[s]).mgr)
  BY <1>1, ResetsTyped, PairResets
<1>4. CASE TickStart(s)
  <2>1. /\ pc' \in [Symbols -> PcSet] /\ job' \in [Symbols -> Job \cup {Nothing}]
        /\ \A k \in Symbols : pc'[k] = "send" => job'[k] \in Job
    BY <1>4, PcTyped DEF TickStart
  <2>2. QED
    BY <1>4, <2>1 DEF TickStart, IInv, TypeOK, HedgesBelowLimit
<1>5. CASE StagnantExit(s)
  <2> DEFINE new == {NewOrder(s, ctl[s].side, "Close", ctl[s].init)}
  <2>1. PICK placed \in {{}, new} : /\ Execute(new, placed)
                                    /\ ctl' = [ctl EXCEPT ![s].pending = placed # {}]
    BY <1>5 DEF StagnantExit
  <2>2. new \in SUBSET Order
    BY <1>1, <1>5, NewOrderTyped DEF IInv, StagnantExit
  <2>3. orders' \subseteq Order /\ sent' \in Nat
    BY <2>1, <2>2, ExecuteTyped DEF IInv
  <2>4. ctl' \in [Symbols -> Control] /\ HedgesBelowLimit'
    <3>1. [ctl[s] EXCEPT !.pending = placed # {}] \in Control
      BY <1>1 DEF Control
    <3>2. [ctl[s] EXCEPT !.pending = placed # {}].mgr = ctl[s].mgr
      BY <1>1 DEF Control
    <3>3. ctl' = [ctl EXCEPT ![s] = [ctl[s] EXCEPT !.pending = placed # {}]]
      BY <2>1 DEF IInv, TypeOK
    <3>4. QED
      BY <1>1, <3>1, <3>2, <3>3, CtlTyped
  <2>5. /\ pc' \in [Symbols -> PcSet] /\ job' \in [Symbols -> Job \cup {Nothing}]
        /\ \A k \in Symbols : pc'[k] = "send" => job'[k] \in Job
    BY <1>5, PcTyped DEF StagnantExit
  <2>6. QED
    BY <1>5, <2>3, <2>4, <2>5 DEF StagnantExit, IInv, TypeOK
<1>6. CASE HedgeCheck(s)
  <2>1. CASE HedgeEnabled => port[s][ctl[s].side] = 0
    <3>1. /\ ctl' = [ctl EXCEPT ![s] = IF HedgeEnabled /\ ctl[s].hedge THEN ResetHedge(ctl[s]) ELSE ctl[s]]
          /\ pc' = [pc EXCEPT ![s] = "stop"]
          /\ UNCHANGED <<exch, port, job, sync, recon, orders, sent>>
      BY <1>1, <1>2, <1>6, <2>1 DEF HedgeCheck
    <3>2. ctl' \in [Symbols -> Control] /\ HedgesBelowLimit'
      BY <1>1, <3>1, ResetsTyped, CtlTyped
    <3>3. /\ pc' \in [Symbols -> PcSet] /\ job' \in [Symbols -> Job \cup {Nothing}]
          /\ \A k \in Symbols : pc'[k] = "send" => job'[k] \in Job
      BY <3>1, PcTyped
    <3>4. QED
      BY <3>1, <3>2, <3>3 DEF IInv, TypeOK
  <2>2. CASE HedgeEnabled /\ port[s][ctl[s].side] > 0
    <3>1. PICK d \in Evaluate(ctl[s].mgr, ctl[s].hedge /\ port[s][Opposite(ctl[s].side)] > 0),
               ok \in BOOLEAN :
             /\ \E placed \in SUBSET HedgeStep(s, d, ok).new : Execute(HedgeStep(s, d, ok).new, placed)
             /\ ctl' = [ctl EXCEPT ![s] = HedgeStep(s, d, ok).ctl]
             /\ pc' = [pc EXCEPT ![s] = HedgeStep(s, d, ok).pc]
      BY <1>6, <2>2, <1>1, <1>2 DEF HedgeCheck
    <3> DEFINE h == HedgeStep(s, d, ok)
               both == ctl[s].hedge /\ port[s][Opposite(ctl[s].side)] > 0
    <3>2. both \in BOOLEAN /\ ctl[s].mgr \in HedgePair
      BY <1>1 DEF Control
    <3>3. /\ d.mgr \in HedgePair /\ BelowLimit(d.mgr) /\ d.action \in HedgeActions
          /\ d.action = "OpenHedge" => CanHedge(d.mgr)
      <4> HIDE DEF both
      <4> QED
        BY <1>1, <3>1, <3>2, EvaluateTyped DEF both
    <3>4. h.ctl \in Control /\ BelowLimit(h.ctl.mgr) /\ h.new \subseteq Order /\ h.pc \in {"idle", "stop"}
      BY <2>2, <3>3, HedgeStepTyped
    <3>5. UNCHANGED <<exch, port, job, sync, recon>>
      BY <1>6 DEF HedgeCheck
    <3> HIDE DEF h
    <3>6. orders' \subseteq Order /\ sent' \in Nat
      BY <3>1, <3>4, ExecuteTyped DEF h, IInv
    <3>7. ctl' \in [Symbols -> Control] /\ HedgesBelowLimit'
      BY <3>1, <3>4, CtlTyped DEF h
    <3>8. /\ pc' \in [Symbols -> PcSet] /\ job' \in [Symbols -> Job \cup {Nothing}]
          /\ \A k \in Symbols : pc'[k] = "send" => job'[k] \in Job
      BY <3>1, <3>4, <3>5, PcTyped DEF h
    <3>9. QED
      BY <3>5, <3>6, <3>7, <3>8 DEF IInv, TypeOK
  <2>3. QED
    BY <1>1, <1>2, <1>6, <2>1, <2>2 DEF HedgeCheck
<1>7. CASE StopPasses(s)
  <2>1. /\ pc' \in [Symbols -> PcSet] /\ job' \in [Symbols -> Job \cup {Nothing}]
        /\ \A k \in Symbols : pc'[k] = "send" => job'[k] \in Job
    BY <1>7, PcTyped DEF StopPasses
  <2>2. QED
    BY <1>7, <2>1 DEF StopPasses, IInv, TypeOK, HedgesBelowLimit
<1>8. CASE StopCleansUp(s)
  <2>1. /\ pc' \in [Symbols -> PcSet] /\ job' \in [Symbols -> Job \cup {Nothing}]
        /\ \A k \in Symbols : pc'[k] = "send" => job'[k] \in Job
    BY <1>8, PcTyped DEF StopCleansUp
  <2>2. ctl' \in [Symbols -> Control] /\ HedgesBelowLimit'
    BY <1>3, <1>8, CtlTyped DEF StopCleansUp
  <2>3. port' \in Positions
    BY <1>1, <1>8 DEF StopCleansUp, IInv, TypeOK, Positions
  <2>4. QED
    BY <1>8, <2>1, <2>2, <2>3 DEF StopCleansUp, IInv, TypeOK
<1>9. CASE StopCloses(s)
  <2>1. PICK q \in {exch[s][ctl[s].side]} \cup {port[s][l] : l \in Legs} :
          /\ q > 0
          /\ \E placed \in {{}, {NewOrder(s, ctl[s].side, "Close", q)}} :
               /\ Execute({NewOrder(s, ctl[s].side, "Close", q)}, placed)
               /\ ctl' = [ctl EXCEPT ![s] = IF placed = {} THEN ctl[s] ELSE ResetTrailing(ctl[s])]
    BY <1>9 DEF StopCloses
  <2>2. q \in Nat \ {0}
    BY <1>1, <1>2, <2>1
  <2>3. {NewOrder(s, ctl[s].side, "Close", q)} \in SUBSET Order
    BY <1>1, <2>2, NewOrderTyped DEF IInv
  <2>4. orders' \subseteq Order /\ sent' \in Nat
    BY <2>1, <2>3, ExecuteTyped DEF IInv
  <2>5. ctl' \in [Symbols -> Control] /\ HedgesBelowLimit'
    BY <1>1, <1>3, <2>1, CtlTyped
  <2>6. /\ pc' \in [Symbols -> PcSet] /\ job' \in [Symbols -> Job \cup {Nothing}]
        /\ \A k \in Symbols : pc'[k] = "send" => job'[k] \in Job
    BY <1>9, PcTyped DEF StopCloses
  <2>7. QED
    BY <1>9, <2>4, <2>5, <2>6 DEF StopCloses, IInv, TypeOK
<1>10. CASE NoSignal(s)
  <2>1. /\ pc' \in [Symbols -> PcSet] /\ job' \in [Symbols -> Job \cup {Nothing}]
        /\ \A k \in Symbols : pc'[k] = "send" => job'[k] \in Job
    BY <1>10, PcTyped DEF NoSignal
  <2>2. QED
    BY <1>10, <2>1 DEF NoSignal, IInv, TypeOK, HedgesBelowLimit
<1>11. CASE ExitDecided(s)
  <2>1. PICK leg \in Legs, reduce \in BOOLEAN, q \in 1 .. PositionSize(s),
             listed \in {0, exch[s][ctl[s].side]} :
          job' = [job EXCEPT ![s] = [trade |-> "Close", leg |-> leg,
                    qty |-> IF listed = 0 THEN q ELSE IF reduce THEN Min({q, listed}) ELSE listed]]
    BY <1>11 DEF ExitDecided
  <2> DEFINE n == IF listed = 0 THEN q ELSE IF reduce THEN Min({q, listed}) ELSE listed
             j == [trade |-> "Close", leg |-> leg, qty |-> n]
  <2>2. PositionSize(s) \in Nat
    BY <1>2 DEF PositionSize, Legs
  <2>3. q \in Nat \ {0} /\ listed \in Nat
    BY <1>1, <1>2, <2>2
  <2>4. Min({q, listed}) \in {q, listed}
    <3>1. \E x \in {q, listed} : \A y \in {q, listed} : x <= y
      BY <2>3
    <3>2. QED
      BY <3>1 DEF Min
  <2>5. n \in Nat \ {0}
    BY <2>3, <2>4
  <2> HIDE DEF n
  <2>6. j \in Job
    BY <2>5 DEF Job
  <2>7. job' = [job EXCEPT ![s] = j]
    BY <2>1 DEF n
  <2> HIDE DEF j
  <2>8. /\ pc' \in [Symbols -> PcSet] /\ job' \in [Symbols -> Job \cup {Nothing}]
        /\ \A k \in Symbols : pc'[k] = "send" => job'[k] \in Job
    BY <1>11, <2>6, <2>7 DEF ExitDecided, IInv, TypeOK
  <2>9. ctl' \in [Symbols -> Control] /\ HedgesBelowLimit'
    <3>1. [ctl[s] EXCEPT !.pending = TRUE] \in Control /\ [ctl[s] EXCEPT !.pending = TRUE].mgr = ctl[s].mgr
      BY <1>1 DEF Control
    <3>2. ctl' = [ctl EXCEPT ![s] = [ctl[s] EXCEPT !.pending = TRUE]]
      BY <1>11 DEF ExitDecided, IInv, TypeOK
    <3>3. QED
      BY <1>1, <3>1, <3>2, CtlTyped
  <2>10. QED
    BY <1>11, <2>8, <2>9 DEF ExitDecided, IInv, TypeOK
<1>12. CASE EntryDecided(s)
  <2>1. PICK leg \in Legs :
          job' = [job EXCEPT ![s] = [trade |-> "Open", leg |-> leg, qty |-> Full]]
    BY <1>12 DEF EntryDecided
  <2>2. [trade |-> "Open", leg |-> leg, qty |-> Full] \in Job
    BY ControlAssumption DEF Job
  <2>3. /\ pc' \in [Symbols -> PcSet] /\ job' \in [Symbols -> Job \cup {Nothing}]
        /\ \A k \in Symbols : pc'[k] = "send" => job'[k] \in Job
    BY <1>12, <2>1, <2>2 DEF EntryDecided, IInv, TypeOK
  <2>4. QED
    BY <1>12, <2>3 DEF EntryDecided, IInv, TypeOK, HedgesBelowLimit
<1>13. CASE DroppedBeforeSend(s)
  <2>1. /\ pc' \in [Symbols -> PcSet] /\ job' \in [Symbols -> Job \cup {Nothing}]
        /\ \A k \in Symbols : pc'[k] = "send" => job'[k] \in Job
    BY <1>13, PcTyped DEF DroppedBeforeSend
  <2>2. QED
    BY <1>13, <2>1 DEF DroppedBeforeSend, IInv, TypeOK, HedgesBelowLimit
<1>14. CASE Send(s)
  <2> DEFINE new == {NewOrder(s, job[s].leg, job[s].trade, job[s].qty)}
  <2>1. PICK placed \in {{}, new} : /\ Execute(new, placed)
                                    /\ ctl' = [ctl EXCEPT ![s] = AfterSend(ctl[s], job[s], placed # {})]
    BY <1>14 DEF Send
  <2>2. job[s] \in Job
    BY <1>14 DEF Send, IInv, TypeOK
  <2>3. new \in SUBSET Order
    BY <2>2, NewOrderTyped DEF IInv, Job
  <2>4. orders' \subseteq Order /\ sent' \in Nat
    BY <2>1, <2>3, ExecuteTyped DEF IInv
  <2>5. ctl' \in [Symbols -> Control] /\ HedgesBelowLimit'
    <3> DEFINE ok == placed # {}
    <3>1. ok \in BOOLEAN
      OBVIOUS
    <3> HIDE DEF ok
    <3>2. AfterSend(ctl[s], job[s], ok) \in Control /\ BelowLimit(AfterSend(ctl[s], job[s], ok).mgr)
      BY <1>1, <2>2, <3>1, AfterSendTyped
    <3>3. QED
      BY <2>1, <3>2, CtlTyped DEF ok
  <2>6. /\ pc' \in [Symbols -> PcSet] /\ job' \in [Symbols -> Job \cup {Nothing}]
        /\ \A k \in Symbols : pc'[k] = "send" => job'[k] \in Job
    BY <1>14, PcTyped DEF Send
  <2>7. QED
    BY <1>14, <2>4, <2>5, <2>6 DEF Send, IInv, TypeOK
<1>15. QED
  BY <1>4, <1>5, <1>6, <1>7, <1>8, <1>9, <1>10, <1>11, <1>12, <1>13, <1>14 DEF Tick

(* The exchange, the private WebSocket and the pool keep them too.         *)
LEMMA OthersTyped ==
  ASSUME IInv, \/ \E o \in orders : Fill(o) \/ Drop(o) \/ Book(o)
               \/ \E s \in Symbols : \/ SyncFetch(s) \/ SyncFails(s) \/ SyncApply(s)
                                     \/ ReconcileRead(s) \/ ReconcileFails(s) \/ ReconcileApply(s)
                                     \/ \E l \in Legs : PlanTriggers(s, l)
  PROVE  IInv'
<1>1. ASSUME NEW o \in orders, Fill(o) \/ Drop(o) \/ Book(o)
      PROVE  IInv'
  <2>1. o \in Order /\ [o EXCEPT !.state = "filled"] \in Order
    BY DEF IInv, TypeOK, Order
  <2>2. Moved(exch, o) \in Positions /\ Moved(port, o) \in Positions
    BY <2>1, MovedTyped DEF IInv, TypeOK
  <2>3. CASE Fill(o)
    BY <2>1, <2>2, <2>3 DEF Fill, IInv, TypeOK, HedgesBelowLimit
  <2>4. CASE Drop(o)
    BY <2>4 DEF Drop, IInv, TypeOK, HedgesBelowLimit
  <2>5. CASE Book(o)
    BY <2>2, <2>5 DEF Book, IInv, TypeOK, HedgesBelowLimit
  <2>6. QED
    BY <1>1, <2>3, <2>4, <2>5
<1>2. ASSUME NEW s \in Symbols, NEW l \in Legs, PlanTriggers(s, l)
      PROVE  IInv'
  <2>1. exch' \in Positions
    BY <1>2 DEF PlanTriggers, IInv, TypeOK, Positions
  <2>2. QED
    BY <1>2, <2>1 DEF PlanTriggers, IInv, TypeOK, HedgesBelowLimit
<1>3. ASSUME NEW s \in Symbols, SyncFetch(s) \/ SyncFails(s)
      PROVE  IInv'
  <2>1. sync' \in [Symbols -> [Legs -> Nat] \cup {Nothing}]
    BY <1>3 DEF SyncFetch, SyncFails, IInv, TypeOK, Positions
  <2>2. QED
    BY <1>3, <2>1 DEF SyncFetch, SyncFails, IInv, TypeOK, HedgesBelowLimit
<1>4. ASSUME NEW s \in Symbols, SyncApply(s)
      PROVE  IInv'
  <2>1. sync[s] \in [Legs -> Nat] /\ port[s] \in [Legs -> Nat]
    BY <1>4 DEF SyncApply, IInv, TypeOK, Positions
  <2>2. ctl[s] \in Control /\ BelowLimit(ctl[s].mgr)
    BY DEF IInv, TypeOK, HedgesBelowLimit
  <2>3. port' \in Positions
    BY <1>4, <2>1, SyncedTyped DEF SyncApply, IInv, TypeOK, Positions
  <2>4. ctl' \in [Symbols -> Control] /\ HedgesBelowLimit'
    BY <1>4, <2>1, <2>2, SyncedControlTyped, CtlTyped DEF SyncApply
  <2>5. sync' \in [Symbols -> [Legs -> Nat] \cup {Nothing}]
    BY <1>4 DEF SyncApply, IInv, TypeOK
  <2>6. QED
    BY <1>4, <2>3, <2>4, <2>5 DEF SyncApply, IInv, TypeOK
<1>5. ASSUME NEW s \in Symbols, ReconcileRead(s) \/ ReconcileFails(s)
      PROVE  IInv'
  <2>1. [local |-> Open(port)] \in [local : SUBSET (Symbols \X Legs)]
    BY DEF Open
  <2>2. recon' \in [Symbols -> [local : SUBSET (Symbols \X Legs)] \cup {Nothing}]
    BY <1>5, <2>1 DEF ReconcileRead, ReconcileFails, IInv, TypeOK
  <2>3. QED
    BY <1>5, <2>2 DEF ReconcileRead, ReconcileFails, IInv, TypeOK, HedgesBelowLimit
<1>6. ASSUME NEW s \in Symbols, ReconcileApply(s)
      PROVE  IInv'
  <2> DEFINE gone == OnlyLocal(recon[s].local)
             r == IF ctl[s].hedge THEN ResetHedge(ctl[s]) ELSE ctl[s]
             c == IF gone = {} THEN ctl[s] ELSE ResetTrailing(r)
             b == [l \in Legs |-> IF l \in gone THEN 0 ELSE port[s][l]]
  <2>1. /\ port' = [port EXCEPT ![s] = b] /\ ctl' = [ctl EXCEPT ![s] = c]
        /\ recon' = [recon EXCEPT ![s] = Nothing]
        /\ UNCHANGED <<exch, pc, job, orders, sent, sync>>
    BY <1>6 DEF ReconcileApply
  <2>2. ctl[s] \in Control /\ BelowLimit(ctl[s].mgr)
    BY DEF IInv, TypeOK, HedgesBelowLimit
  <2>3. c \in Control /\ BelowLimit(c.mgr)
    BY <2>2, ResetsTyped, PairResets
  <2>4. b \in [Legs -> Nat]
    BY DEF IInv, TypeOK, Positions
  <2> HIDE DEF c, b
  <2>5. ctl' \in [Symbols -> Control] /\ HedgesBelowLimit'
    BY <2>1, <2>3, CtlTyped
  <2>6. port' \in Positions
    BY <2>1, <2>4 DEF IInv, TypeOK, Positions
  <2>7. QED
    BY <2>1, <2>5, <2>6 DEF IInv, TypeOK
<1>7. QED
  BY <1>1, <1>2, <1>3, <1>4, <1>5, <1>6

(* For any number of symbols, any entry size and any limit of hedges, the  *)
(* fields of the pipelines keep their types under every interleaving of    *)
(* the ticks, the fills, the plans, the syncs and the reconciliations: no  *)
(* position of the portfolio or the exchange becomes negative and the      *)
(* count of hedges never passes kMaxHedgesPerPosition.                     *)
THEOREM ControlTypeCorrect == Spec => []TypeOK
<1>1. Init => IInv
  BY InitTyped
<1>2. IInv /\ [Next]_vars => IInv'
  <2> SUFFICES ASSUME IInv, [Next]_vars PROVE IInv'
    OBVIOUS
  <2>1. CASE Next
    BY <2>1, TickTyped, OthersTyped DEF Next
  <2>2. CASE UNCHANGED vars
    BY <2>2 DEF vars, IInv, TypeOK, HedgesBelowLimit
  <2>3. QED
    BY <2>1, <2>2
<1>3. IInv => TypeOK
  BY DEF IInv
<1>4. QED
  BY <1>1, <1>2, <1>3, PTL DEF Spec
================================================================================
