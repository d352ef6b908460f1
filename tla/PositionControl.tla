---------------------------- MODULE PositionControl ----------------------------
(***************************************************************************)
(* How the pipelines of pipeline/trading_pipeline.cpp control their        *)
(* positions.  A tick runs, in this order, the stagnant-position exit, the *)
(* hedge recovery, the stop-loss check and the signal of the strategy; each*)
(* may send an order.  Meanwhile the exchange fills orders and triggers    *)
(* TP/SL plans, the private WebSocket books fills into the shared          *)
(* portfolio, and the pool's worker runs the balance sync and the position *)
(* reconciliation, which write the same fields without a lock.             *)
(*                                                                         *)
(* Prices, scores and gates only decide whether a step is taken: they are  *)
(* nondeterministic choices.  An order is a record that is `working' until *)
(* the exchange fills or drops it and `filled' until its fill is booked;   *)
(* OrderExecution has the detail of that path, ProtectiveBrackets that of  *)
(* the plans.  A cooldown only delays a step and is one of the choices.    *)
(***************************************************************************)
EXTENDS HedgePairManager, FiniteSets, FiniteSetsExt

CONSTANTS
  Symbols,        \* one pipeline per symbol, one portfolio for all of them
  Full,           \* the size of an entry
  HedgeEnabled,   \* config_.trading_params.hedge_recovery_enabled
  MaxSends        \* bound on the steps that send an order

ASSUME ControlAssumption ==
  /\ IsFiniteSet(Symbols)
  /\ Full \in Nat \ {0}
  /\ HedgeEnabled \in BOOLEAN
  /\ MaxSends \in Nat

VARIABLES
  exch,     \* the positions at the exchange
  port,     \* the positions of portfolio_
  ctl,      \* the control fields of each pipeline
  pc,       \* where the tick of each pipeline is
  job,      \* the order a tick is about to send
  orders,   \* orders sent and not yet booked or dropped
  sent,     \* how many steps have sent orders
  sync,     \* the positions fetched by a balance sync under way
  recon     \* the local positions a reconciliation under way has taken

vars == <<exch, port, ctl, pc, job, orders, sent, sync, recon>>

Legs == {"Long", "Short"}
Opposite(l) == CHOOSE k \in Legs : k # l

Flat == [l \in Legs |-> 0]
Nothing == [none |-> TRUE]

HasPosition(book, s) == \E l \in Legs : book[s][l] > 0
Lone(book, s, l) == book[s][l] > 0 /\ book[s][Opposite(l)] = 0
--------------------------------------------------------------------------------
\* The fields of a pipeline: current_position_side_, hedge_position_side_,
\* hedge_active_, the HedgePairManager, close_order_pending_ and
\* initial_position_size_.
Control == [side : Legs, hside : Legs, hedge : BOOLEAN, mgr : HedgePair,
            pending : BOOLEAN, init : Nat]

FreshControl == [side |-> "Long", hside |-> "Short", hedge |-> FALSE, mgr |-> FreshPair,
                 pending |-> FALSE, init |-> 0]

\* reset_trailing_state()
ResetTrailing(c) == [c EXCEPT !.pending = FALSE, !.init = 0, !.mgr = FreshPair]

\* reset_hedge_state()
ResetHedge(c) ==
  [c EXCEPT !.hedge = FALSE,
            !.mgr = IF @.state = "HedgeSentPending" THEN NotifyPrimaryOnly(@) ELSE @]

Order == [id : Nat \ {0}, sym : Symbols, leg : Legs, trade : {"Open", "Close"},
          qty : Nat \ {0}, state : {"working", "filled"}]

\* The order that execute() of a request places; two of one step differ in their leg.
NewOrder(s, l, t, q) ==
  [id |-> sent + 1, sym |-> s, leg |-> l, trade |-> t, qty |-> q, state |-> "working"]

\* execute() of the requests `new': those in `placed' are at the exchange, the
\* others were refused.
Execute(new, placed) ==
  /\ placed \subseteq new
  /\ placed # {} => sent < MaxSends
  /\ orders' = orders \cup placed
  /\ sent' = IF placed = {} THEN sent ELSE sent + 1

\* execution_engine_->active_orders() of the symbol that open a position.
ActiveEntry(s) == \E o \in orders : o.sym = s /\ o.trade = "Open"
--------------------------------------------------------------------------------
\* mutant of Synced: a leg the portfolio has already is left alone
Synced_KeepsLocal(book, listing) ==
  IF \A l \in Legs : listing[l] = 0
    THEN Flat
    ELSE [l \in Legs |-> IF book[l] > 0 THEN book[l] ELSE listing[l]]

\* What sync_balance_from_exchange() makes of a listing: each leg found replaces the
\* local one; only when none is found are local legs removed.
Synced(book, listing) ==
  IF \A l \in Legs : listing[l] = 0
    THEN Flat
    ELSE [l \in Legs |-> IF listing[l] > 0 THEN listing[l] ELSE book[l]]

\* The larger leg is the main one, the long leg of two equal ones.
MainLeg(listing) == IF listing["Long"] >= listing["Short"] THEN "Long" ELSE "Short"

\* mutants of SyncedControl: the side is not taken over from a single leg; the
\* trailing state is not reset
SyncedControl_KeepsSide(c, listing) ==
  LET l == MainLeg(listing) IN
    IF \A k \in Legs : listing[k] = 0 THEN c
    ELSE IF listing[Opposite(l)] > 0
           THEN [ResetTrailing(c) EXCEPT !.side = l, !.init = listing[l],
                                         !.hedge = TRUE, !.hside = Opposite(l)]
           ELSE [ResetTrailing(c) EXCEPT !.init = listing[l], !.hedge = FALSE]
SyncedControl_NoReset(c, listing) ==
  LET l == MainLeg(listing) IN
    IF \A k \in Legs : listing[k] = 0 THEN c
    ELSE [c EXCEPT !.side = l, !.init = listing[l], !.hedge = listing[Opposite(l)] > 0,
                   !.hside = IF listing[Opposite(l)] > 0 THEN Opposite(l) ELSE @]

\* The fields after the sync.  reset_trailing_state() comes after
\* notify_hedge_opened() and resets the manager it has just told.
SyncedControl(c, listing) ==
  LET l == MainLeg(listing)
      tracked == [ResetTrailing(c) EXCEPT !.side = l, !.init = listing[l]]
  IN IF \A k \in Legs : listing[k] = 0 THEN c
     ELSE IF listing[Opposite(l)] > 0
            THEN [tracked EXCEPT !.hedge = TRUE, !.hside = Opposite(l)]
            ELSE [tracked EXCEPT !.hedge = FALSE]

\* start() syncs before the first tick: a position the exchange has from before,
\* a hedged pair too, is adopted; it counts as a step that has sent an order.
Init ==
  /\ exch \in [Symbols -> [Legs -> {0, Full}]]
  /\ port = [s \in Symbols |-> Synced(Flat, exch[s])]
  /\ ctl = [s \in Symbols |-> SyncedControl(FreshControl, exch[s])]
  /\ pc = [s \in Symbols |-> "idle"] /\ job = [s \in Symbols |-> Nothing]
  /\ orders = {}
  /\ sent = Cardinality({s \in Symbols : HasPosition(exch, s)})
  /\ sync = [s \in Symbols |-> Nothing] /\ recon = [s \in Symbols |-> Nothing]
--------------------------------------------------------------------------------
\* on_feature_snapshot() up to check_hedge_recovery(), without a stagnant exit.
TickStart(s) ==
  /\ pc[s] = "idle"
  /\ pc' = [pc EXCEPT ![s] = "hedge"]
  /\ UNCHANGED <<exch, port, ctl, job, orders, sent, sync, recon>>

\* run_periodic_tasks() finds the position stagnant and closes it.
StagnantExit(s) ==
  /\ pc[s] = "idle"
  /\ HasPosition(port, s) /\ ctl[s].init > 0 /\ ~ctl[s].pending
  /\ LET new == {NewOrder(s, ctl[s].side, "Close", ctl[s].init)} IN
       \E placed \in {{}, new} :
         /\ Execute(new, placed)
         /\ ctl' = [ctl EXCEPT ![s].pending = placed # {}]
  /\ pc' = [pc EXCEPT ![s] = "hedge"]
  /\ UNCHANGED <<exch, port, job, sync, recon>>
--------------------------------------------------------------------------------
\* What check_hedge_recovery() does with a decision d: the new fields, the
\* orders it tries to send and where the tick goes on.  A refused order only
\* matters to OpenHedge; the results of close_hedge_leg() are not looked at.
HedgeStep(s, d, ok) ==
  LET c == [ctl[s] EXCEPT !.mgr = d.mgr]
      other == Opposite(c.side)
      pair == c.hedge /\ port[s][other] > 0
      goOn == IF c.hedge THEN "idle" ELSE "stop"
      close(l, q) == IF q > 0 THEN {NewOrder(s, l, "Close", q)} ELSE {}
  IN CASE d.action = "None" \/ (d.action = "OpenHedge" /\ c.pending) ->
            [ctl |-> c, new |-> {}, pc |-> goOn]
       [] d.action = "OpenHedge" /\ ~c.pending ->
            [ctl |-> IF ok THEN [c EXCEPT !.hside = other, !.hedge = TRUE,
                                          !.mgr = NotifyHedgeOpened(@)]
                           ELSE [c EXCEPT !.hside = other],
             new |-> {NewOrder(s, other, "Open", port[s][c.side])},
             pc  |-> IF ok THEN "idle" ELSE "stop"]
       [] d.action = "CloseBoth" ->
            [ctl |-> [ResetTrailing(ResetHedge(c)) EXCEPT !.mgr = NotifyPrimaryOnly(@)],
             new |-> close(c.side, port[s][c.side])
                     \cup (IF pair THEN close(c.hside, port[s][other]) ELSE {}),
             pc  |-> "idle"]
       [] d.action = "CloseHedge" ->
            [ctl |-> [ResetHedge(c) EXCEPT !.pending = TRUE, !.mgr = NotifyPrimaryOnly(@)],
             new |-> IF pair THEN close(c.hside, port[s][other]) ELSE {},
             pc  |-> "stop"]
       [] d.action = "ClosePrimary" ->
            [ctl |-> [ResetHedge(c) EXCEPT !.side = c.hside, !.pending = TRUE,
                                           !.mgr = NotifyPrimaryOnly(@)],
             new |-> close(c.side, port[s][c.side]),
             pc  |-> "stop"]

\* check_hedge_recovery(): nothing if it is not configured; without the tracked leg
\* the hedge state is dropped.
HedgeCheck(s) ==
  /\ pc[s] = "hedge"
  /\ \/ /\ HedgeEnabled => port[s][ctl[s].side] = 0
        /\ ctl' = [ctl EXCEPT ![s] = IF HedgeEnabled /\ @.hedge THEN ResetHedge(@) ELSE @]
        /\ pc' = [pc EXCEPT ![s] = "stop"]
        /\ UNCHANGED <<orders, sent>>
     \/ /\ HedgeEnabled /\ port[s][ctl[s].side] > 0
        /\ \E d \in Evaluate(ctl[s].mgr, ctl[s].hedge /\ port[s][Opposite(ctl[s].side)] > 0),
              ok \in BOOLEAN :
             LET h == HedgeStep(s, d, ok) IN
               /\ \E placed \in SUBSET h.new : ok = (placed # {}) /\ Execute(h.new, placed)
               /\ ctl' = [ctl EXCEPT ![s] = h.ctl]
               /\ pc' = [pc EXCEPT ![s] = h.pc]
  /\ UNCHANGED <<exch, port, job, sync, recon>>
--------------------------------------------------------------------------------
\* check_position_stop_loss() wants to exit: the orchestrator may so decide of any
\* position, never with an active hedge.
StopDecided(s) ==
  pc[s] = "stop" /\ ~ctl[s].pending /\ ~ctl[s].hedge /\ HasPosition(port, s)

\* A pending close ends the tick, and so does the cooldown of an exit; without an
\* exit decision, or in the grace period of a fill, the tick goes on.
StopPasses(s) ==
  /\ pc[s] = "stop"
  /\ \E next \in {"idle", "signal"} :
       /\ ctl[s].pending => next = "idle"
       /\ next = "idle" => ctl[s].pending \/ StopDecided(s)
       /\ pc' = [pc EXCEPT ![s] = next]
  /\ UNCHANGED <<exch, port, ctl, job, orders, sent, sync, recon>>

\* The exchange does not list the leg or lists less than an order can close (the tick
\* ends), or what is there is dust (it goes on): the leg is closed in the portfolio only.
StopCleansUp(s) ==
  /\ StopDecided(s)
  /\ \E next \in {"idle", "signal"} : pc' = [pc EXCEPT ![s] = next]
  /\ port' = [port EXCEPT ![s][ctl[s].side] = 0]
  /\ ctl' = [ctl EXCEPT ![s] = ResetTrailing(@)]
  /\ UNCHANGED <<exch, job, orders, sent, sync, recon>>

\* A market order closes the size the exchange lists or, if the query fails, the
\* local one; the local state is reset when the order is sent.
StopCloses(s) ==
  /\ StopDecided(s)
  /\ \E q \in {exch[s][ctl[s].side]} \cup {port[s][l] : l \in Legs} :
       LET new == {NewOrder(s, ctl[s].side, "Close", q)} IN
         /\ q > 0
         /\ \E placed \in {{}, new} :
              /\ Execute(new, placed)
              /\ ctl' = [ctl EXCEPT ![s] = IF placed = {} THEN @ ELSE ResetTrailing(@)]
  /\ pc' = [pc EXCEPT ![s] = "idle"]
  /\ UNCHANGED <<exch, port, job, sync, recon>>
--------------------------------------------------------------------------------
\* No signal, or a gate of on_feature_snapshot() refuses it: the tick ends.
NoSignal(s) ==
  /\ pc[s] = "signal"
  /\ pc' = [pc EXCEPT ![s] = "idle"]
  /\ UNCHANGED <<exch, port, ctl, job, orders, sent, sync, recon>>

\* The size of the position a signal is judged against: the long leg first.
PositionSize(s) == IF port[s]["Long"] > 0 THEN port[s]["Long"] ELSE port[s]["Short"]

\* An exit signal: LongExit and ShortExit name the leg, ReducePosition is about
\* the tracked one.  The size is the exchange's for the TRACKED leg, if it has one
\* and the query succeeds.
ExitDecided(s) ==
  /\ pc[s] = "signal" /\ HasPosition(port, s)
  /\ \E leg \in Legs, reduce \in BOOLEAN, q \in 1 .. PositionSize(s),
        listed \in {0, exch[s][ctl[s].side]} :
       /\ reduce => leg = ctl[s].side
       /\ ~reduce => q = PositionSize(s)
       /\ LET qty == IF listed = 0 THEN q ELSE IF reduce THEN Min({q, listed}) ELSE listed
          IN job' = [job EXCEPT ![s] = [trade |-> "Close", leg |-> leg, qty |-> qty]]
  /\ ctl' = [ctl EXCEPT ![s].pending = TRUE]
  /\ pc' = [pc EXCEPT ![s] = "send"]
  /\ UNCHANGED <<exch, port, orders, sent, sync, recon>>

\* An entry signal that passes the gates: nothing pending, no local position and
\* no active entry order.
EntryDecided(s) ==
  /\ pc[s] = "signal"
  /\ ~ctl[s].pending /\ ~HasPosition(port, s) /\ ~ActiveEntry(s)
  /\ \E leg \in Legs :
       job' = [job EXCEPT ![s] = [trade |-> "Open", leg |-> leg, qty |-> Full]]
  /\ pc' = [pc EXCEPT ![s] = "send"]
  /\ UNCHANGED <<exch, port, ctl, orders, sent, sync, recon>>

\* The TWAP plan or the leverage block ends the tick after the close has been
\* marked as pending; for an entry, so does a refused set_leverage() or a gate.
DroppedBeforeSend(s) ==
  /\ pc[s] = "send"
  /\ pc' = [pc EXCEPT ![s] = "idle"]
  /\ job' = [job EXCEPT ![s] = Nothing]
  /\ UNCHANGED <<exch, port, ctl, orders, sent, sync, recon>>

\* What the tick leaves in the fields after execute().
AfterSend(c, j, ok) ==
  CASE j.trade = "Open" /\ ok    -> [ResetTrailing(c) EXCEPT !.side = j.leg, !.init = j.qty]
    [] j.trade = "Open" /\ ~ok   -> c
    [] j.trade = "Close" /\ ok   -> ResetTrailing(c)
    [] j.trade = "Close" /\ ~ok  -> [c EXCEPT !.pending = FALSE]

\* execute() of the signal's order.
Send(s) ==
  /\ pc[s] = "send"
  /\ LET new == {NewOrder(s, job[s].leg, job[s].trade, job[s].qty)} IN
       \E placed \in {{}, new} :
         /\ Execute(new, placed)
         /\ ctl' = [ctl EXCEPT ![s] = AfterSend(@, job[s], placed # {})]
  /\ pc' = [pc EXCEPT ![s] = "idle"]
  /\ job' = [job EXCEPT ![s] = Nothing]
  /\ UNCHANGED <<exch, port, sync, recon>>
--------------------------------------------------------------------------------
\* A fill opens or adds to a leg, or reduces it to nothing at most.
Moved(book, o) ==
  [book EXCEPT ![o.sym][o.leg] =
     IF o.trade = "Open" THEN @ + o.qty ELSE @ - Min({@, o.qty})]

\* The exchange fills an order; a close takes no more than there is.
Fill(o) ==
  /\ o.state = "working"
  /\ exch' = Moved(exch, o)
  /\ orders' = (orders \ {o}) \cup {[o EXCEPT !.state = "filled"]}
  /\ UNCHANGED <<port, ctl, pc, job, sent, sync, recon>>

\* The order ends unfilled.
Drop(o) ==
  /\ o.state = "working"
  /\ orders' = orders \ {o}
  /\ UNCHANGED <<exch, port, ctl, pc, job, sent, sync, recon>>

\* FillProcessor books the fill into the portfolio.
Book(o) ==
  /\ o.state = "filled"
  /\ port' = Moved(port, o)
  /\ orders' = orders \ {o}
  /\ UNCHANGED <<exch, ctl, pc, job, sent, sync, recon>>

\* A TP or SL plan closes a leg at the exchange; no local order knows of it.
PlanTriggers(s, l) ==
  /\ exch[s][l] > 0
  /\ exch' = [exch EXCEPT ![s][l] = 0]
  /\ UNCHANGED <<port, ctl, pc, job, orders, sent, sync, recon>>
--------------------------------------------------------------------------------
\* rest_pool_ of a pipeline has one worker: its jobs run one after the other.
PoolIsFree(s) == sync[s] = Nothing /\ recon[s] = Nothing

\* sync_balance_from_exchange(): get_positions() of the symbol ...
SyncFetch(s) ==
  /\ PoolIsFree(s)
  /\ sync' = [sync EXCEPT ![s] = exch[s]]
  /\ UNCHANGED <<exch, port, ctl, pc, job, orders, sent, recon>>

\* ... which fails, ...
SyncFails(s) ==
  /\ sync[s] # Nothing
  /\ sync' = [sync EXCEPT ![s] = Nothing]
  /\ UNCHANGED <<exch, port, ctl, pc, job, orders, sent, recon>>

\* ... or is taken over.
SyncApply(s) ==
  /\ sync[s] # Nothing
  /\ port' = [port EXCEPT ![s] = Synced(@, sync[s])]
  /\ ctl' = [ctl EXCEPT ![s] = SyncedControl(@, sync[s])]
  /\ sync' = [sync EXCEPT ![s] = Nothing]
  /\ UNCHANGED <<exch, pc, job, orders, sent, recon>>
--------------------------------------------------------------------------------
\* The positions of a portfolio or of the exchange, of all symbols.
Open(book) == {p \in Symbols \X Legs : book[p[1]][p[2]] > 0}

\* reconcile_positions(): the sides of the positions, whichever symbol they are of,
\* that only the portfolio has.
OnlyLocal(local) == {m[2] : m \in local \ Open(exch)}

\* run_continuous_reconciliation(): the portfolio is read ...
ReconcileRead(s) ==
  /\ PoolIsFree(s)
  /\ recon' = [recon EXCEPT ![s] = [local |-> Open(port)]]
  /\ UNCHANGED <<exch, port, ctl, pc, job, orders, sent, sync>>

\* ... the exchange does not answer, ...
ReconcileFails(s) ==
  /\ recon[s] # Nothing
  /\ recon' = [recon EXCEPT ![s] = Nothing]
  /\ UNCHANGED <<exch, port, ctl, pc, job, orders, sent, sync>>

\* ... or it is compared with get_open_positions(): a leg the exchange does not have is
\* closed in the portfolio, under this pipeline's own symbol whichever it was.
ReconcileApply(s) ==
  /\ recon[s] # Nothing
  /\ LET gone == OnlyLocal(recon[s].local) IN
       /\ port' = [port EXCEPT ![s] = [l \in Legs |-> IF l \in gone THEN 0 ELSE @[l]]]
       /\ ctl' = [ctl EXCEPT ![s] = IF gone = {} THEN @
                                    ELSE ResetTrailing(IF @.hedge THEN ResetHedge(@) ELSE @)]
  /\ recon' = [recon EXCEPT ![s] = Nothing]
  /\ UNCHANGED <<exch, pc, job, orders, sent, sync>>
--------------------------------------------------------------------------------
Tick(s) ==
  \/ TickStart(s) \/ StagnantExit(s) \/ HedgeCheck(s)
  \/ StopPasses(s) \/ StopCleansUp(s) \/ StopCloses(s)
  \/ NoSignal(s) \/ ExitDecided(s) \/ EntryDecided(s) \/ DroppedBeforeSend(s) \/ Send(s)

Next ==
  \/ \E s \in Symbols :
       \/ Tick(s)
       \/ SyncFetch(s) \/ SyncFails(s) \/ SyncApply(s)
       \/ ReconcileRead(s) \/ ReconcileFails(s) \/ ReconcileApply(s)
       \/ \E l \in Legs : PlanTriggers(s, l)
  \/ \E o \in orders : Fill(o) \/ Drop(o) \/ Book(o)

\* Ticks keep coming, working orders end and fills are booked.  Both jobs are due
\* again and again and the queue of the pool is first in first out, so that the
\* worker gets to each of them; of those that are started some succeed.
Fairness ==
  /\ \A s \in Symbols :
       /\ WF_vars(Tick(s))
       /\ SF_vars(SyncFetch(s)) /\ SF_vars(SyncApply(s))
       /\ SF_vars(ReconcileRead(s)) /\ SF_vars(ReconcileApply(s))
  /\ WF_vars(\E o \in orders : Fill(o) \/ Drop(o))
  /\ WF_vars(\E o \in orders : Book(o))

Spec == Init /\ [][Next]_vars
FairSpec == Spec /\ Fairness
--------------------------------------------------------------------------------
Positions == [Symbols -> [Legs -> Nat]]
Job == [trade : {"Open", "Close"}, leg : Legs, qty : Nat \ {0}]

(* The fields keep their ranges.  That the hedge budget holds needs that a hedge *)
(* is only sent below it (hedge_pair_manager.cpp: can_hedge), because the count *)
(* grows when the portfolio shows the leg and not when the order is sent.       *)
TypeOK ==
  /\ exch \in Positions /\ port \in Positions
  /\ ctl \in [Symbols -> Control]
  /\ pc \in [Symbols -> {"idle", "hedge", "stop", "signal", "send"}]
  /\ job \in [Symbols -> Job \cup {Nothing}]
  /\ \A s \in Symbols : pc[s] = "send" => job[s] \in Job
  /\ orders \subseteq Order /\ sent \in Nat
  /\ sync \in [Symbols -> [Legs -> Nat] \cup {Nothing}]
  /\ recon \in [Symbols -> [local : SUBSET (Symbols \X Legs)] \cup {Nothing}]

(* The shared portfolio and the exchange agree again and again, whatever fills, *)
(* plan triggers, stale syncs and clean-ups came in between: the two periodic   *)
(* jobs repair together what neither repairs alone.                             *)
PortfolioAgrees == []<>(port = exch)

(* A position with one leg is in the end the one the pipeline tracks            *)
(* (current_position_side_), so that the stop-loss is about it: also after the  *)
(* other leg, the one that was tracked, has been closed by its plan.            *)
TrackedLegRecovers ==
  []<>(\A s \in Symbols, l \in Legs : Lone(exch, s, l) => ctl[s].side = l)

(* check_position_stop_loss() does nothing while close_order_pending_ is set    *)
(* and is not reached while hedge_active_ is set.  A close that was never sent  *)
(* or was dropped, and a hedge order that never filled, leave these set: the    *)
(* stop-loss of an open position resumes nevertheless.                          *)
StopBlocked(s) == ctl[s].pending \/ (ctl[s].hedge /\ \E l \in Legs : port[s][l] = 0)
StopLossResumes ==
  \A s \in Symbols : HasPosition(exch, s) ~> (~StopBlocked(s) \/ ~HasPosition(exch, s))

================================================================================
