------------------------- MODULE ProtectiveBrackets -------------------------
(***************************************************************************)
(* ProtectiveBracketManager of one TradingPipeline: the take-profit and    *)
(* stop-loss plan orders that protect a position at the exchange.          *)
(*                                                                         *)
(*   tick   opens and closes positions, verifies the brackets and gives up *)
(*          a stagnant position, one operation after the other             *)
(*   pool   the worker of the RestWorkerPool: orphan clean-up, balance     *)
(*          sync and position reconciliation                               *)
(*                                                                         *)
(* The manager holds its mutex between REST calls only, so a step is one   *)
(* critical section or one REST call.  Grace period, retry interval and    *)
(* throttle only delay verify_brackets: it may run at any time here.       *)
(***************************************************************************)
EXTENDS Integers, FiniteSets

CONSTANTS Legs,        \* position sides that are traded
          MaxOpens,    \* bound: positions opened
          MaxVerify,   \* max_verify_attempts
          MaxErrors,   \* bound: REST calls that fail
          Narrow       \* take-profit and stop are within kPriceMatchPctTol and
                       \* the exchange lists them as pos_profit and pos_loss

ASSUME BracketsAssumption ==
  /\ Legs # {}
  /\ MaxOpens \in Nat /\ MaxVerify \in Nat \ {0} /\ MaxErrors \in Nat
  /\ Narrow \in BOOLEAN

Kinds == {"tp", "sl"}

(* A plan order: the exchange attached it to entry n (preset), the manager *)
(* placed it (standalone), or it was placed and the answer lost.  id tells *)
(* those apart that were placed for the same entry and kind.               *)
Plan == [leg: Legs, kind: Kinds, tag: {"preset", "standalone", "lost"}, n: 0..MaxOpens,
         id: Nat]
NoPlan == [tag |-> "none"]
Preset(l, k, n) == [leg |-> l, kind |-> k, tag |-> "preset", n |-> n, id |-> 0]
NoIds == [k \in Kinds |-> NoPlan]

(* BracketState; "untracked": brackets_ has no entry for the leg.          *)
Bracket == [status: {"active", "released"}, n: 0..MaxOpens, attempts: 0..MaxVerify,
            verified: BOOLEAN, ids: [Kinds -> Plan \cup {NoPlan}]]
Untracked == [status |-> "untracked"]
NewBracket(n) == [status |-> "active", n |-> n, attempts |-> 0, verified |-> FALSE,
                  ids |-> NoIds]

VARIABLES
  brackets,  \* brackets_
  local,     \* legs with a position in the portfolio
  pos,       \* exchange: number of the entry a leg's position comes from, -1: none
  plans,     \* exchange: open plan orders
  unborn,    \* exchange: presets of entries that were not created yet
  opens,     \* entries so far
  placed,    \* plan orders placed by the manager so far
  errors,    \* REST failures so far
  thread     \* what the tick and the pool are doing

vars == <<brackets, local, pos, plans, unborn, opens, placed, errors, thread>>
exchange == <<pos, plans, unborn, opens, placed>>

Threads == {"tick", "pool"}
ThreadState ==
  [pc: {"idle", "register", "release", "lookup", "cancel", "erase", "released", "close",
        "list", "match", "place", "orphans", "spare", "sync", "compare", "phantoms"},
   op: {"none", "open", "close", "stagnant", "verify", "cleanup", "phantom"},
   leg: Legs, n: 0..MaxOpens, ids: SUBSET Plan, need: SUBSET Kinds, legs: SUBSET Legs]
Idle == [pc |-> "idle", op |-> "none", leg |-> CHOOSE l \in Legs : TRUE, n |-> 0,
         ids |-> {}, need |-> {}, legs |-> {}]

(* The pipeline starts, perhaps with a position of an earlier session and  *)
(* its presets.  The bracket recovery in the constructor runs before the   *)
(* recovery service has found any position, so no bracket is tracked.      *)
Init ==
  /\ \E held \in SUBSET Legs :
       /\ local = held
       /\ pos = [l \in Legs |-> IF l \in held THEN 0 ELSE -1]
       /\ plans = {Preset(l, k, 0) : l \in held, k \in Kinds}
  /\ brackets = [l \in Legs |-> Untracked]
  /\ unborn = {}
  /\ opens = 0
  /\ placed = 0
  /\ errors = 0
  /\ thread = [t \in Threads |-> Idle]

-----------------------------------------------------------------------------
At(t, pc) == thread[t].pc = pc
L(t) == thread[t].leg
Goto(t, pc) == thread' = [thread EXCEPT ![t].pc = pc]
Return(t) == thread' = [thread EXCEPT ![t] = Idle]
Active(l) == brackets[l].status = "active"
Tracked(l) == {brackets[l].ids[k] : k \in Kinds} \ {NoPlan}
RestFails == errors < MaxErrors /\ errors' = errors + 1

(* get_open_plan_orders: two requests; one that fails adds nothing to the  *)
(* list and is not reported.                                               *)
Listing(list) ==
  \/ list = plans /\ UNCHANGED errors
  \/ /\ RestFails
     /\ \E seen \in {{"preset"}, {"standalone", "lost"}, {}} :
          list = {p \in plans : p.tag \in seen}

(* cancel_plan_order: a plan order that is gone counts as cancelled.       *)
CancelNext(t) ==
  /\ At(t, "cancel")
  /\ \E p \in thread[t].ids :
       /\ \/ plans' = plans \ {p} /\ UNCHANGED errors
          \/ RestFails /\ UNCHANGED plans
       /\ thread' = [thread EXCEPT ![t].ids = @ \ {p}]
  /\ UNCHANGED <<brackets, local, pos, unborn, opens, placed>>

(* What follows the cancels: a release erases the bracket, the others are  *)
(* done.                                                                   *)
CancelsDone(t) ==
  /\ At(t, "cancel")
  /\ thread[t].ids = {}
  /\ IF thread[t].op \in {"open", "cleanup"} THEN Return(t) ELSE Goto(t, "erase")
  /\ UNCHANGED <<brackets, local, exchange, errors>>

-----------------------------------------------------------------------------
(* on_position_opened                                                      *)

(* execute: the entry is filled, its presets will come.                    *)
Open(l) ==
  /\ At("tick", "idle")
  /\ l \notin local
  /\ opens < MaxOpens
  /\ opens' = opens + 1
  /\ pos' = [pos EXCEPT ![l] = opens + 1]
  /\ local' = local \cup {l}
  /\ unborn' = unborn \cup {Preset(l, k, opens + 1) : k \in Kinds}
  /\ thread' = [thread EXCEPT !["tick"] =
                  [Idle EXCEPT !.pc = "register", !.op = "open", !.leg = l, !.n = opens + 1]]
  /\ UNCHANGED <<brackets, plans, placed, errors>>

(* The bracket is replaced; plan orders of one that was never released are *)
(* cancelled.                                                              *)
on_position_opened ==
  /\ At("tick", "register")
  /\ LET l == L("tick") IN
       /\ brackets' = [brackets EXCEPT ![l] = NewBracket(thread["tick"].n)]
       /\ thread' = [thread EXCEPT !["tick"].pc = "cancel",
                       !["tick"].ids = IF Active(l) THEN Tracked(l) ELSE {}]
  /\ UNCHANGED <<local, exchange, errors>>

-----------------------------------------------------------------------------
(* release                                                                 *)

(* The bracket is marked and its ids are taken over; with no id the plan   *)
(* orders are looked up.                                                   *)
Release(t) ==
  /\ At(t, "release")
  /\ LET l == L(t) IN
       IF ~Active(l)
       THEN /\ Goto(t, "released")
            /\ UNCHANGED brackets
       ELSE /\ brackets' = [brackets EXCEPT ![l].status = "released"]
            /\ thread' = [thread EXCEPT ![t].ids = Tracked(l),
                            ![t].pc = IF Tracked(l) = {} THEN "lookup" ELSE "cancel"]
  /\ UNCHANGED <<local, exchange, errors>>

(* Presets of the leg, whatever entry they belong to.                      *)
ReleaseLookup(t) ==
  /\ At(t, "lookup")
  /\ \E list \in SUBSET plans :
       /\ Listing(list)
       /\ thread' = [thread EXCEPT ![t].pc = "cancel",
                       ![t].ids = {p \in list : p.leg = L(t) /\ p.tag = "preset"}]
  /\ UNCHANGED <<brackets, local, exchange>>

ReleaseErase(t) ==
  /\ At(t, "erase")
  /\ brackets' = [brackets EXCEPT ![L(t)] = Untracked]
  /\ Goto(t, "released")
  /\ UNCHANGED <<local, exchange, errors>>

(* The caller goes on: a stagnant position is closed now, the pool looks   *)
(* at the next leg.                                                        *)
ReleaseReturns(t) ==
  /\ At(t, "released")
  /\ CASE thread[t].op = "stagnant" -> Goto(t, "close")
       [] thread[t].op = "phantom" -> Goto(t, "phantoms")
       [] OTHER -> Return(t)
  /\ UNCHANGED <<brackets, local, exchange, errors>>

-----------------------------------------------------------------------------
(* Closing a position                                                      *)

(* Presets are attached to the position and go with it.                    *)
PositionEnds(l) ==
  /\ pos' = [pos EXCEPT ![l] = -1]
  /\ plans' = {p \in plans : p.leg = l => p.tag # "preset"}
  /\ unborn' = {p \in unborn : p.leg # l}
  /\ UNCHANGED <<opens, placed>>

(* A strategy exit: the closing order is executed, then the bracket is     *)
(* released.                                                               *)
Close(l) ==
  /\ At("tick", "idle")
  /\ l \in local
  /\ PositionEnds(l)
  /\ local' = local \ {l}
  /\ thread' = [thread EXCEPT !["tick"] =
                  [Idle EXCEPT !.pc = "release", !.op = "close", !.leg = l]]
  /\ UNCHANGED <<brackets, errors>>

(* A stagnant position: the bracket is released first.                     *)
Stagnant(l) ==
  /\ At("tick", "idle")
  /\ l \in local
  /\ thread' = [thread EXCEPT !["tick"] =
                  [Idle EXCEPT !.pc = "release", !.op = "stagnant", !.leg = l]]
  /\ UNCHANGED <<brackets, local, exchange, errors>>

StagnantClose ==
  /\ At("tick", "close")
  /\ \/ PositionEnds(L("tick")) /\ local' = local \ {L("tick")} /\ UNCHANGED errors
     \/ RestFails /\ UNCHANGED <<exchange, local>>
  /\ Return("tick")
  /\ UNCHANGED brackets

-----------------------------------------------------------------------------
(* verify_brackets                                                         *)

(* Mutant: any preset of the leg is taken, whatever its trigger price.     *)
Candidates_AnyPrice(l, k, list) ==
  {p \in list : p.leg = l /\ p.tag = "preset"}

(* Which plan order of the list is taken for which kind: the first whose   *)
(* type and trigger price fit.                                             *)
Candidates(l, k, list) ==
  {p \in list : p.leg = l /\ p.tag = "preset" /\ (p.kind = k \/ Narrow)}

Found(l, list, found) ==
  /\ \A k \in Kinds :
       IF Candidates(l, k, list) = {} THEN found[k] = NoPlan
                                      ELSE found[k] \in Candidates(l, k, list)
  /\ Narrow => found["tp"] = found["sl"]

Verify(l) ==
  /\ At("tick", "idle")
  /\ Active(l) /\ ~brackets[l].verified
  /\ thread' = [thread EXCEPT !["tick"] =
                  [Idle EXCEPT !.pc = "list", !.op = "verify", !.leg = l, !.n = brackets[l].n]]
  /\ UNCHANGED <<brackets, local, exchange, errors>>

VerifyList ==
  /\ At("tick", "list")
  /\ \E list \in SUBSET plans :
       /\ Listing(list)
       /\ thread' = [thread EXCEPT !["tick"].pc = "match", !["tick"].ids = list]
  /\ UNCHANGED <<brackets, local, exchange>>

Missing(b) == {k \in Kinds : b.ids[k] = NoPlan}
Least(x, y) == IF x < y THEN x ELSE y

(* Mutant: the attempts are not counted.                                   *)
Matched_NoAttempts(b, found) ==
  [b EXCEPT !.ids = [k \in Kinds |-> IF b.ids[k] = NoPlan THEN found[k] ELSE b.ids[k]]]

(* An id that is tracked already is kept.  When the attempts are used up,  *)
(* what is missing is placed by the manager.                               *)
Matched(b, found) ==
  [b EXCEPT !.attempts = Least(b.attempts + 1, MaxVerify),
            !.ids = [k \in Kinds |-> IF b.ids[k] = NoPlan THEN found[k] ELSE b.ids[k]]]

VerifyMatch ==
  /\ At("tick", "match")
  /\ LET l == L("tick") IN
       IF ~Active(l)
       THEN Return("tick") /\ UNCHANGED brackets
       ELSE \E found \in [Kinds -> thread["tick"].ids \cup {NoPlan}] :
              LET b == Matched(brackets[l], found) IN
                /\ Found(l, thread["tick"].ids, found)
                /\ brackets' = [brackets EXCEPT ![l] = [b EXCEPT !.verified = Missing(b) = {}]]
                /\ thread' = [thread EXCEPT !["tick"] =
                     IF Missing(b) = {} \/ b.attempts < MaxVerify THEN Idle
                     ELSE [@ EXCEPT !.pc = "place", !.ids = {}, !.need = Missing(b)]]
  /\ UNCHANGED <<local, exchange, errors>>

(* Mutant: the id of the fallback is not stored.                           *)
Stored_Forgets(l, k, p) == brackets

Stored(l, k, p) ==
  IF brackets[l] = Untracked THEN brackets ELSE [brackets EXCEPT ![l].ids[k] = p]

(* place_standalone_plan, the stop first.  The id is stored in whatever    *)
(* bracket the leg has by then.                                            *)
PlaceFallback ==
  /\ At("tick", "place")
  /\ \E k \in thread["tick"].need :
       LET p == [leg |-> L("tick"), kind |-> k, tag |-> "standalone", n |-> thread["tick"].n,
                 id |-> placed + 1] IN
         /\ "sl" \in thread["tick"].need => k = "sl"
         /\ \/ /\ plans' = plans \cup {p}
               /\ placed' = placed + 1
               /\ brackets' = Stored(L("tick"), k, p)
               /\ UNCHANGED errors
            \/ /\ RestFails
               /\ \/ UNCHANGED <<plans, placed>>
                  \/ plans' = plans \cup {[p EXCEPT !.tag = "lost"]} /\ placed' = placed + 1
               /\ UNCHANGED brackets
         /\ thread' = [thread EXCEPT !["tick"].need = @ \ {k}]
  /\ UNCHANGED <<local, pos, unborn, opens>>

VerifyEnd ==
  /\ At("tick", "place")
  /\ thread["tick"].need = {}
  /\ LET l == L("tick") IN
       brackets' = IF brackets[l] = Untracked THEN brackets
                   ELSE [brackets EXCEPT ![l].verified = Missing(brackets[l]) = {}]
  /\ Return("tick")
  /\ UNCHANGED <<local, exchange, errors>>

-----------------------------------------------------------------------------
(* The jobs of the pool                                                    *)

(* cleanup_orphans_for_symbol: has_open_position first, then the list, the *)
(* tracked ids last.                                                       *)
CleanupBegin ==
  /\ At("pool", "idle")
  /\ thread' = [thread EXCEPT !["pool"] =
                  [Idle EXCEPT !.pc = "orphans", !.op = "cleanup", !.legs = local]]
  /\ UNCHANGED <<brackets, local, exchange, errors>>

CleanupList ==
  /\ At("pool", "orphans")
  /\ \E list \in SUBSET plans :
       /\ Listing(list)
       /\ thread' = [thread EXCEPT !["pool"].pc = "spare", !["pool"].ids = list]
  /\ UNCHANGED <<brackets, local, exchange>>

(* Mutant: a position whose bracket is not tracked stops every clean-up.   *)
CleanupSpare_OpenOnly ==
  /\ At("pool", "spare")
  /\ LET active == {l \in Legs : Active(l)} IN
       IF active = {}
       THEN Return("pool")
       ELSE thread' = [thread EXCEPT !["pool"].pc = "cancel",
                         !["pool"].ids = @ \ UNION {Tracked(l) : l \in active}]
  /\ UNCHANGED <<brackets, local, exchange, errors>>

CleanupSpare ==
  /\ At("pool", "spare")
  /\ LET active == {l \in Legs : Active(l)} IN
       IF thread["pool"].legs # {} /\ active = {}
       THEN Return("pool")
       ELSE thread' = [thread EXCEPT !["pool"].pc = "cancel",
                         !["pool"].ids = @ \ UNION {Tracked(l) : l \in active}]
  /\ UNCHANGED <<brackets, local, exchange, errors>>

Open_(f) == {l \in Legs : f[l] # -1}

(* sync_balance_from_exchange: the positions are fetched...                *)
SyncRead ==
  /\ At("pool", "idle")
  /\ thread' = [thread EXCEPT !["pool"] =
                  [Idle EXCEPT !.pc = "sync", !.op = "phantom", !.legs = Open_(pos)]]
  /\ UNCHANGED <<brackets, local, exchange, errors>>

(* ... and adopted; when there are none, every local leg is a phantom.     *)
SyncApply ==
  /\ At("pool", "sync")
  /\ IF thread["pool"].legs # {}
     THEN local' = local \cup thread["pool"].legs /\ Return("pool")
     ELSE /\ thread' = [thread EXCEPT !["pool"].pc = "phantoms", !["pool"].legs = local]
          /\ UNCHANGED local
  /\ UNCHANGED <<brackets, exchange, errors>>

(* run_continuous_reconciliation: the local positions are copied before    *)
(* the exchange is asked; those it does not have exist only locally.       *)
ReconcileRead ==
  /\ At("pool", "idle")
  /\ thread' = [thread EXCEPT !["pool"] =
                  [Idle EXCEPT !.pc = "compare", !.op = "phantom", !.legs = local]]
  /\ UNCHANGED <<brackets, local, exchange, errors>>

ReconcileCompare ==
  /\ At("pool", "compare")
  /\ thread' = [thread EXCEPT !["pool"].pc = "phantoms", !["pool"].legs = @ \ Open_(pos)]
  /\ UNCHANGED <<brackets, local, exchange, errors>>

(* A phantom is closed in the portfolio and its bracket released.          *)
Phantom ==
  /\ At("pool", "phantoms")
  /\ \E l \in thread["pool"].legs :
       /\ local' = local \ {l}
       /\ thread' = [thread EXCEPT !["pool"].pc = "release", !["pool"].leg = l,
                                   !["pool"].legs = @ \ {l}]
  /\ UNCHANGED <<brackets, exchange, errors>>

PhantomsDone ==
  /\ At("pool", "phantoms")
  /\ thread["pool"].legs = {}
  /\ Return("pool")
  /\ UNCHANGED <<brackets, local, exchange, errors>>

-----------------------------------------------------------------------------
(* The exchange                                                            *)

(* A preset appears, or never does.                                        *)
PresetAppears ==
  \E p \in unborn :
    /\ unborn' = unborn \ {p}
    /\ plans' \in {plans, plans \cup {p}}
    /\ UNCHANGED <<brackets, local, pos, opens, placed, errors, thread>>

(* A take-profit or a stop triggers and closes the position; a plan order  *)
(* without a position goes too.                                            *)
Trigger ==
  \E p \in plans :
    /\ pos' = [pos EXCEPT ![p.leg] = -1]
    /\ plans' = {q \in plans \ {p} : q.leg = p.leg => q.tag # "preset"}
    /\ unborn' = {q \in unborn : q.leg # p.leg}
    /\ UNCHANGED <<brackets, local, opens, placed, errors, thread>>

-----------------------------------------------------------------------------
TickStep ==
  \/ CancelNext("tick") \/ CancelsDone("tick") \/ on_position_opened
  \/ Release("tick") \/ ReleaseLookup("tick") \/ ReleaseErase("tick")
  \/ ReleaseReturns("tick") \/ StagnantClose
  \/ VerifyList \/ VerifyMatch \/ PlaceFallback \/ VerifyEnd

PoolStep ==
  \/ CancelNext("pool") \/ CancelsDone("pool")
  \/ Release("pool") \/ ReleaseLookup("pool") \/ ReleaseErase("pool")
  \/ ReleaseReturns("pool")
  \/ CleanupList \/ CleanupSpare \/ SyncApply \/ ReconcileCompare \/ Phantom \/ PhantomsDone

Next ==
  \/ \E l \in Legs : Open(l) \/ Close(l) \/ Stagnant(l) \/ Verify(l)
  \/ TickStep
  \/ CleanupBegin \/ SyncRead \/ ReconcileRead
  \/ PoolStep
  \/ PresetAppears \/ Trigger

Spec == Init /\ [][Next]_vars

(* Threads run, and the periodic tasks come round again and again.         *)
FairSpec ==
  /\ Spec
  /\ WF_vars(TickStep) /\ WF_vars(PoolStep)
  /\ \A l \in Legs : SF_vars(Verify(l))
  /\ SF_vars(CleanupBegin) /\ SF_vars(SyncRead) /\ SF_vars(ReconcileRead)

-----------------------------------------------------------------------------
(* Types; attempts never pass max_verify_attempts and every bracket is of  *)
(* an entry that was made.                                                 *)
TypeOK ==
  /\ brackets \in [Legs -> Bracket \cup {Untracked}]
  /\ local \subseteq Legs
  /\ pos \in [Legs -> -1..MaxOpens]
  /\ plans \subseteq Plan /\ unborn \subseteq Plan
  /\ opens \in 0..MaxOpens /\ placed \in Nat /\ errors \in 0..MaxErrors
  /\ thread \in [Threads -> ThreadState]

(* A tracked id is a plan order of that leg and kind, so that a release    *)
(* never cancels the protection of the other leg.                          *)
TrackedIsOwn ==
  \A l \in Legs : brackets[l] # Untracked =>
    \A k \in Kinds : brackets[l].ids[k] # NoPlan =>
      brackets[l].ids[k].leg = l /\ brackets[l].ids[k].kind = k

Fallbacks(l, k, n) == {q \in plans : q.leg = l /\ q.kind = k /\ q.n = n /\ q.tag # "preset"}

(* A fallback may be placed twice for one position: where the answer of    *)
(* submit_plan_order is lost (protective_bracket_manager.cpp:667), the     *)
(* manager takes the order for failed and the next verification places     *)
(* another.  That is the only way: of two live fallbacks of one entry and  *)
(* kind, one is always an order whose answer was lost, also when verify    *)
(* races releases, clean-ups and failing requests, so that the live stops  *)
(* of a position are at most one more than the answers that were lost.     *)
FallbackRepeatsLostOnly ==
  \A l \in Legs, k \in Kinds, n \in 0..MaxOpens :
    \A p, q \in Fallbacks(l, k, n) : p = q \/ "lost" \in {p.tag, q.tag}

(* A plan order that outlives its position and that no active bracket      *)
(* tracks (its answer was lost, or its cancel failed) is removed, unless   *)
(* its leg is opened again.  A tracked one may stay for good: see          *)
(* trading_pipeline.cpp:1165, where a position that was opened during the  *)
(* sync is taken for a phantom before its bracket is registered.           *)
Orphan(l) ==
  /\ pos[l] = -1
  /\ \E p \in plans : p.leg = l /\ ~ \E m \in Legs : Active(m) /\ p \in Tracked(m)

OrphansRemoved == \A l \in Legs : Orphan(l) ~> ~Orphan(l)

(* A registered bracket does not stay unverified: its plan orders are      *)
(* found or placed, or it is released.                                     *)
BracketSettles ==
  \A l \in Legs : (Active(l) /\ ~brackets[l].verified) ~>
                    (~Active(l) \/ brackets[l].verified)

=============================================================================
