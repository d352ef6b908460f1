--------------------------- MODULE OrderRegistry ----------------------------
(***************************************************************************)
(* OrderRegistry: the order records, their state machines and the          *)
(* idempotency sets.  Every method runs under mutex_, so each operator     *)
(* below is one atomic step of the thread that calls it; a thread that     *)
(* makes two calls can be interleaved between them.                        *)
(*                                                                         *)
(* A record keeps what the callers decide on: its state, its filled        *)
(* quantity and whether exchange_order_id is known.  An order's exchange   *)
(* id is represented by its client id, so exchange_id_index_ is the set of *)
(* the orders that can be found by exchange id.                            *)
(***************************************************************************)
EXTENDS OrderFSM, Naturals

CONSTANTS Orders,      \* client order ids, in the order they can be issued
          Trades,      \* trade ids of the exchange
          IntentKeys   \* correlation id and symbol of a trade intent

OrderRecords == [state : States \cup {"none"}, filled : Nat, exch : BOOLEAN]

NoRecord == [state |-> "none", filled |-> 0, exch |-> FALSE]

Registry == [orders  : [Orders -> OrderRecords],         \* orders_
             fsm     : [Orders -> States \cup {"none"}], \* fsms_
             index   : SUBSET Orders,                    \* exchange_id_index_
             applied : SUBSET Orders,                    \* fill_applied_
             seen    : SUBSET Trades,                    \* seen_trade_ids_
             intents : SUBSET IntentKeys]                \* recent_intents_

NewRegistry ==
  [orders  |-> [o \in Orders |-> NoRecord],
   fsm     |-> [o \in Orders |-> "none"],
   index   |-> {}, applied |-> {}, seen |-> {}, intents |-> {}]

register_order(r, o) ==
  [r EXCEPT !.orders[o] = [NoRecord EXCEPT !.state = "New"], !.fsm[o] = "New"]

(* What transition() returns.                                              *)
CanTransition(r, o, s) == r.fsm[o] # "none" /\ is_valid_transition(r.fsm[o], s)

transition(r, o, s) ==
  IF CanTransition(r, o, s)
  THEN [r EXCEPT !.fsm[o] = s, !.orders[o].state = s]
  ELSE r

force_transition(r, o, s) ==
  IF r.fsm[o] = "none" THEN r
  ELSE [r EXCEPT !.fsm[o] = s, !.orders[o].state = s,
                 !.applied = @ \ {o}]

(* The caller's copy replaces the stored record whatever was stored in the *)
(* meantime; the state machine is not touched.                             *)
update_order(r, o, rec) ==
  IF r.orders[o].state = "none" THEN r
  ELSE [r EXCEPT !.orders[o] = rec,
                 !.index = IF rec.exch THEN @ \cup {o} ELSE @]

mark_fill_applied(r, o) == [r EXCEPT !.applied = @ \cup {o}]

(* Mutant: the id is checked but not inserted.                             *)
check_and_mark_trade_id_seen_NoInsert(r, t) == r

(* kMaxSeenTradeIds = 200000 exceeds the trades of any bounded run, so no  *)
(* id is evicted.                                                          *)
check_and_mark_trade_id_seen(r, t) == [r EXCEPT !.seen = @ \cup {t}]

record_intent(r, key) == [r EXCEPT !.intents = @ \cup {key}]

(* An entry older than dedup_window_ms is dropped.                         *)
cleanup_old_intents(r, key) == [r EXCEPT !.intents = @ \ {key}]

ActiveOrders(r) == {o \in Orders : is_active(r.orders[o].state)}

cleanup_terminal_orders(r, o) ==
  [r EXCEPT !.orders[o] = NoRecord, !.fsm[o] = "none",
            !.index = IF r.orders[o].exch THEN @ \ {o} ELSE @,
            !.applied = @ \ {o}]
=============================================================================
