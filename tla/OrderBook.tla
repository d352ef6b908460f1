----------------------------- MODULE OrderBook ------------------------------
(***************************************************************************)
(* The local copy of one order book (order_book/LocalOrderBook) and the    *)
(* validation a book message passes before it reaches the copy             *)
(* (normalizer/BitgetNormalizer::parse_order_book).                        *)
(*                                                                         *)
(* A side is a function from the prices that have a level to their sizes;  *)
(* the levels of a delta are the same with size 0 for a level that is      *)
(* taken away. Prices and sizes are small naturals: only their order and   *)
(* whether they are 0 matter. Every operation runs under mutex_, so each   *)
(* is one step.                                                            *)
(***************************************************************************)
EXTENDS Naturals, FiniteSets, FiniteSetsExt, Functions

EmptySide == [p \in {} |-> 0]

NewBook == [bids |-> EmptySide, asks |-> EmptySide, seq |-> 0, quality |-> "Uninitialized"]

(* bids_.begin() and asks_.begin(): bids are kept from the highest price,  *)
(* asks from the lowest                                                    *)
BestBid(bids) == Max(DOMAIN bids)
BestAsk(asks) == Min(DOMAIN asks)

Crossed(bids, asks) ==
  DOMAIN bids # {} /\ DOMAIN asks # {} /\ BestBid(bids) >= BestAsk(asks)

(* one side after the levels of a message: size 0 erases, a positive one   *)
(* inserts or assigns                                                      *)
ApplyLevels(side, levels) ==
  LET kept == {p \in DOMAIN side : p \notin DOMAIN levels}
      put == {p \in DOMAIN levels : levels[p] > 0}
  IN  [p \in kept \cup put |-> IF p \in put THEN levels[p] ELSE side[p]]

(* request_resync forgets the levels; the next snapshot brings them back   *)
RequestResync(b) == NewBook

(* apply_snapshot replaces the copy whatever its state                     *)
ApplySnapshot(b, m) ==
  LET bids == ApplyLevels(EmptySide, m.bids)
      asks == ApplyLevels(EmptySide, m.asks)
  IN  [bids |-> bids, asks |-> asks, seq |-> m.seq,
       quality |-> IF Crossed(bids, asks) THEN "Desynced" ELSE "Valid"]

(* apply_delta: what the gateway has after it. A delta that finds no valid *)
(* copy, or is not the next of the sequence, or crosses the copy, returns  *)
(* false, and the gateway answers with request_resync in the same handler. *)
Continues_Loose(b, m) == m.seq > b.seq

Continues(b, m) == m.seq = b.seq + 1

ApplyDelta(b, m) ==
  LET bids == ApplyLevels(b.bids, m.bids)
      asks == ApplyLevels(b.asks, m.asks)
  IN  IF b.quality = "Valid" /\ Continues(b, m) /\ ~Crossed(bids, asks)
      THEN [bids |-> bids, asks |-> asks, seq |-> m.seq, quality |-> "Valid"]
      ELSE RequestResync(b)

(* MarketDataGateway::on_normalized_event, for a book                      *)
OnBook(b, m) == IF m.action = "snapshot" THEN ApplySnapshot(b, m) ELSE ApplyDelta(b, m)

(* parse_order_book rejects a message with an unknown action, one with an  *)
(* empty side, a delta included, and one whose first bid is not below its  *)
(* first ask.                                                              *)
Accepted(m) ==
  /\ m.action \in {"snapshot", "update"}
  /\ DOMAIN m.bids # {} /\ DOMAIN m.asks # {}
  /\ ~Crossed(m.bids, m.asks)

(* top_of_book and depth_summary do not look at the quality: they answer   *)
(* whenever both sides have a level                                        *)
HasDepth(b) == DOMAIN b.bids # {} /\ DOMAIN b.asks # {}
=============================================================================
