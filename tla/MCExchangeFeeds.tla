-------------------------- MODULE MCExchangeFeeds ---------------------------
(* The books of three tapes. On the first each change touches both sides,   *)
(* on the second one touches bids only, on the third the price falls        *)
(* through the old best bid: the normalizer discards both as deltas.        *)
EXTENDS ExchangeFeeds, TLC

B(bids, asks) == [bids |-> bids, asks |-> asks]

Both ==
    << B(2 :> 1, 4 :> 1),
       B(2 :> 2 @@ 1 :> 1, 4 :> 2 @@ 5 :> 1),
       B(1 :> 1, 5 :> 1) >>

BidsOnly ==
    << B(2 :> 1, 4 :> 1),
       B(2 :> 1 @@ 3 :> 1, 4 :> 1),
       B(3 :> 1, 4 :> 2) >>

Falls ==
    << B(3 :> 1, 4 :> 1),
       B(1 :> 1, 2 :> 1),
       B(1 :> 2, 2 :> 2) >>

MCMarkets ==
  { [tape |-> Both, push |-> "deltas"], [tape |-> BidsOnly, push |-> "deltas"],
    [tape |-> Falls, push |-> "deltas"], [tape |-> Falls, push |-> "snapshots"] }

MCChannelList == <<"ticker", "books15">>

MCPrivateChannels == <<"orders", "fill">>
=============================================================================
