--------------------------- MODULE ExchangeFeeds ----------------------------
(***************************************************************************)
(* The two WebSocket feeds of a pipeline. TradingPipeline::start starts    *)
(* both; they have their own threads and share no state, so a behaviour of *)
(* this specification runs one of them and leaves the other stopped.       *)
(***************************************************************************)
EXTENDS MarketFeed, PrivateFeed

Init ==
  \/ /\ FeedInit
     /\ stream = "none" /\ auth = FALSE /\ timer = FALSE /\ aborted = FALSE
     /\ psubs = {} /\ pserved = {}
     /\ pcaller = [todo |-> <<>>, step |-> "push"]
     /\ pleft = [breaks |-> 0, timeouts |-> 0]
  \/ /\ PrivateInit
     /\ \E k \in Markets : market = [tape |-> k.tape, push |-> k.push, at |-> Len(k.tape)]
     /\ link = "ok" /\ srv = {} /\ wire = <<>> /\ phase = "off"
     /\ subs = {} /\ posted = {} /\ pend = [c \in Channels |-> "none"]
     /\ caller = [todo |-> <<>>, step |-> "push"]
     /\ beat = 0 /\ age = 0 /\ book = NewBook
     /\ seen = [since |-> 0, newest |-> 0, beats |-> 0]
     /\ left = [breaks |-> 0, ignored |-> 0]

Next ==
  \/ FeedNext /\ UNCHANGED privateVars
  \/ PrivateNext /\ UNCHANGED feedVars

Spec ==
  /\ Init
  /\ [][Next]_<<feedVars, privateVars>>
  /\ FeedFairness
  /\ PrivateFairness

-----------------------------------------------------------------------------
TimedOut == pleft.timeouts < MaxAuthTimeouts

(* Whatever breaks, and whatever the order of subscribe() and the login on  *)
(* the two threads, in the end the private client is authenticated for good *)
(* and the exchange serves both channels. The promise ends with the first   *)
(* authentication that times out: from then on on_read takes the aborted    *)
(* read of the stream that connect() replaced for an error of the new one,  *)
(* and the client reconnects for ever.                                      *)
PrivateFeedSettles ==
  <>[](\/ stream = "none" \/ TimedOut
       \/ auth /\ ~timer /\ stream = "open" /\ Range(PrivateChannels) \subseteq pserved)
=============================================================================
