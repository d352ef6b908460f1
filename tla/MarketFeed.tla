----------------------------- MODULE MarketFeed -----------------------------
(***************************************************************************)
(* The public feed of one pipeline: the WebSocket client                   *)
(* (exchange/bitget/BitgetWsClient), the gateway that subscribes to the    *)
(* channels and feeds the order book (market_data/MarketDataGateway), and, *)
(* outside the program, the connection and the exchange at its far end.    *)
(*                                                                         *)
(* Two threads: the one that starts the gateway and walks through the list *)
(* of channels, and the io_context thread, on which every handler of the   *)
(* client runs. Time is counted in halves of the heartbeat interval.       *)
(*                                                                         *)
(* What the client writes reaches the far end at once or, on a link that   *)
(* died, never: nothing depends on how long it travels. What the exchange  *)
(* writes waits in `wire` until it is read.                                *)
(***************************************************************************)
EXTENDS OrderBook, Sequences, SequencesExt

CONSTANTS
  Markets,       \* a history of the exchange's book, and whether it is sent as
                 \* snapshots or as deltas; one is chosen
  ChannelList,   \* the channels of subscribe_to_channels, in their order
  BookChannel,   \* the one of them that carries the book
  MaxBreaks,     \* bound: links that break, silently or not
  MaxIgnored,    \* bound: subscription requests the exchange does not answer
  MaxWire        \* bound: messages on their way to the client

Channels == Range(ChannelList)

ASSUME FeedAssumption ==
  /\ ChannelList \in Seq(Channels)
  /\ BookChannel \in Channels
  /\ {MaxBreaks, MaxIgnored, MaxWire} \subseteq Nat

(* A book of the exchange lists the levels that have a size. *)
ASSUME TapeAssumption ==
  \A k \in Markets :
    /\ k.tape \in Seq(Range(k.tape)) /\ Len(k.tape) > 0
    /\ k.push \in {"snapshots", "deltas"}
    /\ \A b \in Range(k.tape) :
         /\ b = [bids |-> b.bids, asks |-> b.asks]
         /\ \A side \in {b.bids, b.asks} : side \in [DOMAIN side -> Nat \ {0}]

VARIABLES
  market,   \* exchange: the tape, its place on it, snapshots only or deltas
  link,     \* the connection: "ok", "dead" without a word, "reset"
  srv,      \* the channels the exchange serves on this connection
  wire,     \* messages on their way to the client, oldest first
  phase,    \* the client: off, timer, connecting, handshaken, up
  subs,     \* subscriptions
  pend,     \* pending_sub_ms_: how long ago an unconfirmed request was sent
  posted,   \* do_subscribe_direct calls posted to the io_context
  caller,   \* the thread in subscribe_to_channels
  beat,     \* halves since the heartbeat timer was set
  age,      \* halves since last_pong_ms_
  book,     \* LocalOrderBook
  seen,     \* history: place on the tape when the connection began; newest
            \* book shown; heartbeats since the link died
  left      \* breaks and ignored requests that may still happen

feedVars == <<market, link, srv, wire, phase, subs, pend, posted, caller, beat,
              age, book, seen, left>>

Connected == phase \in {"handshaken", "up"}

Running == phase # "off"

(* start(): the client is running and has begun to connect, the caller goes *)
(* on to subscribe_to_channels.                                             *)
FeedInit ==
  /\ \E k \in Markets : market = [tape |-> k.tape, push |-> k.push, at |-> 1]
  /\ link = "ok"
  /\ srv = {}
  /\ wire = <<>>
  /\ phase = "connecting"
  /\ subs = {}
  /\ pend = [c \in Channels |-> "none"]
  /\ posted = {}
  /\ caller = [todo |-> ChannelList, step |-> "push"]
  /\ beat = 0
  /\ age = 0
  /\ book = NewBook
  /\ seen = [since |-> 0, newest |-> 0, beats |-> 0]
  /\ left = [breaks |-> MaxBreaks, ignored |-> MaxIgnored]

-----------------------------------------------------------------------------
(* The exchange.                                                            *)

Current == market.tape[market.at]

SnapshotMessage(at) ==
  [kind |-> "book", action |-> "snapshot", seq |-> at,
   bids |-> market.tape[at].bids, asks |-> market.tape[at].asks]

(* the levels of a side that differ between two books, with 0 for the gone  *)
Changed(old, new) ==
  LET size(side, p) == IF p \in DOMAIN side THEN side[p] ELSE 0
  IN  [p \in {q \in DOMAIN old \cup DOMAIN new : size(old, q) # size(new, q)} |-> size(new, p)]

DeltaMessage ==
  LET next == market.tape[market.at + 1]
  IN  [kind |-> "book", action |-> "update", seq |-> market.at + 1,
       bids |-> Changed(Current.bids, next.bids), asks |-> Changed(Current.asks, next.asks)]

(* what the exchange answers to requests for the channels cs: it confirms   *)
(* each, and sends the book it has at once                                  *)
Answers(cs) ==
  [i \in 1..Cardinality(cs) |-> [kind |-> "ack", channel |-> SetToSeq(cs)[i]]]
    \o IF BookChannel \in cs THEN <<SnapshotMessage(market.at)>> ELSE <<>>

(* requests for the channels cs, of which the exchange leaves `ignored`     *)
(* unanswered, and then a ping                                              *)
Send(cs, ignored, ping) ==
  /\ ignored \subseteq cs
  /\ Cardinality(ignored) <= left.ignored
  /\ link = "ok" \/ ignored = {}
  /\ IF link = "ok"
     THEN /\ srv' = srv \cup (cs \ ignored)
          /\ wire' = wire \o Answers(cs \ ignored)
                          \o (IF ping THEN <<[kind |-> "pong"]>> ELSE <<>>)
     ELSE UNCHANGED <<srv, wire>>
  /\ left' = [left EXCEPT !.ignored = @ - Cardinality(ignored)]
  /\ pend' = [c \in Channels |-> IF c \in cs THEN "fresh" ELSE pend[c]]

Trade ==
  /\ market.at < Len(market.tape)
  /\ Len(wire) < MaxWire
  /\ market' = [market EXCEPT !.at = @ + 1]
  /\ wire' = IF BookChannel \in srv /\ link = "ok"
             THEN Append(wire, IF market.push = "deltas" THEN DeltaMessage
                               ELSE SnapshotMessage(market.at + 1))
             ELSE wire
  /\ UNCHANGED <<link, srv, phase, subs, pend, posted, caller, beat, age, book, seen, left>>

(* The link dies without a word, or is closed. *)
Break(how) ==
  /\ phase = "up"
  /\ link = "ok"
  /\ left.breaks > 0
  /\ link' = how
  /\ left' = [left EXCEPT !.breaks = @ - 1]
  /\ UNCHANGED <<market, srv, wire, phase, subs, pend, posted, caller, beat, age, book, seen>>

-----------------------------------------------------------------------------
(* The client: connecting.                                                  *)

(* resolve, connect and the two handshakes, when one fails: the reconnect   *)
(* timer is set                                                             *)
AttemptFails ==
  /\ phase = "connecting"
  /\ phase' = "timer"
  /\ UNCHANGED <<market, link, srv, wire, subs, pend, posted, caller, beat, age, book, seen, left>>

(* on_ws_handshake up to the lock: connected_ is set before the             *)
(* subscriptions are read.                                                  *)
OnWsHandshake ==
  /\ phase = "connecting"
  /\ phase' = "handshaken"
  /\ age' = 0
  /\ seen' = [seen EXCEPT !.since = market.at]
  /\ UNCHANGED <<market, link, srv, wire, subs, pend, posted, caller, beat, book, left>>

(* ... and from the lock on: every subscription is sent, the heartbeat      *)
(* timer is set and the first read begins.                                  *)
SendSubscriptions(ignored) ==
  /\ phase = "handshaken"
  /\ Send(subs, ignored, FALSE)
  /\ phase' = "up"
  /\ beat' = 0
  /\ UNCHANGED <<market, link, subs, posted, caller, age, book, seen>>

(* schedule_reconnect's timer: connect() makes a new stream *)
Reconnect ==
  /\ phase = "timer"
  /\ phase' = "connecting"
  /\ link' = "ok"
  /\ UNCHANGED <<market, srv, wire, subs, pend, posted, caller, beat, age, book, seen, left>>

(* handle_disconnect: the stream goes with whatever was on its way, the     *)
(* gateway withdraws the book (on_connection_changed), the reconnect timer  *)
(* is set.                                                                  *)
AfterDisconnect_KeepsBook(b) == b

AfterDisconnect(b) == RequestResync(b)

HandleDisconnect ==
  /\ phase' = "timer"
  /\ srv' = {}
  /\ wire' = <<>>
  /\ book' = AfterDisconnect(book)
  /\ seen' = [seen EXCEPT !.beats = 0]

(* a read or a write that ends with an error *)
LinkError ==
  /\ phase = "up"
  /\ link = "reset"
  /\ HandleDisconnect
  /\ UNCHANGED <<market, link, subs, pend, posted, caller, beat, age, left>>

-----------------------------------------------------------------------------
(* The client: reading.                                                     *)

OnMessage(m) ==
  /\ phase = "up"
  /\ wire # <<>>
  /\ m = Head(wire)
  /\ wire' = Tail(wire)

OnPong ==
  /\ \E m \in Range(wire) : OnMessage(m) /\ m.kind = "pong"
  /\ age' = 0
  /\ UNCHANGED <<market, link, srv, phase, subs, pend, posted, caller, beat, book, seen, left>>

(* the confirmation of a subscription *)
OnSubscribed ==
  /\ \E m \in Range(wire) :
       /\ OnMessage(m)
       /\ m.kind = "ack"
       /\ pend' = [pend EXCEPT ![m.channel] = "none"]
  /\ UNCHANGED <<market, link, srv, phase, subs, posted, caller, beat, age, book, seen, left>>

(* a book: normalised, and applied by the gateway in the same handler *)
OnBookMessage ==
  /\ \E m \in Range(wire) :
       /\ OnMessage(m)
       /\ m.kind = "book"
       /\ book' = IF Accepted(m) THEN OnBook(book, m) ELSE book
  /\ seen' = [seen EXCEPT !.newest = IF book'.quality = "Valid" THEN Max({@, book'.seq}) ELSE @]
  /\ UNCHANGED <<market, link, srv, phase, subs, pend, posted, caller, beat, age, left>>

-----------------------------------------------------------------------------
(* The client: the heartbeat.                                               *)

(* Half an interval passes, 12.5 s: long enough for the caller's thread and *)
(* for what was posted to the io_context. An answer of the exchange arrives *)
(* and is read before the second half is over.                              *)
HalfPasses ==
  /\ phase = "up"
  /\ beat < 2
  /\ caller.todo = <<>> /\ posted = {}
  /\ beat = 1 => wire = <<>>
  /\ beat' = beat + 1
  /\ age' = age + 1
  /\ pend' = [c \in Channels |-> IF pend[c] = "fresh" THEN "old" ELSE pend[c]]
  /\ UNCHANGED <<market, link, srv, wire, phase, subs, posted, caller, book, seen, left>>

(* a pong is late when it is older than one and a half intervals *)
PongLate_Twice(a) == a > 6

PongLate(a) == a > 3

HeartbeatTimeout ==
  /\ phase = "up"
  /\ beat = 2
  /\ PongLate(age)
  /\ HandleDisconnect
  /\ UNCHANGED <<market, link, subs, pend, posted, caller, beat, age, left>>

(* requests that were not confirmed in 5 s are sent again, then a ping *)
Retried_None == {}

Retried == {c \in subs : pend[c] = "old"}

Heartbeat(ignored) ==
  /\ phase = "up"
  /\ beat = 2
  /\ ~PongLate(age)
  /\ Send(Retried, ignored, TRUE)
  /\ beat' = 0
  /\ seen' = [seen EXCEPT !.beats = IF link = "dead" THEN @ + 1 ELSE @]
  /\ UNCHANGED <<market, link, phase, subs, posted, caller, age, book>>

-----------------------------------------------------------------------------
(* subscribe(), called for one channel after the other: the list under the  *)
(* lock, and then the flag without it.                                      *)

SubscribePush ==
  /\ Running
  /\ caller.todo # <<>> /\ caller.step = "push"
  /\ subs' = subs \cup {Head(caller.todo)}
  /\ caller' = [caller EXCEPT !.step = "check"]
  /\ UNCHANGED <<market, link, srv, wire, phase, pend, posted, beat, age, book, seen, left>>

SubscribeCheck ==
  /\ Running
  /\ caller.step = "check"
  /\ posted' = IF Connected THEN posted \cup {Head(caller.todo)} ELSE posted
  /\ caller' = [todo |-> Tail(caller.todo), step |-> "push"]
  /\ UNCHANGED <<market, link, srv, wire, phase, subs, pend, beat, age, book, seen, left>>

(* do_subscribe_direct on the io thread: without a connection nothing is    *)
(* sent, though the request is noted as pending.                            *)
DoSubscribe(c, ignored) ==
  /\ c \in posted
  /\ phase \in {"up", "timer", "connecting"}
  /\ posted' = posted \ {c}
  /\ IF phase = "up"
     THEN Send({c}, ignored, FALSE)
     ELSE /\ ignored = {}
          /\ pend' = [pend EXCEPT ![c] = "fresh"]
          /\ UNCHANGED <<srv, wire, left>>
  /\ UNCHANGED <<market, link, phase, subs, caller, beat, age, book, seen>>

(* stop(), of a pipeline that was started: the io_context stops, its thread *)
(* is joined; the book is left as it is.                                    *)
StopFeed ==
  /\ phase \in {"timer", "connecting", "up"}
  /\ caller.todo = <<>>
  /\ phase' = "off"
  /\ srv' = {}
  /\ wire' = <<>>
  /\ posted' = {}
  /\ UNCHANGED <<market, link, subs, pend, caller, beat, age, book, seen, left>>

-----------------------------------------------------------------------------
FeedNext ==
  \/ Trade
  \/ \E how \in {"dead", "reset"} : Break(how)
  \/ AttemptFails
  \/ OnWsHandshake
  \/ \E ignored \in SUBSET subs : SendSubscriptions(ignored)
  \/ Reconnect
  \/ LinkError
  \/ OnPong
  \/ OnSubscribed
  \/ OnBookMessage
  \/ HalfPasses
  \/ HeartbeatTimeout
  \/ \E ignored \in SUBSET subs : Heartbeat(ignored)
  \/ SubscribePush
  \/ SubscribeCheck
  \/ \E c \in Channels : \E ignored \in SUBSET {c} : DoSubscribe(c, ignored)
  \/ StopFeed

(* Handlers that are due run, timers fire and the caller's thread goes on.  *)
(* Attempts to connect end, and not every one of them fails.                *)
FeedFairness ==
  /\ WF_feedVars(AttemptFails \/ OnWsHandshake)
  /\ SF_feedVars(OnWsHandshake)
  /\ WF_feedVars(\E ignored \in SUBSET subs : SendSubscriptions(ignored))
  /\ WF_feedVars(Reconnect)
  /\ WF_feedVars(LinkError)
  /\ WF_feedVars(OnPong \/ OnSubscribed \/ OnBookMessage)
  /\ WF_feedVars(HalfPasses)
  /\ WF_feedVars(HeartbeatTimeout \/ \E ignored \in SUBSET subs : Heartbeat(ignored))
  /\ WF_feedVars(SubscribePush \/ SubscribeCheck)
  /\ WF_feedVars(\E c \in Channels : \E ignored \in SUBSET {c} : DoSubscribe(c, ignored))

-----------------------------------------------------------------------------
(* The order book shows nothing or a book the exchange had, and never goes  *)
(* back: OrderBook, the normalizer's filter, the sequence check and the     *)
(* withdrawal at a break together implement BookMirror.                     *)
Nothing == [bids |-> EmptySide, asks |-> EmptySide]

Shown == IF book.quality = "Valid" THEN [bids |-> book.bids, asks |-> book.asks] ELSE Nothing

Mirror == INSTANCE BookMirror WITH
  Books <- UNION {Range(k.tape) : k \in Markets},
  NoBook <- Nothing,
  past <- SubSeq(market.tape, 1, market.at),
  mirror <- Shown,
  newest <- seen.newest

MirrorsExchange == Mirror!Spec

(* The features take depth from the book without asking for its quality     *)
(* (FeatureEngine::compute_snapshot), so a book with depth must be valid    *)
(* and of the connection that is up, or was up at stop(): nothing of an     *)
(* earlier connection is left after a break.                                *)
NoStaleDepth ==
  HasDepth(book) =>
    /\ book.quality = "Valid"
    /\ phase \in {"up", "off"}
    /\ book.seq >= seen.since

(* A link that dies without a word is given up at the third heartbeat after *)
(* its death at the latest (the pong timeout of schedule_heartbeat).        *)
DeadLinkNoticed == link = "dead" => seen.beats <= 2

(* Whatever breaks, and whatever the order of subscribe() and the handshake *)
(* on the two threads, in the end the client is connected for good and the  *)
(* exchange serves every channel the gateway asked for; unless it is        *)
(* stopped.                                                                 *)
FeedSettles == <>[](~Running \/ (phase = "up" /\ Channels \subseteq srv))
=============================================================================
