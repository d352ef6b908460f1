------------------------ MODULE ExchangeFeedsProofs -------------------------
(***************************************************************************)
(* What is proved of the public feed, for any tapes, channels and bounds:  *)
(* the types, that depth is never stale (NoStaleDepth), that a dead link   *)
(* is noticed (DeadLinkNoticed) and that the local order book implements   *)
(* BookMirror (MirrorsExchange).                                           *)
(*                                                                         *)
(* None of them is inductive. A message that is read decides what the book *)
(* shows, so the invariant says what a message on the wire can be: what    *)
(* the exchange wrote at a place of the tape (FeedTypeOK), the places in   *)
(* order, none older than the connection or than the newest book shown     *)
(* (WireOK). A valid book is then the book of one place (BookOK), because  *)
(* a delta that continues a sequence turns one place into the next         *)
(* (DeltaIsRead). That a dead link is noticed rests on a count: since its  *)
(* death no pong is on the way, so every heartbeat finds the age of the    *)
(* last pong two halves higher (BeatOK).                                   *)
(***************************************************************************)
EXTENDS ExchangeFeeds, SequenceTheorems, FiniteSetTheorems, TLAPS

Tapes == {k.tape : k \in Markets}

(* What the exchange writes when the book is at place i of the tape.       *)
SnapshotAt(tape, i) ==
  [kind |-> "book", action |-> "snapshot", seq |-> i,
   bids |-> tape[i].bids, asks |-> tape[i].asks]

DeltaAt(tape, i) ==
  [kind |-> "book", action |-> "update", seq |-> i,
   bids |-> Changed(tape[i - 1].bids, tape[i].bids),
   asks |-> Changed(tape[i - 1].asks, tape[i].asks)]

Pong == [kind |-> "pong"]
Acks == [kind : {"ack"}, channel : Channels]
Messages(tape) ==
  {Pong} \cup Acks \cup {SnapshotAt(tape, i) : i \in 1..Len(tape)}
    \cup {DeltaAt(tape, i) : i \in 2..Len(tape)}

(* Types; the wire carries what the exchange can have written.             *)
FeedTypeOK ==
  /\ market = [tape |-> market.tape, push |-> market.push, at |-> market.at]
  /\ market.tape \in Tapes
  /\ market.push \in {"snapshots", "deltas"}
  /\ market.at \in 1..Len(market.tape)
  /\ link \in {"ok", "dead", "reset"}
  /\ srv \subseteq Channels
  /\ wire \in Seq(Messages(market.tape))
  /\ phase \in {"off", "timer", "connecting", "handshaken", "up"}
  /\ subs \subseteq Channels
  /\ pend \in [Channels -> {"none", "fresh", "old"}]
  /\ posted \subseteq Channels
  /\ caller.todo \in Seq(Channels)
  /\ caller = [todo |-> caller.todo, step |-> caller.step]
  /\ caller.step \in {"push", "check"}
  /\ caller.step = "check" => caller.todo # <<>>
  /\ beat \in 0..2
  /\ age \in Nat
  /\ seen \in [since : Nat, newest : Nat, beats : Nat]
  /\ left \in [breaks : Nat, ignored : Nat]

IsBook(i) == wire[i].kind = "book"

(* The books on the wire are in the order of the tape, and none is older   *)
(* than the connection or than the newest book shown.                      *)
InOrder ==
  \A i \in DOMAIN wire : IsBook(i) =>
    /\ wire[i].seq <= market.at
    /\ seen.since <= wire[i].seq
    /\ seen.newest <= wire[i].seq
    /\ \A j \in DOMAIN wire : i < j /\ IsBook(j) => wire[i].seq <= wire[j].seq

(* Only a connection that is up has a wire.                                *)
WireOK ==
  /\ phase # "up" => wire = <<>> /\ srv = {}
  /\ InOrder

(* The book is empty, or what the exchange had at one place of the tape,   *)
(* which it passed on this connection.                                     *)
BookOK ==
  /\ seen.since <= market.at
  /\ seen.newest <= market.at
  /\ \/ book = NewBook
     \/ /\ book.quality = "Valid"
        /\ phase \in {"up", "off"}
        /\ book.seq \in 1..market.at
        /\ book.bids = market.tape[book.seq].bids
        /\ book.asks = market.tape[book.seq].asks
        /\ seen.since <= book.seq
        /\ book.seq <= seen.newest

NoPong == \A i \in DOMAIN wire : wire[i].kind # "pong"

(* The second half ends with no pong on the way, and on a dead link none   *)
(* comes: the age of the last pong grows by two with every heartbeat.      *)
BeatOK ==
  /\ phase \in {"connecting", "handshaken"} => link = "ok"
  /\ beat = 2 => NoPong
  /\ seen.beats > 0 =>
       /\ link = "dead"
       /\ phase \in {"up", "off"}
       /\ NoPong
       /\ seen.beats <= 2
       /\ age >= 2 * (seen.beats - 1) + beat

FeedInv == FeedTypeOK /\ WireOK /\ BookOK /\ BeatOK

-----------------------------------------------------------------------------
(* Operators of the book and of the wire.                                  *)

(* What the assumption says of one tape.                                   *)
LEMMA TapeFacts ==
  ASSUME NEW tape \in Tapes
  PROVE  /\ tape \in Seq(Range(tape))
         /\ Len(tape) \in Nat \ {0}
         /\ DOMAIN tape = 1..Len(tape)
         /\ \A i \in 1..Len(tape) :
              /\ tape[i] \in Range(tape)
              /\ tape[i] = [bids |-> tape[i].bids, asks |-> tape[i].asks]
              /\ tape[i].bids \in [DOMAIN tape[i].bids -> Nat \ {0}]
              /\ tape[i].asks \in [DOMAIN tape[i].asks -> Nat \ {0}]
<1>1. tape \in Seq(Range(tape)) /\ Len(tape) > 0
  BY TapeAssumption DEF Tapes
<1>2. Len(tape) \in Nat /\ DOMAIN tape = 1..Len(tape)
  BY <1>1, LenProperties
<1>3. ASSUME NEW i \in 1..Len(tape) PROVE tape[i] \in Range(tape)
  BY <1>2 DEF Range
<1>4. ASSUME NEW b \in Range(tape)
      PROVE  /\ b = [bids |-> b.bids, asks |-> b.asks]
             /\ b.bids \in [DOMAIN b.bids -> Nat \ {0}]
             /\ b.asks \in [DOMAIN b.asks -> Nat \ {0}]
  BY TapeAssumption DEF Tapes
<1> QED
  BY <1>1, <1>2, <1>3, <1>4

(* A snapshot puts its levels, and no other, into the book.                *)
LEMMA SnapshotIsRead ==
  ASSUME NEW side, side \in [DOMAIN side -> Nat \ {0}]
  PROVE  ApplyLevels(EmptySide, side) = side
<1>1. {p \in DOMAIN EmptySide : p \notin DOMAIN side}
        \cup {p \in DOMAIN side : side[p] > 0} = DOMAIN side
  BY DEF EmptySide
<1>2. {p \in DOMAIN side : side[p] > 0} = DOMAIN side
  OBVIOUS
<1> QED
  BY <1>1, <1>2 DEF ApplyLevels

(* The levels that differ, applied to the old side, give the new one.      *)
LEMMA DeltaIsRead ==
  ASSUME NEW old, NEW new,
         old \in [DOMAIN old -> Nat \ {0}], new \in [DOMAIN new -> Nat \ {0}]
  PROVE  ApplyLevels(old, Changed(old, new)) = new
<1> DEFINE size(side, p) == IF p \in DOMAIN side THEN side[p] ELSE 0
           differ == {q \in DOMAIN old \cup DOMAIN new : size(old, q) # size(new, q)}
           levels == Changed(old, new)
           kept == {p \in DOMAIN old : p \notin DOMAIN levels}
           put == {p \in DOMAIN levels : levels[p] > 0}
<1>1. DOMAIN levels = differ /\ \A p \in differ : levels[p] = size(new, p)
  BY DEF Changed
<1>2. kept = {p \in DOMAIN old : size(old, p) = size(new, p)}
  BY <1>1
<1>3. put = {p \in DOMAIN new : size(old, p) # size(new, p)}
  BY <1>1
<1>4. \A p \in kept : p \in DOMAIN new /\ new[p] = old[p]
  BY <1>2
<1>5. kept \cup put = DOMAIN new
  BY <1>2, <1>3, <1>4
<1>6. \A p \in put : levels[p] = new[p]
  BY <1>1, <1>3
<1>7. ApplyLevels(old, levels) = [p \in kept \cup put |-> IF p \in put THEN levels[p] ELSE old[p]]
  BY DEF ApplyLevels
<1> HIDE DEF kept, put, levels
<1>8. ApplyLevels(old, levels) = [p \in DOMAIN new |-> new[p]]
  BY <1>4, <1>5, <1>6, <1>7
<1> QED
  BY <1>8 DEF levels

(* The maximum of two numbers is the larger one.                           *)
LEMMA MaxOfTwo ==
  ASSUME NEW a \in Nat, NEW b \in Nat
  PROVE  Max({a, b}) = IF a >= b THEN a ELSE b
<1>1. \E x \in {a, b} : \A y \in {a, b} : x >= y
  OBVIOUS
<1>2. Max({a, b}) \in {a, b} /\ \A y \in {a, b} : Max({a, b}) >= y
  BY <1>1 DEF Max
<1> QED
  BY <1>2

LEMMA ChannelsFinite == IsFiniteSet(Channels)
<1>1. ChannelList \in Seq(Channels)
  BY FeedAssumption
<1>2. Len(ChannelList) \in Nat /\ DOMAIN ChannelList = 1..Len(ChannelList)
  BY <1>1, LenProperties
<1>3. IsFiniteSet(1..Len(ChannelList))
  BY <1>2, FS_Interval
<1>4. ChannelList \in Surjection(1..Len(ChannelList), Channels)
  BY <1>2, <1>1, LenProperties DEF Surjection, Channels, Range
<1> QED
  BY <1>3, <1>4, FS_Surjection

LEMMA SetToSeqTyped ==
  ASSUME NEW S, IsFiniteSet(S)
  PROVE  Cardinality(S) \in Nat /\ SetToSeq(S) \in [1..Cardinality(S) -> S]
<1>1. Cardinality(S) \in Nat /\ ExistsBijection(1..Cardinality(S), S)
  BY FS_CardinalityType
<1>2. PICK f \in [1..Cardinality(S) -> S] : IsInjective(f)
  BY <1>1 DEF ExistsBijection, Bijection, Injection
<1>3. SetToSeq(S) \in [1..Cardinality(S) -> S]
  BY <1>2 DEF SetToSeq
<1> QED
  BY <1>1, <1>3

(* A message that carries a book is one of the two kinds.                  *)
LEMMA BookMessages ==
  ASSUME NEW tape, NEW m \in Messages(tape)
  PROVE  /\ m.kind = "book" =>
              \/ \E i \in 1..Len(tape) : m = SnapshotAt(tape, i)
              \/ \E i \in 2..Len(tape) : m = DeltaAt(tape, i)
         /\ m.kind \in {"pong", "ack", "book"}
         /\ m.kind = "ack" => m.channel \in Channels
  BY DEF Messages, Pong, Acks, SnapshotAt, DeltaAt

-----------------------------------------------------------------------------
(* What the exchange and the client write to the wire.                     *)

(* Every book among these messages is the current one.                     *)
CurrentBooks(new, at) ==
  \A i \in 1..Len(new) : new[i].kind = "book" => new[i].seq = at

Silent(new) == \A i \in 1..Len(new) : new[i].kind # "pong"

LEMMA SnapshotNow ==
  ASSUME FeedTypeOK
  PROVE  /\ SnapshotMessage(market.at) = SnapshotAt(market.tape, market.at)
         /\ SnapshotMessage(market.at) \in Messages(market.tape)
  BY DEF FeedTypeOK, SnapshotMessage, SnapshotAt, Current, Messages

(* The answers to requests: confirmations, and the book as it is now.      *)
LEMMA AnswersTyped ==
  ASSUME FeedTypeOK, NEW cs, cs \subseteq Channels
  PROVE  /\ Answers(cs) \in Seq(Messages(market.tape))
         /\ CurrentBooks(Answers(cs), market.at)
         /\ Silent(Answers(cs))
<1> DEFINE n == Cardinality(cs)
           acks == [i \in 1..n |-> [kind |-> "ack", channel |-> SetToSeq(cs)[i]]]
           books == IF BookChannel \in cs THEN <<SnapshotMessage(market.at)>> ELSE <<>>
           M == Messages(market.tape)
<1>1. n \in Nat /\ SetToSeq(cs) \in [1..n -> cs]
  BY ChannelsFinite, FS_Subset, SetToSeqTyped
<1>2. \A i \in 1..n : acks[i] \in Acks
  BY <1>1 DEF Acks
<1>3. acks \in Seq(M) /\ Len(acks) = n /\ \A i \in 1..n : acks[i].kind = "ack"
  <2>1. \A i \in 1..n : acks[i] \in M
    BY <1>2 DEF Messages
  <2>2. acks \in [1..n -> M]
    BY <2>1
  <2>3. \A i \in 1..n : acks[i].kind = "ack"
    BY <1>2 DEF Acks
  <2> HIDE DEF M, acks, n
  <2>4. acks \in Seq(M)
    BY <1>1, <2>2
  <2>5. Len(acks) = n
    BY <1>1, <2>2
  <2> QED
    BY <2>3, <2>4, <2>5
<1>4. /\ books \in Seq(M) /\ Len(books) \in {0, 1}
      /\ \A i \in 1..Len(books) : books[i] = SnapshotMessage(market.at)
  <2> HIDE DEF M
  <2>1. SnapshotMessage(market.at) \in M
    BY SnapshotNow DEF M
  <2> QED
    BY <2>1
<1>5. Answers(cs) = acks \o books
  BY DEF Answers
<1>6. SnapshotMessage(market.at).kind = "book" /\ SnapshotMessage(market.at).seq = market.at
  BY DEF SnapshotMessage
<1> HIDE DEF M, acks, books
<1>7. /\ acks \o books \in Seq(M)
      /\ Len(acks \o books) = n + Len(books)
      /\ \A i \in 1..(n + Len(books)) :
           (acks \o books)[i] = IF i <= n THEN acks[i] ELSE books[i - n]
  BY <1>3, <1>4, ConcatProperties
<1>8. ASSUME NEW i \in 1..Len(Answers(cs))
      PROVE  \/ Answers(cs)[i].kind = "ack"
             \/ Answers(cs)[i] = SnapshotMessage(market.at)
  <2>1. CASE i <= n
    BY <2>1, <1>1, <1>3, <1>4, <1>5, <1>7
  <2>2. CASE i > n
    <3>1. i - n \in 1..Len(books)
      BY <2>2, <1>1, <1>4, <1>5, <1>7
    <3> QED
      BY <2>2, <3>1, <1>1, <1>4, <1>5, <1>7
  <2> QED
    BY <2>1, <2>2, <1>1, <1>4, <1>5, <1>7
<1> QED
  BY <1>5, <1>6, <1>7, <1>8 DEF CurrentBooks, Silent, M

(* What a step puts on the wire behind what is there.                      *)
Puts(new) ==
  /\ new \in Seq(Messages(market.tape))
  /\ wire' = wire \o new
  /\ CurrentBooks(new, market'.at)

LEMMA SendPuts ==
  ASSUME FeedTypeOK, NEW cs, cs \subseteq Channels, NEW ignored, NEW ping \in BOOLEAN,
         Send(cs, ignored, ping), UNCHANGED market
  PROVE  /\ \E new : Puts(new) /\ (~ping => Silent(new)) /\ (link # "ok" => new = <<>>)
         /\ srv' \subseteq Channels
         /\ left' \in [breaks : Nat, ignored : Nat]
         /\ pend' \in [Channels -> {"none", "fresh", "old"}]
<1> DEFINE M == Messages(market.tape)
           pong == IF ping THEN <<[kind |-> "pong"]>> ELSE <<>>
           answers == Answers(cs \ ignored)
<1>1. srv' \subseteq Channels
  BY DEF Send, FeedTypeOK
<1>2. pend' \in [Channels -> {"none", "fresh", "old"}]
  BY DEF Send, FeedTypeOK
<1>3. left' \in [breaks : Nat, ignored : Nat]
  <2>1. Cardinality(ignored) \in Nat
    <3>1. ignored \subseteq Channels
      BY DEF Send
    <3> QED
      BY <3>1, ChannelsFinite, FS_Subset, FS_CardinalityType
  <2> QED
    BY <2>1 DEF Send, FeedTypeOK
<1>4. CASE link # "ok"
  <2>1. wire' = wire
    BY <1>4 DEF Send
  <2>2. Puts(<<>>)
    BY <2>1, ConcatEmptySeq, EmptySeq DEF Puts, CurrentBooks, FeedTypeOK
  <2>3. Silent(<<>>)
    BY DEF Silent
  <2> QED
    BY <1>1, <1>2, <1>3, <2>2, <2>3
<1>5. CASE link = "ok"
  <2>1. wire' = wire \o answers \o pong
    BY <1>5 DEF Send
  <2>2. answers \in Seq(M) /\ CurrentBooks(answers, market.at) /\ Silent(answers)
    BY AnswersTyped
  <2>3. /\ pong \in Seq(M) /\ \A i \in 1..Len(pong) : pong[i].kind = "pong"
        /\ ~ping => pong = <<>>
    <3>1. [kind |-> "pong"] \in M
      BY DEF Messages, Pong
    <3> HIDE DEF M
    <3> QED
      BY <3>1
  <2>4. wire \in Seq(M)
    BY DEF FeedTypeOK
  <2> HIDE DEF M, pong, answers
  <2>5. wire' = wire \o (answers \o pong)
    BY <2>1, <2>2, <2>3, <2>4, ConcatAssociative
  <2>6. /\ answers \o pong \in Seq(M)
        /\ Len(answers) \in Nat /\ Len(pong) \in Nat
        /\ Len(answers \o pong) = Len(answers) + Len(pong)
        /\ \A i \in 1..(Len(answers) + Len(pong)) :
             (answers \o pong)[i] = IF i <= Len(answers) THEN answers[i]
                                    ELSE pong[i - Len(answers)]
    BY <2>2, <2>3, ConcatProperties, LenProperties
  <2>7. ASSUME NEW i \in 1..Len(answers \o pong)
        PROVE  \/ i \in 1..Len(answers) /\ (answers \o pong)[i] = answers[i]
               \/ (answers \o pong)[i].kind = "pong"
    <3>1. CASE i <= Len(answers)
      BY <3>1, <2>6
    <3>2. CASE i > Len(answers)
      <4>1. i - Len(answers) \in 1..Len(pong)
        BY <3>2, <2>6
      <4> QED
        BY <3>2, <4>1, <2>3, <2>6
    <3> QED
      BY <3>1, <3>2, <2>6
  <2>8. CurrentBooks(answers \o pong, market'.at)
    BY <2>2, <2>7 DEF CurrentBooks
  <2>9. ~ping => Silent(answers \o pong)
    <3> SUFFICES ASSUME ~ping PROVE Silent(answers \o pong)
      OBVIOUS
    <3>1. answers \o pong = answers
      BY <2>2, <2>3, ConcatEmptySeq
    <3> QED
      BY <3>1, <2>2
  <2>10. Puts(answers \o pong)
    BY <2>5, <2>6, <2>8 DEF Puts, M
  <2> QED
    BY <1>1, <1>2, <1>3, <1>5, <2>9, <2>10
<1> QED
  BY <1>4, <1>5

(* The wire of the next state, when a step puts messages on it: typed, in  *)
(* order, and without a pong if there was none.                            *)
LEMMA BookSeqs ==
  ASSUME FeedTypeOK, NEW i \in DOMAIN wire, IsBook(i)
  PROVE  wire[i].seq \in 1..Len(market.tape)
<1>1. wire[i] \in Messages(market.tape)
  BY ElementOfSeq, LenProperties DEF FeedTypeOK
<1>2. wire[i].kind = "book"
  BY DEF IsBook
<1>3. Len(market.tape) \in Nat
  BY TapeFacts DEF FeedTypeOK
<1> QED
  BY <1>1, <1>2, <1>3, BookMessages DEF SnapshotAt, DeltaAt

LEMMA PutsInOrder ==
  ASSUME FeedTypeOK, InOrder, NEW new, Puts(new),
         market'.tape = market.tape, market'.at \in Nat, market.at <= market'.at,
         seen'.since = seen.since, seen'.newest = seen.newest,
         seen.since <= market.at, seen.newest <= market.at
  PROVE  /\ wire' \in Seq(Messages(market'.tape))
         /\ InOrder'
         /\ NoPong /\ Silent(new) => NoPong'
<1> DEFINE M == Messages(market.tape)
<1>1. wire \in Seq(M) /\ new \in Seq(M) /\ wire' = wire \o new
  BY DEF FeedTypeOK, Puts
<1>2. /\ Len(wire) \in Nat /\ DOMAIN wire = 1..Len(wire)
      /\ Len(new) \in Nat
  BY <1>1, LenProperties
<1> HIDE DEF M
<1>3. /\ wire' \in Seq(M)
      /\ DOMAIN wire' = 1..(Len(wire) + Len(new))
      /\ \A i \in 1..(Len(wire) + Len(new)) :
           wire'[i] = IF i <= Len(wire) THEN wire[i] ELSE new[i - Len(wire)]
  BY <1>1, ConcatProperties, LenProperties
<1>4. ASSUME NEW i \in DOMAIN wire'
      PROVE  \/ i \in DOMAIN wire /\ wire'[i] = wire[i]
             \/ /\ i > Len(wire) /\ i - Len(wire) \in 1..Len(new)
                /\ wire'[i] = new[i - Len(wire)]
  <2>1. CASE i <= Len(wire)
    BY <2>1, <1>2, <1>3
  <2>2. CASE i > Len(wire)
    BY <2>2, <1>2, <1>3
  <2> QED
    BY <2>1, <2>2, <1>2, <1>3
<1>5. ASSUME NEW i \in DOMAIN wire', wire'[i].kind = "book"
      PROVE  \/ /\ i \in DOMAIN wire /\ IsBook(i) /\ wire'[i] = wire[i]
                /\ wire[i].seq \in Nat /\ wire[i].seq <= market.at
                /\ seen.since <= wire[i].seq /\ seen.newest <= wire[i].seq
             \/ i > Len(wire) /\ wire'[i].seq = market'.at
  <2>1. CASE i \in DOMAIN wire /\ wire'[i] = wire[i]
    BY <1>5, <2>1, BookSeqs DEF IsBook, InOrder
  <2>2. CASE /\ i > Len(wire) /\ i - Len(wire) \in 1..Len(new)
             /\ wire'[i] = new[i - Len(wire)]
    BY <1>5, <2>2 DEF Puts, CurrentBooks
  <2> QED
    BY <1>4, <2>1, <2>2
<1>6. market.at \in Nat /\ seen.since \in Nat /\ seen.newest \in Nat
  BY TapeFacts DEF FeedTypeOK
<1>7. ASSUME NEW i \in DOMAIN wire', wire'[i].kind = "book"
      PROVE  /\ wire'[i].seq <= market'.at
             /\ seen'.since <= wire'[i].seq
             /\ seen'.newest <= wire'[i].seq
  BY <1>5, <1>6, <1>7
<1>8. ASSUME NEW i \in DOMAIN wire', wire'[i].kind = "book",
             NEW j \in DOMAIN wire', wire'[j].kind = "book", i < j
      PROVE  wire'[i].seq <= wire'[j].seq
  <2>1. CASE j > Len(wire) /\ wire'[j].seq = market'.at
    BY <1>7, <1>8, <2>1
  <2>2. CASE j \in DOMAIN wire /\ IsBook(j) /\ wire'[j] = wire[j]
    <3>1. i \in DOMAIN wire /\ IsBook(i) /\ wire'[i] = wire[i]
      BY <1>2, <1>3, <1>5, <1>8, <2>2
    <3> QED
      BY <2>2, <3>1, <1>8 DEF InOrder
  <2> QED
    BY <1>5, <1>8, <2>1, <2>2
<1>9. InOrder'
  BY <1>7, <1>8 DEF InOrder, IsBook
<1>10. ASSUME NoPong, Silent(new) PROVE NoPong'
  BY <1>4, <1>10 DEF NoPong, Silent
<1> QED
  BY <1>3, <1>9, <1>10 DEF M

-----------------------------------------------------------------------------
(* What the client reads.                                                  *)

LEMMA TailInOrder ==
  ASSUME FeedTypeOK, InOrder, wire # <<>>, wire' = Tail(wire), UNCHANGED market,
         seen'.since = seen.since,
         \/ seen'.newest = seen.newest
         \/ Head(wire).kind = "book" /\ seen'.newest = Head(wire).seq
  PROVE  /\ wire' \in Seq(Messages(market'.tape))
         /\ InOrder'
         /\ NoPong => NoPong'
<1> DEFINE M == Messages(market.tape)
<1>1. wire \in Seq(M)
  BY DEF FeedTypeOK
<1> HIDE DEF M
<1>2. /\ Len(wire) \in Nat \ {0} /\ DOMAIN wire = 1..Len(wire)
      /\ Head(wire) = wire[1]
      /\ wire' \in Seq(M) /\ DOMAIN wire' = 1..(Len(wire) - 1)
      /\ \A i \in 1..(Len(wire) - 1) : wire'[i] = wire[i + 1]
  BY <1>1, HeadTailProperties, LenProperties, EmptySeq
<1>3. \A i \in DOMAIN wire' : i + 1 \in DOMAIN wire /\ wire'[i] = wire[i + 1]
  BY <1>2
<1>4. \A i \in DOMAIN wire' : seen'.newest = seen.newest \/ (IsBook(1) /\ 1 < i + 1)
  BY <1>2 DEF IsBook
<1>5. ASSUME NEW i \in DOMAIN wire', wire'[i].kind = "book"
      PROVE  /\ wire'[i].seq <= market'.at
             /\ seen'.since <= wire'[i].seq
             /\ seen'.newest <= wire'[i].seq
             /\ \A j \in DOMAIN wire' : i < j /\ wire'[j].kind = "book" =>
                  wire'[i].seq <= wire'[j].seq
  <2>1. IsBook(i + 1)
    BY <1>3, <1>5 DEF IsBook
  <2>2. wire'[i].seq <= market'.at /\ seen'.since <= wire'[i].seq
    BY <1>3, <2>1 DEF InOrder
  <2>3. seen'.newest <= wire'[i].seq
    BY <1>2, <1>3, <1>4, <2>1 DEF InOrder, IsBook
  <2>4. ASSUME NEW j \in DOMAIN wire', i < j, wire'[j].kind = "book"
        PROVE  wire'[i].seq <= wire'[j].seq
    <3>1. IsBook(j + 1) /\ i + 1 < j + 1
      BY <1>2, <1>3, <2>4 DEF IsBook
    <3> QED
      BY <1>3, <2>1, <3>1 DEF InOrder
  <2> QED
    BY <2>2, <2>3, <2>4
<1>6. InOrder'
  BY <1>5 DEF InOrder, IsBook
<1>7. NoPong => NoPong'
  BY <1>3 DEF NoPong
<1> QED
  BY <1>1, <1>2, <1>6, <1>7 DEF M

(* A book message leaves the book as it is, withdraws it, or makes it the  *)
(* book of the tape that the message is about.                             *)
ShowsPlace(i) ==
  /\ book'.quality = "Valid"
  /\ book'.seq = i
  /\ book'.bids = market.tape[i].bids
  /\ book'.asks = market.tape[i].asks
  /\ seen'.newest = i

LEMMA BookRead ==
  ASSUME FeedTypeOK, InOrder, BookOK, OnBookMessage
  PROVE  /\ wire # <<>> /\ wire' = Tail(wire) /\ Head(wire).kind = "book"
         /\ phase = "up"
         /\ \/ book' = book /\ seen'.newest = seen.newest
            \/ book' = NewBook /\ seen'.newest = seen.newest
            \/ \E i \in 1..market.at :
                 /\ i = Head(wire).seq /\ seen.newest <= i /\ seen.since <= i
                 /\ ShowsPlace(i)
<1> DEFINE tape == market.tape
           m == Head(wire)
<1>1. /\ phase = "up" /\ wire # <<>> /\ wire' = Tail(wire) /\ m.kind = "book"
      /\ book' = IF Accepted(m) THEN OnBook(book, m) ELSE book
      /\ seen' = [seen EXCEPT !.newest =
                    IF book'.quality = "Valid" THEN Max({@, book'.seq}) ELSE @]
  BY DEF OnBookMessage, OnMessage
<1>2. seen'.newest = IF book'.quality = "Valid" THEN Max({seen.newest, book'.seq})
                     ELSE seen.newest
  BY <1>1 DEF FeedTypeOK
<1>3. market.at \in Nat /\ seen.newest \in Nat /\ market.at <= Len(tape) /\ Len(tape) \in Nat
  BY TapeFacts DEF FeedTypeOK
<1>4. wire \in Seq(Messages(tape))
  BY DEF FeedTypeOK
<1>5. m \in Messages(tape) /\ 1 \in DOMAIN wire /\ m = wire[1]
  BY <1>1, <1>4, HeadTailProperties, LenProperties, EmptySeq
<1>6. m.seq <= market.at /\ seen.newest <= m.seq /\ seen.since <= m.seq
  BY <1>1, <1>5 DEF InOrder, IsBook
<1>7. m.seq \in 1..market.at
  BY <1>1, <1>3, <1>5, <1>6, BookSeqs DEF IsBook
<1>8. CASE ~Accepted(m)
  <2>1. book' = book
    BY <1>1, <1>8
  <2>2. CASE book = NewBook
    BY <1>1, <1>2, <2>1, <2>2 DEF NewBook
  <2>3. CASE book.quality = "Valid" /\ book.seq \in 1..market.at /\ book.seq <= seen.newest
    <3>1. Max({seen.newest, book.seq}) = seen.newest
      BY <1>3, <2>3, MaxOfTwo
    <3> QED
      BY <1>1, <1>2, <2>1, <2>3, <3>1
  <2> QED
    BY <2>2, <2>3 DEF BookOK
<1>9. ASSUME book'.quality = "Valid", book'.seq = m.seq
      PROVE  seen'.newest = m.seq
  <2>1. Max({seen.newest, m.seq}) = m.seq
    BY <1>3, <1>6, <1>7, MaxOfTwo
  <2> QED
    BY <1>2, <1>9, <2>1
<1>10. ASSUME Accepted(m), NEW i \in 1..Len(tape), m = SnapshotAt(tape, i)
       PROVE  i = m.seq /\ ShowsPlace(i)
  <2>1. /\ m.action = "snapshot" /\ m.seq = i
        /\ m.bids = tape[i].bids /\ m.asks = tape[i].asks
    BY <1>10 DEF SnapshotAt
  <2>2. /\ ApplyLevels(EmptySide, m.bids) = m.bids
        /\ ApplyLevels(EmptySide, m.asks) = m.asks
    <3>1. /\ tape[i].bids \in [DOMAIN tape[i].bids -> Nat \ {0}]
          /\ tape[i].asks \in [DOMAIN tape[i].asks -> Nat \ {0}]
      BY TapeFacts DEF FeedTypeOK
    <3> HIDE DEF tape, m
    <3>2. /\ ApplyLevels(EmptySide, tape[i].bids) = tape[i].bids
          /\ ApplyLevels(EmptySide, tape[i].asks) = tape[i].asks
      BY <3>1, SnapshotIsRead
    <3> QED
      BY <2>1, <3>2
  <2>3. ~Crossed(m.bids, m.asks)
    BY <1>10 DEF Accepted
  <2>4. book' = [bids |-> m.bids, asks |-> m.asks, seq |-> m.seq, quality |-> "Valid"]
    BY <1>1, <1>10, <2>1, <2>2, <2>3 DEF OnBook, ApplySnapshot
  <2> QED
    BY <1>9, <2>1, <2>4 DEF ShowsPlace
<1>11. ASSUME Accepted(m), NEW i \in 2..Len(tape), m = DeltaAt(tape, i)
       PROVE  book' = NewBook \/ (i = m.seq /\ ShowsPlace(i))
  <2>1. /\ m.action = "update" /\ m.seq = i
        /\ m.bids = Changed(tape[i - 1].bids, tape[i].bids)
        /\ m.asks = Changed(tape[i - 1].asks, tape[i].asks)
    BY <1>11 DEF DeltaAt
  <2>2. book' = ApplyDelta(book, m)
    BY <1>1, <1>11, <2>1 DEF OnBook
  <2>3. CASE /\ book.quality = "Valid" /\ Continues(book, m)
             /\ ~Crossed(ApplyLevels(book.bids, m.bids), ApplyLevels(book.asks, m.asks))
    <3>1. book # NewBook
      BY <2>3 DEF NewBook
    <3>2. /\ book.seq \in Nat /\ book.bids = tape[book.seq].bids
          /\ book.asks = tape[book.seq].asks
      BY <3>1 DEF BookOK
    <3>3. book.seq = i - 1
      BY <2>1, <2>3, <3>2 DEF Continues
    <3>4. i \in 1..Len(tape) /\ i - 1 \in 1..Len(tape)
      BY <1>3
    <3>5. /\ ApplyLevels(book.bids, m.bids) = tape[i].bids
          /\ ApplyLevels(book.asks, m.asks) = tape[i].asks
      <4>1. /\ tape[i].bids \in [DOMAIN tape[i].bids -> Nat \ {0}]
            /\ tape[i].asks \in [DOMAIN tape[i].asks -> Nat \ {0}]
            /\ tape[i - 1].bids \in [DOMAIN tape[i - 1].bids -> Nat \ {0}]
            /\ tape[i - 1].asks \in [DOMAIN tape[i - 1].asks -> Nat \ {0}]
        BY <3>4, TapeFacts DEF FeedTypeOK
      <4> HIDE DEF tape, m
      <4>2. /\ ApplyLevels(tape[i - 1].bids, Changed(tape[i - 1].bids, tape[i].bids)) = tape[i].bids
            /\ ApplyLevels(tape[i - 1].asks, Changed(tape[i - 1].asks, tape[i].asks)) = tape[i].asks
        BY <4>1, DeltaIsRead
      <4>3. book.bids = tape[i - 1].bids /\ book.asks = tape[i - 1].asks
        BY <3>2, <3>3
      <4> QED
        BY <2>1, <4>2, <4>3
    <3>6. book' = [bids |-> tape[i].bids, asks |-> tape[i].asks, seq |-> m.seq,
                   quality |-> "Valid"]
      BY <2>2, <2>3, <3>5 DEF ApplyDelta
    <3> QED
      BY <1>9, <2>1, <3>6 DEF ShowsPlace
  <2>4. CASE ~(/\ book.quality = "Valid" /\ Continues(book, m)
               /\ ~Crossed(ApplyLevels(book.bids, m.bids), ApplyLevels(book.asks, m.asks)))
    <3> HIDE DEF m
    <3> DEFINE bids == ApplyLevels(book.bids, m.bids)
               asks == ApplyLevels(book.asks, m.asks)
               next == /\ book.quality = "Valid" /\ Continues(book, m)
                       /\ ~Crossed(bids, asks)
               new == [bids |-> bids, asks |-> asks, seq |-> m.seq, quality |-> "Valid"]
    <3>a. ApplyDelta(book, m) = IF next THEN new ELSE RequestResync(book)
      BY DEF ApplyDelta
    <3>b. ~next
      BY <2>4
    <3> HIDE DEF next, new
    <3>1. ApplyDelta(book, m) = RequestResync(book)
      BY <3>a, <3>b
    <3> QED
      BY <2>2, <3>1 DEF RequestResync
  <2> QED
    BY <2>3, <2>4
<1>12. book' = NewBook => seen'.newest = seen.newest
  BY <1>2 DEF NewBook
<1>13. CASE Accepted(m)
  <2>1. \/ \E i \in 1..Len(tape) : m = SnapshotAt(tape, i)
        \/ \E i \in 2..Len(tape) : m = DeltaAt(tape, i)
    BY <1>1, <1>5, BookMessages
  <2>2. CASE \E i \in 1..Len(tape) : m = SnapshotAt(tape, i)
    BY <1>1, <1>6, <1>7, <1>10, <1>13, <2>2
  <2>3. CASE \E i \in 2..Len(tape) : m = DeltaAt(tape, i)
    BY <1>1, <1>6, <1>7, <1>11, <1>12, <1>13, <2>3
  <2> QED
    BY <2>1, <2>2, <2>3
<1> QED
  BY <1>8, <1>13

-----------------------------------------------------------------------------
(* The invariant is kept: by the exchange ...                              *)

LEMMA Inv_Trade ==
  ASSUME FeedInv, Trade PROVE FeedInv'
<1> DEFINE tape == market.tape
           at == market.at
           new == IF BookChannel \in srv /\ link = "ok"
                  THEN IF market.push = "deltas" THEN <<DeltaAt(tape, at + 1)>>
                       ELSE <<SnapshotAt(tape, at + 1)>>
                  ELSE <<>>
<1>1. at \in Nat /\ at < Len(tape) /\ Len(tape) \in Nat /\ at + 1 \in 2..Len(tape)
  BY TapeFacts DEF Trade, FeedInv, FeedTypeOK
<1>2. market' = [tape |-> tape, push |-> market.push, at |-> at + 1]
  BY DEF Trade, FeedInv, FeedTypeOK
<1>3. UNCHANGED <<link, srv, phase, subs, pend, posted, caller, beat, age, book, seen, left>>
  BY DEF Trade
<1>4. DeltaMessage = DeltaAt(tape, at + 1)
  <2>1. (at + 1) - 1 = at
    BY <1>1
  <2> QED
    BY <2>1 DEF DeltaMessage, DeltaAt, Current
<1>5. SnapshotMessage(at + 1) = SnapshotAt(tape, at + 1)
  BY DEF SnapshotMessage, SnapshotAt
<1>6. /\ DeltaAt(tape, at + 1) \in Messages(tape)
      /\ SnapshotAt(tape, at + 1) \in Messages(tape)
  BY <1>1 DEF Messages
<1>7. /\ DeltaAt(tape, at + 1).kind = "book" /\ DeltaAt(tape, at + 1).seq = at + 1
      /\ SnapshotAt(tape, at + 1).kind = "book" /\ SnapshotAt(tape, at + 1).seq = at + 1
  BY DEF DeltaAt, SnapshotAt
<1>8. wire \in Seq(Messages(tape))
  BY DEF FeedInv, FeedTypeOK
<1>9. ASSUME NEW m \in Messages(tape), m.kind = "book", m.seq = at + 1,
             wire' = Append(wire, m)
      PROVE  Puts(<<m>>) /\ Silent(<<m>>)
  <2>1. wire' = wire \o <<m>>
    BY <1>8, <1>9, AppendIsConcat
  <2>2. <<m>> \in Seq(Messages(tape)) /\ Len(<<m>>) = 1 /\ <<m>>[1] = m
    BY <1>9
  <2> QED
    BY <1>2, <1>9, <2>1, <2>2 DEF Puts, CurrentBooks, Silent
<1>10. \E n : Puts(n) /\ Silent(n) /\ (wire' # wire => BookChannel \in srv /\ link = "ok")
  <2>1. CASE ~(BookChannel \in srv /\ link = "ok")
    <3>1. wire' = wire
      BY <2>1 DEF Trade
    <3>2. Puts(<<>>) /\ Silent(<<>>)
      BY <1>8, <3>1, ConcatEmptySeq, EmptySeq DEF Puts, CurrentBooks, Silent
    <3> QED
      BY <3>1, <3>2
  <2>2. CASE (BookChannel \in srv /\ link = "ok") /\ market.push = "deltas"
    <3>1. wire' = Append(wire, DeltaAt(tape, at + 1))
      BY <1>4, <2>2 DEF Trade
    <3> QED
      BY <1>6, <1>7, <1>9, <2>2, <3>1
  <2>3. CASE (BookChannel \in srv /\ link = "ok") /\ market.push # "deltas"
    <3>1. wire' = Append(wire, SnapshotAt(tape, at + 1))
      BY <1>5, <2>3 DEF Trade
    <3> QED
      BY <1>6, <1>7, <1>9, <2>3, <3>1
  <2> QED
    BY <2>1, <2>2, <2>3
<1>11. /\ wire' \in Seq(Messages(market'.tape))
       /\ InOrder'
       /\ NoPong => NoPong'
  BY <1>1, <1>2, <1>3, <1>10, PutsInOrder DEF FeedInv, WireOK, BookOK
<1>12. FeedTypeOK'
  <2>1. /\ market' = [tape |-> market'.tape, push |-> market'.push, at |-> market'.at]
        /\ market'.tape \in Tapes /\ market'.push \in {"snapshots", "deltas"}
        /\ market'.at \in 1..Len(market'.tape)
    BY <1>1, <1>2 DEF FeedInv, FeedTypeOK
  <2> QED
    BY <1>3, <1>11, <2>1 DEF FeedInv, FeedTypeOK
<1>13. WireOK'
  <2>1. phase # "up" => wire' = wire
    BY <1>10 DEF FeedInv, WireOK
  <2> QED
    BY <1>3, <1>11, <2>1 DEF FeedInv, WireOK
<1>14. BookOK'
  <2>1. market'.tape = tape /\ market'.at = at + 1
    BY <1>2
  <2>2. seen.since \in Nat /\ seen.newest \in Nat
    BY DEF FeedInv, FeedTypeOK
  <2>3. seen'.since <= market'.at /\ seen'.newest <= market'.at
    BY <1>1, <1>3, <2>1, <2>2 DEF FeedInv, BookOK
  <2>4. book = NewBook \/ book.seq \in 1..(at + 1)
    BY <1>1 DEF FeedInv, BookOK
  <2> QED
    BY <1>3, <2>1, <2>3, <2>4 DEF FeedInv, BookOK
<1>15. BeatOK'
  BY <1>3, <1>11 DEF FeedInv, BeatOK
<1> QED
  BY <1>12, <1>13, <1>14, <1>15 DEF FeedInv

LEMMA Inv_Break ==
  ASSUME FeedInv, NEW how \in {"dead", "reset"}, Break(how) PROVE FeedInv'
<1>1. /\ phase = "up" /\ link = "ok" /\ link' = how
      /\ left' = [left EXCEPT !.breaks = @ - 1] /\ left.breaks > 0
      /\ UNCHANGED <<market, srv, wire, phase, subs, pend, posted, caller, beat, age, book, seen>>
  BY DEF Break
<1>2. left' \in [breaks : Nat, ignored : Nat]
  BY <1>1 DEF FeedInv, FeedTypeOK
<1>3. FeedTypeOK'
  BY <1>1, <1>2 DEF FeedInv, FeedTypeOK
<1>4. WireOK' /\ BookOK'
  BY <1>1 DEF FeedInv, WireOK, InOrder, IsBook, BookOK
<1>5. seen.beats = 0
  BY <1>1 DEF FeedInv, BeatOK, FeedTypeOK
<1>6. BeatOK'
  BY <1>1, <1>5 DEF FeedInv, BeatOK, NoPong
<1> QED
  BY <1>3, <1>4, <1>6 DEF FeedInv

(* ... by connecting ...                                                   *)

LEMMA Inv_Connect ==
  ASSUME FeedInv, AttemptFails \/ OnWsHandshake \/ Reconnect PROVE FeedInv'
<1>1. CASE AttemptFails
  <2>1. /\ phase = "connecting" /\ phase' = "timer"
        /\ UNCHANGED <<market, link, srv, wire, subs, pend, posted, caller, beat, age, book, seen, left>>
    BY <1>1 DEF AttemptFails
  <2>2. FeedTypeOK'
    BY <2>1 DEF FeedInv, FeedTypeOK
  <2>3. WireOK' /\ BookOK'
    BY <2>1 DEF FeedInv, WireOK, InOrder, IsBook, BookOK
  <2>4. BeatOK'
    BY <2>1 DEF FeedInv, BeatOK, NoPong
  <2> QED
    BY <2>2, <2>3, <2>4 DEF FeedInv
<1>2. CASE OnWsHandshake
  <2>1. /\ phase = "connecting" /\ phase' = "handshaken" /\ age' = 0
        /\ seen' = [seen EXCEPT !.since = market.at]
        /\ UNCHANGED <<market, link, srv, wire, subs, pend, posted, caller, beat, book, left>>
    BY <1>2 DEF OnWsHandshake
  <2>2. /\ seen'.since = market.at /\ seen'.newest = seen.newest /\ seen'.beats = seen.beats
        /\ seen' \in [since : Nat, newest : Nat, beats : Nat]
    <3>1. market.at \in Nat
      BY TapeFacts DEF FeedInv, FeedTypeOK
    <3>2. seen \in [since : Nat, newest : Nat, beats : Nat]
      BY DEF FeedInv, FeedTypeOK
    <3> QED
      BY <2>1, <3>1, <3>2
  <2>3. FeedTypeOK'
    BY <2>1, <2>2 DEF FeedInv, FeedTypeOK
  <2>4. wire = <<>> /\ srv = {} /\ book = NewBook /\ seen.beats = 0
    BY <2>1 DEF FeedInv, WireOK, BookOK, BeatOK, FeedTypeOK
  <2>5. WireOK'
    BY <2>1, <2>4 DEF WireOK, InOrder
  <2>6. BookOK'
    BY <2>1, <2>2, <2>3, <2>4, TapeFacts DEF FeedInv, BookOK, FeedTypeOK
  <2>7. BeatOK'
    BY <2>1, <2>2, <2>4 DEF FeedInv, BeatOK, NoPong
  <2> QED
    BY <2>3, <2>5, <2>6, <2>7 DEF FeedInv
<1>3. CASE Reconnect
  <2>1. /\ phase = "timer" /\ phase' = "connecting" /\ link' = "ok"
        /\ UNCHANGED <<market, srv, wire, subs, pend, posted, caller, beat, age, book, seen, left>>
    BY <1>3 DEF Reconnect
  <2>2. FeedTypeOK'
    BY <2>1 DEF FeedInv, FeedTypeOK
  <2>3. WireOK' /\ BookOK'
    BY <2>1 DEF FeedInv, WireOK, InOrder, IsBook, BookOK
  <2>4. seen.beats = 0
    BY <2>1 DEF FeedInv, BeatOK, FeedTypeOK
  <2>5. BeatOK'
    BY <2>1, <2>4 DEF FeedInv, BeatOK, NoPong
  <2> QED
    BY <2>2, <2>3, <2>5 DEF FeedInv
<1> QED
  BY <1>1, <1>2, <1>3

(* handle_disconnect, whoever calls it                                     *)
LEMMA Inv_Disconnect ==
  ASSUME FeedInv, HandleDisconnect,
         UNCHANGED <<market, link, subs, pend, posted, caller, beat, age, left>>
  PROVE  FeedInv'
<1>1. /\ phase' = "timer" /\ srv' = {} /\ wire' = <<>> /\ book' = NewBook
      /\ seen' = [seen EXCEPT !.beats = 0]
  BY DEF HandleDisconnect, AfterDisconnect, RequestResync
<1>2. /\ seen'.since = seen.since /\ seen'.newest = seen.newest /\ seen'.beats = 0
      /\ seen' \in [since : Nat, newest : Nat, beats : Nat]
  BY <1>1 DEF FeedInv, FeedTypeOK
<1>3. FeedTypeOK'
  BY <1>1, <1>2, EmptySeq DEF FeedInv, FeedTypeOK
<1>4. WireOK' /\ BookOK'
  BY <1>1, <1>2 DEF FeedInv, WireOK, InOrder, BookOK
<1>5. BeatOK'
  BY <1>1, <1>2 DEF FeedInv, BeatOK, NoPong
<1> QED
  BY <1>3, <1>4, <1>5 DEF FeedInv

(* ... by the requests that the client sends, at the handshake, at a       *)
(* heartbeat or for one channel ...                                        *)

LEMMA SendKeeps ==
  ASSUME FeedInv, NEW cs, cs \subseteq Channels, NEW ignored, NEW ping \in BOOLEAN,
         Send(cs, ignored, ping), UNCHANGED <<market, link, book>>,
         seen'.since = seen.since, seen'.newest = seen.newest
  PROVE  /\ wire' \in Seq(Messages(market'.tape))
         /\ InOrder'
         /\ (~ping \/ link # "ok") /\ NoPong => NoPong'
         /\ srv' \subseteq Channels
         /\ left' \in [breaks : Nat, ignored : Nat]
         /\ pend' \in [Channels -> {"none", "fresh", "old"}]
<1>1. PICK new : Puts(new) /\ (~ping => Silent(new)) /\ (link # "ok" => new = <<>>)
  BY SendPuts DEF FeedInv
<1>2. link # "ok" => Silent(new)
  BY <1>1 DEF Silent
<1>3. market'.at \in Nat /\ market.at <= market'.at /\ market'.tape = market.tape
  BY TapeFacts DEF FeedInv, FeedTypeOK
<1>4. /\ wire' \in Seq(Messages(market'.tape))
      /\ InOrder'
      /\ NoPong /\ Silent(new) => NoPong'
  BY <1>1, <1>3, PutsInOrder DEF FeedInv, WireOK, BookOK
<1> QED
  BY <1>1, <1>2, <1>4, SendPuts DEF FeedInv

LEMMA Inv_SendSubscriptions ==
  ASSUME FeedInv, NEW ignored, SendSubscriptions(ignored) PROVE FeedInv'
<1>1. /\ phase = "handshaken" /\ Send(subs, ignored, FALSE) /\ phase' = "up" /\ beat' = 0
      /\ UNCHANGED <<market, link, subs, posted, caller, age, book, seen>>
  BY DEF SendSubscriptions
<1>2. /\ wire' \in Seq(Messages(market'.tape)) /\ InOrder'
      /\ srv' \subseteq Channels
      /\ left' \in [breaks : Nat, ignored : Nat]
      /\ pend' \in [Channels -> {"none", "fresh", "old"}]
  BY <1>1, SendKeeps DEF FeedInv, FeedTypeOK
<1>3. FeedTypeOK'
  BY <1>1, <1>2 DEF FeedInv, FeedTypeOK
<1>4. WireOK' /\ BookOK'
  BY <1>1, <1>2 DEF FeedInv, WireOK, BookOK
<1>5. seen.beats = 0
  BY <1>1 DEF FeedInv, BeatOK, FeedTypeOK
<1>6. BeatOK'
  BY <1>1, <1>5 DEF BeatOK
<1> QED
  BY <1>3, <1>4, <1>6 DEF FeedInv

LEMMA Inv_Heartbeat ==
  ASSUME FeedInv, NEW ignored, Heartbeat(ignored) PROVE FeedInv'
<1>1. /\ phase = "up" /\ beat = 2 /\ ~PongLate(age) /\ Send(Retried, ignored, TRUE)
      /\ beat' = 0 /\ seen' = [seen EXCEPT !.beats = IF link = "dead" THEN @ + 1 ELSE @]
      /\ UNCHANGED <<market, link, phase, subs, posted, caller, age, book>>
  BY DEF Heartbeat
<1>2. /\ seen'.since = seen.since /\ seen'.newest = seen.newest
      /\ seen'.beats = IF link = "dead" THEN seen.beats + 1 ELSE seen.beats
      /\ seen' \in [since : Nat, newest : Nat, beats : Nat]
  BY <1>1 DEF FeedInv, FeedTypeOK
<1>3. /\ wire' \in Seq(Messages(market'.tape)) /\ InOrder'
      /\ link # "ok" /\ NoPong => NoPong'
      /\ srv' \subseteq Channels
      /\ left' \in [breaks : Nat, ignored : Nat]
      /\ pend' \in [Channels -> {"none", "fresh", "old"}]
  BY <1>1, <1>2, SendKeeps DEF FeedInv, FeedTypeOK, Retried
<1>4. FeedTypeOK'
  BY <1>1, <1>2, <1>3 DEF FeedInv, FeedTypeOK
<1>5. WireOK' /\ BookOK'
  BY <1>1, <1>2, <1>3 DEF FeedInv, WireOK, BookOK
<1>6. BeatOK'
  <2>1. age \in Nat /\ age <= 3 /\ seen.beats \in Nat
    BY <1>1 DEF FeedInv, FeedTypeOK, PongLate
  <2>2. NoPong
    BY <1>1 DEF FeedInv, BeatOK
  <2>3. CASE link = "dead"
    <3>1. seen.beats <= 1
      BY <1>1, <2>1 DEF FeedInv, BeatOK
    <3>2. seen'.beats \in 1..2 /\ age >= 2 * (seen'.beats - 1)
      <4>1. CASE seen.beats = 0
        BY <1>2, <2>1, <2>3, <4>1
      <4>2. CASE seen.beats = 1
        <5>1. age >= 2
          BY <1>1, <2>1, <4>2 DEF FeedInv, BeatOK
        <5> QED
          BY <1>2, <2>1, <2>3, <4>2, <5>1
      <4> QED
        BY <2>1, <3>1, <4>1, <4>2
    <3> QED
      BY <1>1, <1>3, <2>1, <2>2, <2>3, <3>2 DEF FeedInv, BeatOK
  <2>4. CASE link # "dead"
    <3>1. seen'.beats = 0
      BY <1>2, <2>1, <2>4 DEF FeedInv, BeatOK
    <3> QED
      BY <1>1, <3>1 DEF BeatOK
  <2> QED
    BY <2>3, <2>4
<1> QED
  BY <1>4, <1>5, <1>6 DEF FeedInv

LEMMA Inv_DoSubscribe ==
  ASSUME FeedInv, NEW c \in Channels, NEW ignored, DoSubscribe(c, ignored) PROVE FeedInv'
<1>1. /\ posted' = posted \ {c}
      /\ UNCHANGED <<market, link, phase, subs, caller, beat, age, book, seen>>
  BY DEF DoSubscribe
<1>2. /\ wire' \in Seq(Messages(market'.tape)) /\ InOrder'
      /\ NoPong => NoPong'
      /\ srv' \subseteq Channels
      /\ left' \in [breaks : Nat, ignored : Nat]
      /\ pend' \in [Channels -> {"none", "fresh", "old"}]
      /\ phase # "up" => UNCHANGED <<wire, srv>>
  <2>1. CASE phase = "up"
    <3>1. Send({c}, ignored, FALSE)
      BY <2>1 DEF DoSubscribe
    <3> QED
      BY <1>1, <2>1, <3>1, SendKeeps
  <2>2. CASE phase # "up"
    <3>1. pend' = [pend EXCEPT ![c] = "fresh"] /\ UNCHANGED <<srv, wire, left>>
      BY <2>2 DEF DoSubscribe
    <3> QED
      BY <1>1, <2>2, <3>1 DEF FeedInv, FeedTypeOK, WireOK, InOrder, IsBook, NoPong
  <2> QED
    BY <2>1, <2>2
<1>3. FeedTypeOK'
  BY <1>1, <1>2 DEF FeedInv, FeedTypeOK
<1>4. WireOK' /\ BookOK'
  BY <1>1, <1>2 DEF FeedInv, WireOK, BookOK
<1>5. BeatOK'
  BY <1>1, <1>2 DEF FeedInv, BeatOK
<1> QED
  BY <1>3, <1>4, <1>5 DEF FeedInv

(* ... by what the client reads ...                                        *)

LEMMA Inv_Read ==
  ASSUME FeedInv, OnPong \/ OnSubscribed PROVE FeedInv'
<1>1. /\ phase = "up" /\ wire # <<>> /\ wire' = Tail(wire)
      /\ UNCHANGED <<market, link, srv, phase, subs, posted, caller, beat, book, seen, left>>
  BY DEF OnPong, OnSubscribed, OnMessage
<1>2. /\ wire' \in Seq(Messages(market'.tape)) /\ InOrder'
      /\ NoPong => NoPong'
  BY <1>1, TailInOrder DEF FeedInv, WireOK
<1>3. age' \in Nat /\ pend' \in [Channels -> {"none", "fresh", "old"}]
  BY DEF OnPong, OnSubscribed, FeedInv, FeedTypeOK
<1>4. NoPong => age' = age
  <2>1. ASSUME OnPong PROVE ~NoPong
    <3>1. Head(wire).kind = "pong"
      BY <2>1 DEF OnPong, OnMessage
    <3>2. 1 \in DOMAIN wire /\ Head(wire) = wire[1]
      BY <1>1, HeadTailProperties, LenProperties, EmptySeq DEF FeedInv, FeedTypeOK
    <3> QED
      BY <3>1, <3>2 DEF NoPong
  <2>2. OnSubscribed => age' = age
    BY DEF OnSubscribed
  <2> QED
    BY <2>1, <2>2
<1>5. FeedTypeOK'
  BY <1>1, <1>2, <1>3 DEF FeedInv, FeedTypeOK
<1>6. WireOK' /\ BookOK'
  BY <1>1, <1>2 DEF FeedInv, WireOK, BookOK
<1>7. BeatOK'
  BY <1>1, <1>2, <1>4 DEF FeedInv, BeatOK
<1> QED
  BY <1>5, <1>6, <1>7 DEF FeedInv

LEMMA Inv_Book ==
  ASSUME FeedInv, OnBookMessage PROVE FeedInv'
<1>1. /\ UNCHANGED <<market, link, srv, phase, subs, pend, posted, caller, beat, age, left>>
      /\ seen' = [seen EXCEPT !.newest = seen'.newest]
  BY DEF OnBookMessage, FeedInv, FeedTypeOK
<1>2. /\ wire # <<>> /\ wire' = Tail(wire) /\ Head(wire).kind = "book" /\ phase = "up"
      /\ \/ book' = book /\ seen'.newest = seen.newest
         \/ book' = NewBook /\ seen'.newest = seen.newest
         \/ \E i \in 1..market.at :
              /\ i = Head(wire).seq /\ seen.newest <= i /\ seen.since <= i
              /\ ShowsPlace(i)
  BY BookRead DEF FeedInv, WireOK
<1>3. market.at \in Nat
  BY TapeFacts DEF FeedInv, FeedTypeOK
<1>4. /\ seen'.newest \in Nat /\ seen'.newest <= market.at
      /\ seen'.newest = seen.newest \/ seen'.newest = Head(wire).seq
  BY <1>2, <1>3 DEF ShowsPlace, FeedInv, FeedTypeOK, BookOK
<1>5. /\ seen'.since = seen.since /\ seen'.beats = seen.beats
      /\ seen' \in [since : Nat, newest : Nat, beats : Nat]
  BY <1>1, <1>4 DEF FeedInv, FeedTypeOK
<1>6. /\ wire' \in Seq(Messages(market'.tape)) /\ InOrder'
      /\ NoPong => NoPong'
  BY <1>1, <1>2, <1>4, <1>5, TailInOrder DEF FeedInv, WireOK
<1>7. FeedTypeOK'
  BY <1>1, <1>5, <1>6 DEF FeedInv, FeedTypeOK
<1>8. WireOK'
  BY <1>1, <1>2, <1>6 DEF FeedInv, WireOK
<1>9. BookOK'
  <2>1. seen'.since <= market'.at /\ seen'.newest <= market'.at
    BY <1>1, <1>4, <1>5 DEF FeedInv, BookOK
  <2>2. CASE book' = book /\ seen'.newest = seen.newest
    BY <1>1, <1>5, <2>1, <2>2 DEF FeedInv, BookOK
  <2>3. CASE book' = NewBook
    BY <2>1, <2>3 DEF BookOK
  <2>4. ASSUME NEW i \in 1..market.at, seen.since <= i, ShowsPlace(i)
        PROVE  BookOK'
    BY <1>1, <1>2, <1>3, <1>5, <2>1, <2>4 DEF ShowsPlace, BookOK
  <2> QED
    BY <1>2, <2>2, <2>3, <2>4
<1>10. BeatOK'
  BY <1>1, <1>5, <1>6 DEF FeedInv, BeatOK
<1> QED
  BY <1>7, <1>8, <1>9, <1>10 DEF FeedInv

(* ... and by time, by the thread that subscribes and by stop.             *)

LEMMA Inv_HalfPasses ==
  ASSUME FeedInv, HalfPasses PROVE FeedInv'
<1>1. /\ phase = "up" /\ beat < 2 /\ (beat = 1 => wire = <<>>)
      /\ beat' = beat + 1 /\ age' = age + 1
      /\ pend' = [c \in Channels |-> IF pend[c] = "fresh" THEN "old" ELSE pend[c]]
      /\ UNCHANGED <<market, link, srv, wire, phase, subs, posted, caller, book, seen, left>>
  BY DEF HalfPasses
<1>2. /\ beat' \in 0..2 /\ age' \in Nat
      /\ pend' \in [Channels -> {"none", "fresh", "old"}]
  BY <1>1 DEF FeedInv, FeedTypeOK
<1>3. FeedTypeOK'
  BY <1>1, <1>2 DEF FeedInv, FeedTypeOK
<1>4. WireOK' /\ BookOK'
  BY <1>1 DEF FeedInv, WireOK, InOrder, IsBook, BookOK
<1>5. BeatOK'
  <2>1. beat \in 0..1 /\ age \in Nat /\ seen.beats \in Nat
    BY <1>1 DEF FeedInv, FeedTypeOK
  <2>2. beat' = 2 => NoPong'
    BY <1>1, <2>1 DEF NoPong
  <2>3. NoPong => NoPong'
    BY <1>1 DEF NoPong
  <2>4. seen.beats > 0 => age' >= 2 * (seen.beats - 1) + beat'
    <3> SUFFICES ASSUME seen.beats > 0 PROVE age' >= 2 * (seen.beats - 1) + beat'
      OBVIOUS
    <3>1. age >= 2 * (seen.beats - 1) + beat
      BY DEF FeedInv, BeatOK
    <3> QED
      BY <1>1, <2>1, <3>1
  <2> QED
    BY <1>1, <2>2, <2>3, <2>4 DEF FeedInv, BeatOK
<1> QED
  BY <1>3, <1>4, <1>5 DEF FeedInv

LEMMA Inv_Subscribe ==
  ASSUME FeedInv, SubscribePush \/ SubscribeCheck PROVE FeedInv'
<1>1. UNCHANGED <<market, link, srv, wire, phase, pend, beat, age, book, seen, left>>
  BY DEF SubscribePush, SubscribeCheck
<1>2. caller.todo # <<>> /\ caller.todo \in Seq(Channels)
  BY DEF SubscribePush, SubscribeCheck, FeedInv, FeedTypeOK
<1>3. Head(caller.todo) \in Channels /\ Tail(caller.todo) \in Seq(Channels)
  BY <1>2, HeadTailProperties
<1>4. subs' \subseteq Channels /\ posted' \subseteq Channels
  BY <1>3 DEF SubscribePush, SubscribeCheck, FeedInv, FeedTypeOK
<1>5. /\ caller' = [todo |-> caller'.todo, step |-> caller'.step]
      /\ caller'.todo \in Seq(Channels)
      /\ caller'.step \in {"push", "check"}
      /\ caller'.step = "check" => caller'.todo # <<>>
  <2>1. caller = [todo |-> caller.todo, step |-> caller.step]
    BY DEF FeedInv, FeedTypeOK
  <2>2. CASE SubscribePush
    <3>1. caller' = [todo |-> caller.todo, step |-> "check"]
      BY <2>1, <2>2 DEF SubscribePush
    <3> QED
      BY <1>2, <3>1
  <2>3. CASE SubscribeCheck
    <3>1. caller' = [todo |-> Tail(caller.todo), step |-> "push"]
      BY <2>3 DEF SubscribeCheck
    <3> QED
      BY <1>3, <3>1
  <2> QED
    BY <2>2, <2>3
<1>6. FeedTypeOK'
  BY <1>1, <1>4, <1>5 DEF FeedInv, FeedTypeOK
<1>7. WireOK' /\ BookOK' /\ BeatOK'
  BY <1>1 DEF FeedInv, WireOK, InOrder, IsBook, BookOK, BeatOK, NoPong
<1> QED
  BY <1>6, <1>7 DEF FeedInv

LEMMA Inv_Stop ==
  ASSUME FeedInv, StopFeed PROVE FeedInv'
<1>1. /\ phase' = "off" /\ srv' = {} /\ wire' = <<>> /\ posted' = {}
      /\ UNCHANGED <<market, link, subs, pend, caller, beat, age, book, seen, left>>
  BY DEF StopFeed
<1>2. FeedTypeOK'
  BY <1>1, EmptySeq DEF FeedInv, FeedTypeOK
<1>3. WireOK' /\ BookOK'
  BY <1>1 DEF FeedInv, WireOK, InOrder, BookOK
<1>4. BeatOK'
  BY <1>1 DEF FeedInv, BeatOK, NoPong
<1> QED
  BY <1>2, <1>3, <1>4 DEF FeedInv

-----------------------------------------------------------------------------
LEMMA Inv_Init == Init => FeedInv
<1> SUFFICES ASSUME Init PROVE FeedInv
  OBVIOUS
<1>1. PICK k \in Markets :
        /\ market = [tape |-> k.tape, push |-> k.push, at |-> market.at]
        /\ market.at \in {1, Len(k.tape)}
  BY DEF Init, FeedInit
<1>2. /\ market = [tape |-> market.tape, push |-> market.push, at |-> market.at]
      /\ market.tape \in Tapes /\ market.push \in {"snapshots", "deltas"}
      /\ market.at \in 1..Len(market.tape) /\ market.at \in Nat
  <2>1. market.tape = k.tape /\ market.push = k.push
    BY <1>1
  <2>2. k.push \in {"snapshots", "deltas"} /\ Len(k.tape) \in Nat \ {0}
    BY TapeAssumption, LenProperties
  <2>3. k.tape \in Tapes
    BY DEF Tapes
  <2>4. market.at \in 1..Len(market.tape) /\ market.at \in Nat
    BY <1>1, <2>1, <2>2
  <2>5. market = [tape |-> market.tape, push |-> market.push, at |-> market.at]
    BY <1>1, <2>1
  <2> QED
    BY <2>1, <2>2, <2>3, <2>4, <2>5
<1>3. /\ caller.todo \in Seq(Channels) /\ caller.step = "push"
      /\ caller = [todo |-> caller.todo, step |-> caller.step]
      /\ left \in [breaks : Nat, ignored : Nat]
  <2>1. /\ MaxBreaks \in Nat /\ MaxIgnored \in Nat
        /\ ChannelList \in Seq(Channels) /\ <<>> \in Seq(Channels)
    BY FeedAssumption, EmptySeq
  <2>2. CASE FeedInit
    <3>1. /\ caller = [todo |-> ChannelList, step |-> "push"]
          /\ left = [breaks |-> MaxBreaks, ignored |-> MaxIgnored]
      BY <2>2 DEF FeedInit
    <3> QED
      BY <2>1, <3>1
  <2>3. CASE ~FeedInit
    <3>1. /\ caller = [todo |-> <<>>, step |-> "push"]
          /\ left = [breaks |-> 0, ignored |-> 0]
      BY <2>3 DEF Init
    <3> QED
      BY <2>1, <3>1
  <2> QED
    BY <2>2, <2>3
<1>4. /\ link = "ok" /\ srv = {} /\ wire = <<>> /\ phase \in {"connecting", "off"}
      /\ subs = {} /\ posted = {} /\ pend = [c \in Channels |-> "none"]
      /\ beat = 0 /\ age = 0 /\ book = NewBook
      /\ seen = [since |-> 0, newest |-> 0, beats |-> 0]
  BY DEF Init, FeedInit
<1>5. FeedTypeOK
  BY <1>1, <1>2, <1>3, <1>4, EmptySeq DEF FeedTypeOK
<1>6. WireOK /\ BookOK /\ BeatOK
  BY <1>2, <1>4 DEF WireOK, InOrder, BookOK, BeatOK
<1> QED
  BY <1>5, <1>6 DEF FeedInv

LEMMA Inv_Next == FeedInv /\ [Next]_<<feedVars, privateVars>> => FeedInv'
<1> SUFFICES ASSUME FeedInv, [Next]_<<feedVars, privateVars>> PROVE FeedInv'
  OBVIOUS
<1>1. CASE UNCHANGED feedVars
  BY <1>1 DEF feedVars, FeedInv, FeedTypeOK, WireOK, InOrder, IsBook, BookOK, BeatOK, NoPong
<1>2. ASSUME LinkError \/ HeartbeatTimeout PROVE FeedInv'
  BY <1>2, Inv_Disconnect DEF LinkError, HeartbeatTimeout
<1>3. CASE FeedNext
  BY <1>2, <1>3, Inv_Trade, Inv_Break, Inv_Connect, Inv_SendSubscriptions, Inv_Heartbeat,
     Inv_DoSubscribe, Inv_Read, Inv_Book, Inv_HalfPasses, Inv_Subscribe, Inv_Stop
     DEF FeedNext
<1> QED
  BY <1>1, <1>3 DEF Next

(* The book and the wire of the public feed keep their types, whichever    *)
(* links break and whichever requests are not answered.                    *)
THEOREM FeedTypeCorrect == Spec => []FeedTypeOK
<1>1. FeedInv => FeedTypeOK
  BY DEF FeedInv
<1> QED
  BY <1>1, Inv_Init, Inv_Next, PTL DEF Spec

(* apply_snapshot, apply_delta and the withdrawal in on_connection_changed:*)
(* for any tapes, channels and breaks, depth that the features read comes  *)
(* from a valid book of the connection that is up, or was up at stop().    *)
THEOREM DepthIsNotStale == Spec => []NoStaleDepth
<1>1. FeedInv => NoStaleDepth
  BY DEF FeedInv, BookOK, NoStaleDepth, HasDepth, NewBook, EmptySide
<1> QED
  BY <1>1, Inv_Init, Inv_Next, PTL DEF Spec

(* schedule_heartbeat: for any breaks and any traffic before it, a link    *)
(* that dies without a word is given up at the third heartbeat after its   *)
(* death at the latest.                                                    *)
THEOREM DeadLinkIsNoticed == Spec => []DeadLinkNoticed
<1>1. FeedInv => DeadLinkNoticed
  <2> SUFFICES ASSUME FeedInv PROVE DeadLinkNoticed
    OBVIOUS
  <2>1. seen.beats \in Nat
    BY DEF FeedInv, FeedTypeOK
  <2> QED
    BY <2>1 DEF FeedInv, BeatOK, DeadLinkNoticed
<1> QED
  BY <1>1, Inv_Init, Inv_Next, PTL DEF Spec

-----------------------------------------------------------------------------
(* The refinement.                                                         *)

Past == SubSeq(market.tape, 1, market.at)

LEMMA PastFacts ==
  ASSUME FeedTypeOK
  PROVE  /\ Past \in Seq(Range(market.tape))
         /\ Len(Past) = market.at /\ DOMAIN Past = 1..market.at
         /\ \A i \in 1..market.at : Past[i] = market.tape[i]
<1>1. /\ market.at \in 1..Len(market.tape) /\ Len(market.tape) \in Nat
      /\ \A i \in 1..market.at : market.tape[i] \in Range(market.tape)
  BY TapeFacts DEF FeedTypeOK
<1>2. /\ Past \in Seq(Range(market.tape))
      /\ Len(Past) = market.at
      /\ \A i \in 1..market.at : Past[i] = market.tape[i]
  <2>1. /\ market.tape \in Seq(Range(market.tape)) /\ 1 \in 1..(Len(market.tape) + 1)
        /\ market.at \in 0..Len(market.tape)
        /\ \A i \in 1..market.at : market.tape[i] \in Range(market.tape)
    BY <1>1, TapeFacts DEF FeedTypeOK
  <2> QED
    BY <1>1, <2>1 DEF Past
<1> QED
  BY <1>2, LenProperties

(* The tape that the exchange has come by grows by one of its books.       *)
LEMMA TradeMaps ==
  ASSUME FeedInv, Trade
  PROVE  \E b \in UNION {Range(k.tape) : k \in Markets} : Mirror!Trade(b)
<1> DEFINE b == market.tape[market.at + 1]
<1>1. /\ market.at \in Nat /\ market.at + 1 \in 1..Len(market.tape)
      /\ Len(market.tape) \in Nat
  BY TapeFacts DEF Trade, FeedInv, FeedTypeOK
<1>2. market'.tape = market.tape /\ market'.at = market.at + 1
  BY DEF Trade, FeedInv, FeedTypeOK
<1>3. b \in Range(market.tape) /\ market.tape \in Seq(Range(market.tape))
  BY <1>1, TapeFacts DEF FeedInv, FeedTypeOK
<1>4. b \in UNION {Range(k.tape) : k \in Markets}
  BY <1>3 DEF FeedInv, FeedTypeOK, Tapes
<1>5. Past' = Append(Past, b)
  <2>1. Past' = SubSeq(market.tape, 1, market.at + 1)
    BY <1>2 DEF Past
  <2> DEFINE tape == market.tape
             n == market.at + 1
  <2>2. /\ n \in Int /\ 1 <= n /\ n - 1 = market.at
        /\ \A i \in 1..n : tape[i] \in Range(tape)
    BY <1>1, TapeFacts DEF FeedInv, FeedTypeOK
  <2> HIDE DEF tape, n
  <2>3. SubSeq(tape, 1, n) = SubSeq(tape, 1, n - 1) \o <<tape[n]>>
    BY <2>2, SubSeqRecursiveSecond
  <2>4. Past' = Past \o <<b>>
    BY <2>1, <2>2, <2>3 DEF Past, tape, n
  <2> QED
    BY <1>3, <2>4, PastFacts, AppendIsConcat DEF FeedInv
<1>6. UNCHANGED <<Shown, seen.newest>>
  BY DEF Trade, Shown
<1> QED
  BY <1>4, <1>5, <1>6 DEF Mirror!Trade, Past

(* What the reader is shown is in the tape when it comes from there.       *)
LEMMA ShownPlace ==
  ASSUME FeedTypeOK, NEW i \in 1..market.at, ShowsPlace(i)
  PROVE  Shown' = Past[i]
<1>1. /\ i \in 1..Len(market.tape)
      /\ market.tape[i] = [bids |-> market.tape[i].bids, asks |-> market.tape[i].asks]
  BY TapeFacts DEF FeedTypeOK
<1>2. Shown' = [bids |-> market.tape[i].bids, asks |-> market.tape[i].asks]
  BY DEF ShowsPlace, Shown
<1>3. Past[i] = market.tape[i]
  BY PastFacts
<1> QED
  BY <1>1, <1>2, <1>3

LEMMA ReadMaps ==
  ASSUME FeedInv, OnBookMessage
  PROVE  [Mirror!Next]_<<Past, Shown, seen.newest>>
<1>1. UNCHANGED market
  BY DEF OnBookMessage
<1>2. Past' = Past
  BY <1>1 DEF Past
<1>3. \/ book' = book /\ seen'.newest = seen.newest
      \/ book' = NewBook /\ seen'.newest = seen.newest
      \/ \E i \in 1..market.at : seen.newest <= i /\ ShowsPlace(i)
  BY BookRead DEF FeedInv, WireOK
<1>4. CASE book' = book /\ seen'.newest = seen.newest
  BY <1>2, <1>4 DEF Shown
<1>5. CASE book' = NewBook /\ seen'.newest = seen.newest
  <2>1. Shown' = Nothing
    BY <1>5 DEF Shown, NewBook
  <2>2. Mirror!Withdraw
    BY <1>2, <1>5, <2>1 DEF Mirror!Withdraw, Past
  <2> QED
    BY <2>2 DEF Mirror!Next
<1>6. ASSUME NEW i \in 1..market.at, seen.newest <= i, ShowsPlace(i)
      PROVE  Mirror!Next
  <2>1. Shown' = Past[i] /\ seen'.newest = i
    BY <1>6, ShownPlace DEF FeedInv, ShowsPlace
  <2>2. Mirror!Show(i)
    BY <1>2, <1>6, <2>1 DEF Mirror!Show, Past
  <2>3. i \in DOMAIN Past
    BY <1>6, PastFacts DEF FeedInv
  <2> QED
    BY <2>2, <2>3 DEF Mirror!Next, Past
<1> QED
  BY <1>3, <1>4, <1>5, <1>6

LEMMA DisconnectMaps ==
  ASSUME FeedInv, HandleDisconnect, UNCHANGED market
  PROVE  Mirror!Withdraw
<1>1. book' = NewBook /\ seen'.newest = seen.newest
  BY DEF HandleDisconnect, AfterDisconnect, RequestResync, FeedInv, FeedTypeOK
<1>2. Shown' = Nothing
  BY <1>1 DEF Shown, NewBook
<1> QED
  BY <1>1, <1>2 DEF Mirror!Withdraw

(* Every step of the feed is a step of the mirror, or none.                *)
LEMMA StepMaps ==
  ASSUME FeedInv, [Next]_<<feedVars, privateVars>>
  PROVE  [Mirror!Next]_<<Past, Shown, seen.newest>>
<1> DEFINE Same == UNCHANGED market /\ UNCHANGED book /\ seen'.newest = seen.newest
<1>1. ASSUME Same PROVE UNCHANGED <<Past, Shown, seen.newest>>
  BY <1>1 DEF Past, Shown
<1>2. CASE UNCHANGED feedVars
  BY <1>1, <1>2 DEF feedVars
<1>3. CASE Trade
  BY <1>3, TradeMaps DEF Mirror!Next
<1>4. CASE OnBookMessage
  BY <1>4, ReadMaps
<1>5. CASE LinkError \/ HeartbeatTimeout
  BY <1>5, DisconnectMaps DEF Mirror!Next, LinkError, HeartbeatTimeout
<1>6. CASE OnWsHandshake
  BY <1>1, <1>6 DEF OnWsHandshake, FeedInv, FeedTypeOK
<1>7. CASE \E ignored \in SUBSET subs : Heartbeat(ignored)
  BY <1>1, <1>7 DEF Heartbeat, FeedInv, FeedTypeOK
<1>8. CASE \/ \E how \in {"dead", "reset"} : Break(how)
           \/ AttemptFails \/ Reconnect \/ OnPong \/ OnSubscribed \/ HalfPasses
           \/ SubscribePush \/ SubscribeCheck \/ StopFeed
           \/ \E ignored \in SUBSET subs : SendSubscriptions(ignored)
           \/ \E c \in Channels : \E ignored \in SUBSET {c} : DoSubscribe(c, ignored)
  <2>1. Same
    BY <1>8 DEF Break, AttemptFails, Reconnect, OnPong, OnSubscribed, HalfPasses, SubscribePush,
                SubscribeCheck, StopFeed, SendSubscriptions, DoSubscribe
  <2> QED
    BY <1>1, <2>1
<1> QED
  BY <1>2, <1>3, <1>4, <1>5, <1>6, <1>7, <1>8 DEF Next, FeedNext

(* LocalOrderBook behind the normalizer and the gateway: for any tapes and *)
(* whatever breaks, what the features can read is nothing, or a book that  *)
(* the exchange really had, never a mixture, and never an older one than   *)
(* the last.                                                               *)
THEOREM BookIsMirrored == Spec => MirrorsExchange
<1>1. Init => Mirror!Init
  <2> SUFFICES ASSUME Init PROVE Mirror!Init
    OBVIOUS
  <2>1. FeedTypeOK /\ book = NewBook /\ seen.newest = 0
    BY Inv_Init DEF FeedInv, Init, FeedInit
  <2>2. Len(Past) = market.at /\ market.at > 0
    BY <2>1, PastFacts, TapeFacts DEF FeedTypeOK
  <2>3. Shown = Nothing
    BY <2>1 DEF Shown, NewBook
  <2> QED
    BY <2>1, <2>2, <2>3 DEF Mirror!Init, Past
<1>2. FeedInv /\ [Next]_<<feedVars, privateVars>>
        => [Mirror!Next]_<<SubSeq(market.tape, 1, market.at), Shown, seen.newest>>
  BY StepMaps DEF Past
<1> QED
  BY <1>1, <1>2, Inv_Init, Inv_Next, PTL DEF Spec, MirrorsExchange, Mirror!Spec
=============================================================================
