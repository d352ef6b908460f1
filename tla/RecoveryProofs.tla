--------------------------- MODULE RecoveryProofs ---------------------------
(***************************************************************************)
(* Proof that no leg the portfolio has taken over from the exchange is     *)
(* lost again, for any legs and any number of pipelines, crashes, faults   *)
(* and trades.                                                             *)
(*                                                                         *)
(* NothingLost is not inductive: what a pipeline applies was fetched some  *)
(* steps earlier. The invariant relates what has been fetched and has not  *)
(* moved since (valid) with the exchange: its size is the fetched one, or  *)
(* zero for a leg the reply does not list.                                 *)
(***************************************************************************)
EXTENDS Recovery, TLAPS

Places == InConstructor \cup {"off", "ready", "starting", "up", "failed"}

Budgets == [ends : Nat, faults : Nat, trades : Nat]

TypeOK ==
  /\ exch \in [Legs -> Nat]
  /\ local \in [Legs -> Nat]
  /\ snap = NoSnapshot \/ snap \in [Legs -> Nat]
  /\ pipe \in [Symbols -> Places]
  /\ known \subseteq Legs
  /\ left \in Budgets

(* A reply of get_open_positions that has not been applied yet: sizes of    *)
(* legs of this symbol, and those of which the exchange has not moved since *)
Reply(s) ==
  /\ fetched[s] = [sizes |-> fetched[s].sizes, valid |-> fetched[s].valid]
  /\ DOMAIN fetched[s].sizes \subseteq LegsOf(s)
  /\ \A l \in DOMAIN fetched[s].sizes : fetched[s].sizes[l] \in Nat
  /\ fetched[s].valid \subseteq LegsOf(s)

(* what is still valid of a reply is what the exchange has *)
UpToDate(s) ==
  \A l \in fetched[s].valid :
    IF l \in DOMAIN fetched[s].sizes THEN exch[l] = fetched[s].sizes[l] ELSE exch[l] = 0

(* recover_on_startup only takes the legs that the reply lists *)
OnlyListed(s) ==
  pipe[s] = "positions" => fetched[s].valid \subseteq DOMAIN fetched[s].sizes

FetchedOK ==
  /\ DOMAIN fetched = Symbols
  /\ \A s \in Symbols : Reply(s) /\ UpToDate(s) /\ OnlyListed(s)

IInv == TypeOK /\ FetchedOK /\ NothingLost

-----------------------------------------------------------------------------
(* A leg is a leg of its symbol.                                            *)
LEMMA LegsBySymbol ==
  /\ \A l \in Legs : l[1] \in Symbols /\ l \in LegsOf(l[1])
  /\ \A s \in Symbols : LegsOf(s) \subseteq Legs
  BY DEF Symbols, LegsOf

(* The budgets stay natural numbers, and nothing else pays for them.        *)
LEMMA SpendTyped ==
  ASSUME TypeOK, NEW what \in {"ends", "faults", "trades"}, Spend(what)
  PROVE  left' \in Budgets
  BY DEF TypeOK, Spend, Budgets

LEMMA JournalTyped ==
  ASSUME TypeOK, NEW event, NEW l, Journalled(event, l)
  PROVE  left' \in Budgets
<1>1. CASE Spend("trades")
  BY <1>1, SpendTyped
<1>2. CASE /\ left.trades > 0 /\ left.faults > 0
           /\ left' = [left EXCEPT !.faults = @ - 1, !.trades = @ - 1]
  <2> DEFINE paid == [left EXCEPT !.faults = left.faults - 1]
  <2>1. paid \in Budgets /\ paid.trades = left.trades
    BY <1>2 DEF TypeOK, Budgets
  <2>2. left' = [paid EXCEPT !.trades = paid.trades - 1]
    BY <1>2, <2>1 DEF TypeOK, Budgets
  <2> HIDE DEF paid
  <2>3. QED
    BY <1>2, <2>1, <2>2 DEF Budgets
<1>3. QED
  BY <1>1, <1>2 DEF Journalled

(* The stamps of the journal are later than what clock_->now() asks for, so *)
(* a replay changes nothing.                                                *)
LEMMA WindowIsEmpty == JournalWindow = <<>>
  BY RecoveryAssumption DEF JournalWindow

LEMMA ReplayIsIdentity ==
  ASSUME TypeOK
  PROVE  Replayed(local, JournalWindow) = local
<1>1. Range(<<>>) = {}
  BY DEF Range
<1>2. QED
  BY <1>1, WindowIsEmpty DEF Replayed, TypeOK

(* A step that leaves the exchange and the replies alone, and brings no     *)
(* pipeline to "positions", keeps what is known of the replies.             *)
LEMMA RepliesKept ==
  ASSUME TypeOK, FetchedOK, UNCHANGED <<exch, fetched>>,
         \A s \in Symbols : pipe'[s] = "positions" => pipe[s] = "positions"
  PROVE  FetchedOK'
  BY DEF FetchedOK, Reply, UpToDate, OnlyListed

(* One pipeline forgets its reply and goes somewhere else.                  *)
LEMMA ReplyConsumed ==
  ASSUME TypeOK, FetchedOK, NEW s \in Symbols, NEW place,
         place # "positions", UNCHANGED exch,
         fetched' = [fetched EXCEPT ![s] = NoFetch],
         pipe' = [pipe EXCEPT ![s] = place]
  PROVE  FetchedOK'
<1>1. DOMAIN fetched' = Symbols
  BY DEF FetchedOK
<1>2. ASSUME NEW r \in Symbols PROVE (Reply(r) /\ UpToDate(r) /\ OnlyListed(r))'
  <2>1. CASE r = s
    <3>1. fetched'[r] = NoFetch /\ pipe'[r] = place
      BY <2>1 DEF FetchedOK, TypeOK
    <3>2. fetched'[r].sizes = NoSnapshot /\ fetched'[r].valid = {} /\ DOMAIN NoSnapshot = {}
      BY <3>1 DEF NoFetch, NoSnapshot
    <3>3. fetched'[r] = [sizes |-> fetched'[r].sizes, valid |-> fetched'[r].valid]
      BY <3>1, <3>2 DEF NoFetch
    <3>4. QED
      BY <3>1, <3>2, <3>3 DEF Reply, UpToDate, OnlyListed
  <2>2. CASE r # s
    <3>1. fetched'[r] = fetched[r] /\ pipe'[r] = pipe[r]
      BY <2>2 DEF FetchedOK, TypeOK
    <3>2. QED
      BY <3>1 DEF FetchedOK, Reply, UpToDate, OnlyListed
  <2>3. QED
    BY <2>1, <2>2
<1>3. QED
  BY <1>1, <1>2 DEF FetchedOK

(* One pipeline gets a reply.                                               *)
LEMMA ReplyFetched ==
  ASSUME TypeOK, FetchedOK, NEW s \in Symbols, NEW held \in SUBSET LegsOf(s),
         NEW valid \in SUBSET LegsOf(s), NEW place, UNCHANGED exch,
         \A l \in valid \ held : exch[l] = 0,
         place = "positions" => valid \subseteq held,
         fetched' = [fetched EXCEPT ![s] = [sizes |-> [l \in held |-> exch[l]], valid |-> valid]],
         pipe' = [pipe EXCEPT ![s] = place]
  PROVE  FetchedOK'
<1>1. DOMAIN fetched' = Symbols
  BY DEF FetchedOK
<1>2. ASSUME NEW r \in Symbols PROVE (Reply(r) /\ UpToDate(r) /\ OnlyListed(r))'
  <2>1. CASE r = s
    <3>1. fetched'[r] = [sizes |-> [l \in held |-> exch[l]], valid |-> valid] /\ pipe'[r] = place
      BY <2>1 DEF FetchedOK, TypeOK
    <3>2. fetched'[r].sizes = [l \in held |-> exch[l]] /\ fetched'[r].valid = valid
      BY <3>1
    <3>3. DOMAIN fetched'[r].sizes = held /\ \A l \in held : fetched'[r].sizes[l] = exch[l]
      BY <3>2
    <3>4. Reply(r)'
      BY <3>1, <3>2, <3>3, <2>1, LegsBySymbol DEF Reply, TypeOK
    <3>5. UpToDate(r)'
      BY <3>2, <3>3, <2>1 DEF UpToDate
    <3>6. OnlyListed(r)'
      BY <3>1, <3>2, <3>3 DEF OnlyListed
    <3>7. QED
      BY <3>4, <3>5, <3>6
  <2>2. CASE r # s
    <3>1. fetched'[r] = fetched[r] /\ pipe'[r] = pipe[r]
      BY <2>2 DEF FetchedOK, TypeOK
    <3>2. QED
      BY <3>1 DEF FetchedOK, Reply, UpToDate, OnlyListed
  <2>3. QED
    BY <2>1, <2>2
<1>3. QED
  BY <1>1, <1>2 DEF FetchedOK

(* A leg that moves on the exchange is valid in no reply any more.          *)
LEMMA LegMoved ==
  ASSUME TypeOK, FetchedOK, NEW l \in Legs, NEW n \in Nat, Moved(l),
         exch' = [exch EXCEPT ![l] = n], UNCHANGED pipe
  PROVE  FetchedOK'
<1>1. DOMAIN fetched' = Symbols
  BY DEF Moved
<1>2. ASSUME NEW r \in Symbols PROVE (Reply(r) /\ UpToDate(r) /\ OnlyListed(r))'
  <2>1. /\ fetched'[r].sizes = fetched[r].sizes
        /\ fetched'[r].valid = fetched[r].valid \ {l}
        /\ fetched'[r] = [sizes |-> fetched'[r].sizes, valid |-> fetched'[r].valid]
    <3> DEFINE sizes == fetched[r].sizes
               valid == fetched[r].valid
    <3>1. fetched[r] = [sizes |-> sizes, valid |-> valid]
      BY DEF FetchedOK, Reply
    <3>2. fetched'[r] = [fetched[r] EXCEPT !.valid = valid \ {l}]
      BY DEF Moved
    <3> HIDE DEF sizes, valid
    <3>3. fetched'[r] = [sizes |-> sizes, valid |-> valid \ {l}]
      BY <3>1, <3>2
    <3>4. fetched'[r].sizes = sizes /\ fetched'[r].valid = valid \ {l}
      BY <3>3
    <3>5. QED
      BY <3>3, <3>4 DEF sizes, valid
  <2>2. \A k \in Legs \ {l} : exch'[k] = exch[k]
    BY DEF TypeOK
  <2>3. Reply(r) /\ UpToDate(r) /\ OnlyListed(r)
    BY DEF FetchedOK
  <2>4. QED
    BY <2>1, <2>2, <2>3, LegsBySymbol DEF Reply, UpToDate, OnlyListed
<1>3. QED
  BY <1>1, <1>2 DEF FetchedOK

-----------------------------------------------------------------------------
LEMMA InitIInv == Init => IInv
<1>1. Init => TypeOK
  BY RecoveryAssumption DEF Init, TypeOK, Empty, NoSnapshot, Places, Budgets
<1>2. Init => FetchedOK
  BY DEF Init, FetchedOK, Reply, UpToDate, OnlyListed, NoFetch, NoSnapshot
<1>3. Init => NothingLost
  BY DEF Init, NothingLost
<1>4. QED
  BY <1>1, <1>2, <1>3 DEF IInv

LEMMA ExchangeMovesIInv ==
  ASSUME IInv, NEW l \in Legs, NEW n \in 0..MaxSize, ExchangeMoves(l, n)
  PROVE  IInv'
<1>1. n \in Nat
  BY RecoveryAssumption
<1>2. TypeOK'
  BY <1>1, SpendTyped DEF IInv, ExchangeMoves, TypeOK, Moved
<1>3. FetchedOK'
  BY <1>1, LegMoved DEF IInv, ExchangeMoves
<1>4. NothingLost'
  BY <1>1 DEF IInv, ExchangeMoves, TypeOK, NothingLost, Moved
<1>5. QED
  BY <1>2, <1>3, <1>4 DEF IInv

LEMMA BotTradesIInv ==
  ASSUME IInv, NEW l \in Legs, BotOpens(l) \/ BotCloses(l)
  PROVE  IInv'
<1>1. PICK n \in Nat : exch' = [exch EXCEPT ![l] = n]
  BY DEF IInv, TypeOK, BotOpens, BotCloses
<1>2. PICK m \in Nat : local' = [local EXCEPT ![l] = m]
  BY DEF IInv, TypeOK, BotOpens, BotCloses
<1>3. Moved(l) /\ UNCHANGED <<snap, pipe>>
  BY DEF BotOpens, BotCloses
<1>4. TypeOK'
  BY <1>1, <1>2, <1>3, JournalTyped DEF IInv, TypeOK, Moved, BotOpens, BotCloses
<1>5. FetchedOK'
  BY <1>1, <1>3, LegMoved DEF IInv
<1>6. NothingLost'
  BY <1>1, <1>2, <1>3 DEF IInv, TypeOK, NothingLost, Moved
<1>7. QED
  BY <1>4, <1>5, <1>6 DEF IInv

(* SaveSnapshot, Construct, NoRestore, FetchFails, Start and                *)
(* StartWithoutSync leave the portfolio and the exchange alone.             *)
LEMMA QuietStepIInv ==
  ASSUME IInv, NEW s \in Symbols, NEW place \in Places \ {"positions"},
         pipe' = pipe \/ pipe' = [pipe EXCEPT ![s] = place],
         UNCHANGED <<exch, local, fetched, known>>,
         snap' = snap \/ snap' = local,
         left' \in Budgets
  PROVE  IInv'
<1>1. TypeOK'
  BY DEF IInv, TypeOK
<1>2. FetchedOK'
  BY RepliesKept DEF IInv, TypeOK
<1>3. NothingLost'
  BY DEF IInv, NothingLost
<1>4. QED
  BY <1>1, <1>2, <1>3 DEF IInv

LEMMA RestoreIInv ==
  ASSUME IInv, NEW s \in Symbols, RestoreSnapshot(s)
  PROVE  IInv'
<1>1. snap \in [Legs -> Nat]
  BY DEF IInv, TypeOK, RestoreSnapshot
<1>2. local' \in [Legs -> Nat] /\ \A l \in Legs : local'[l] >= local[l]
  BY <1>1 DEF IInv, TypeOK, RestoreSnapshot, Restored
<1>3. TypeOK'
  BY <1>2 DEF IInv, TypeOK, RestoreSnapshot, Places, InConstructor
<1>4. FetchedOK'
  BY RepliesKept DEF IInv, TypeOK, RestoreSnapshot
<1>5. NothingLost'
  BY <1>2 DEF IInv, TypeOK, RestoreSnapshot, NothingLost
<1>6. QED
  BY <1>3, <1>4, <1>5 DEF IInv

LEMMA ReplayIInv ==
  ASSUME IInv, NEW s \in Symbols, ReplayJournal(s)
  PROVE  IInv'
<1>1. local' = local
  BY ReplayIsIdentity DEF IInv, ReplayJournal
<1>2. left' \in Budgets
  BY SpendTyped DEF IInv, TypeOK, ReplayJournal
<1>3. QED
  BY <1>1, <1>2, QuietStepIInv DEF ReplayJournal, Places, InConstructor

LEMMA FetchIInv ==
  ASSUME IInv, NEW s \in Symbols, FetchPositions(s) \/ SyncFetch(s)
  PROVE  IInv'
<1>1. TypeOK'
  BY DEF IInv, TypeOK, FetchPositions, SyncFetch, Places, InConstructor
<1>2. NothingLost'
  BY DEF IInv, NothingLost, FetchPositions, SyncFetch
<1>3. CASE FetchPositions(s)
  <2> DEFINE held == {k \in LegsOf(s) : exch[k] > 0 /\ exch[k] >= MinPosition}
  <2>1. FetchedOK'
    BY <1>3, ReplyFetched, held \subseteq LegsOf(s) DEF IInv, FetchPositions
  <2>2. QED
    BY <1>1, <1>2, <2>1 DEF IInv
<1>4. CASE SyncFetch(s)
  <2> DEFINE held == {l \in LegsOf(s) : exch[l] > 0}
  <2>1. \A l \in LegsOf(s) \ held : exch[l] = 0
    BY LegsBySymbol DEF IInv, TypeOK
  <2>2. pipe' = [pipe EXCEPT ![s] = pipe[s]] /\ pipe[s] # "positions"
    BY <1>4 DEF IInv, TypeOK, SyncFetch
  <2>3. fetched' = [fetched EXCEPT ![s] = [sizes |-> [l \in held |-> exch[l]],
                                           valid |-> LegsOf(s)]]
    BY <1>4 DEF SyncFetch
  <2>4. held \in SUBSET LegsOf(s) /\ LegsOf(s) \in SUBSET LegsOf(s) /\ UNCHANGED exch
    BY <1>4 DEF SyncFetch
  <2> HIDE DEF held
  <2>5. FetchedOK'
    BY <2>1, <2>2, <2>3, <2>4, ReplyFetched DEF IInv
  <2>6. QED
    BY <1>1, <1>2, <2>5 DEF IInv
<1>5. QED
  BY <1>3, <1>4

(* A reply is applied: the legs that are still valid have the size of the   *)
(* exchange, or none when the exchange has none.                            *)
LEMMA ApplyIInv ==
  ASSUME IInv, NEW s \in Symbols, ApplyPositions(s)
  PROVE  IInv'
<1>1. Reply(s) /\ UpToDate(s) /\ fetched[s].valid \subseteq DOMAIN fetched[s].sizes
  BY DEF IInv, FetchedOK, OnlyListed, ApplyPositions
<1>2. \A l \in Legs : local'[l] = IF l \in DOMAIN fetched[s].sizes
                                 THEN fetched[s].sizes[l] ELSE local[l]
  BY DEF ApplyPositions, Synced
<1>3. local' \in [Legs -> Nat]
  BY <1>1 DEF ApplyPositions, Synced, Reply, IInv, TypeOK
<1>4. known' \subseteq Legs
  BY <1>1, LegsBySymbol DEF ApplyPositions, Reply, IInv, TypeOK
<1>5. TypeOK'
  BY <1>3, <1>4 DEF ApplyPositions, IInv, TypeOK, Places, InConstructor
<1>6. FetchedOK'
  BY ReplyConsumed DEF ApplyPositions, IInv
<1>7. ASSUME NEW l \in known' PROVE local'[l] >= exch'[l]
  <2>1. l \in Legs /\ exch[l] \in Nat /\ exch'[l] = exch[l]
    BY <1>4, <1>7 DEF ApplyPositions, IInv, TypeOK
  <2>2. CASE l \in fetched[s].valid
    BY <2>1, <2>2, <1>1, <1>2 DEF UpToDate
  <2>3. CASE l \notin fetched[s].valid
    BY <2>1, <2>3, <1>2, <1>7 DEF ApplyPositions, IInv, NothingLost
  <2>4. QED
    BY <2>2, <2>3
<1>8. QED
  BY <1>5, <1>6, <1>7 DEF IInv, NothingLost

LEMMA SyncApplyIInv ==
  ASSUME IInv, NEW s \in Symbols, SyncApply(s)
  PROVE  IInv'
<1>1. Reply(s) /\ UpToDate(s)
  BY DEF IInv, FetchedOK
<1>2. local' \in [Legs -> Nat]
  BY <1>1 DEF SyncApply, AfterSync, Synced, Reply, IInv, TypeOK
<1>3. known' \subseteq Legs
  BY <1>1, LegsBySymbol DEF SyncApply, Reply, IInv, TypeOK
<1>4. TypeOK'
  BY <1>2, <1>3 DEF SyncApply, IInv, TypeOK, Places
<1>5. FetchedOK'
  BY ReplyConsumed DEF SyncApply, IInv
<1>6. ASSUME NEW l \in known' PROVE local'[l] >= exch'[l]
  <2>1. l \in Legs /\ exch[l] \in Nat /\ exch'[l] = exch[l] /\ local'[l] \in Nat
    BY <1>2, <1>3, <1>6 DEF SyncApply, IInv, TypeOK
  <2>2. CASE l \in fetched[s].valid /\ l \in DOMAIN fetched[s].sizes
    <3>1. local'[l] = fetched[s].sizes[l]
      BY <2>1, <2>2 DEF SyncApply, AfterSync, Synced
    <3>2. QED
      BY <3>1, <2>1, <2>2, <1>1 DEF UpToDate
  <2>3. CASE l \in fetched[s].valid /\ l \notin DOMAIN fetched[s].sizes
    BY <2>1, <2>3, <1>1 DEF UpToDate
  <2>4. CASE l \notin fetched[s].valid
    <3>1. l \in known /\ l \notin LegsOf(s)
      BY <2>4, <1>6 DEF SyncApply
    <3>2. local'[l] = local[l]
      BY <3>1, <2>1, <1>1 DEF SyncApply, AfterSync, Synced, Reply
    <3>3. QED
      BY <3>1, <3>2, <2>1 DEF IInv, NothingLost
  <2>5. QED
    BY <2>2, <2>3, <2>4
<1>7. QED
  BY <1>4, <1>5, <1>6 DEF IInv, NothingLost

LEMMA StopIInv ==
  ASSUME IInv, NEW s \in Symbols, StopPipeline(s)
  PROVE  IInv'
<1>1. TypeOK'
  BY SpendTyped DEF IInv, TypeOK, StopPipeline, Places
<1>2. FetchedOK'
  BY RepliesKept DEF IInv, TypeOK, StopPipeline
<1>3. NothingLost'
  BY DEF IInv, StopPipeline, NothingLost
<1>4. QED
  BY <1>1, <1>2, <1>3 DEF IInv

LEMMA CrashIInv ==
  ASSUME IInv, Crash
  PROVE  IInv'
<1>1. TypeOK'
  BY SpendTyped DEF IInv, TypeOK, Crash, Places, Empty
<1>2. FetchedOK'
  BY DEF Crash, FetchedOK, Reply, UpToDate, OnlyListed, NoFetch, NoSnapshot
<1>3. NothingLost'
  BY DEF Crash, NothingLost
<1>4. QED
  BY <1>1, <1>2, <1>3 DEF IInv

LEMMA NextIInv == IInv /\ [Next]_vars => IInv'
<1> SUFFICES ASSUME IInv, [Next]_vars PROVE IInv'
  OBVIOUS
<1>1. CASE UNCHANGED vars
  BY <1>1 DEF vars, IInv, TypeOK, FetchedOK, Reply, UpToDate, OnlyListed, NothingLost
<1>2. ASSUME NEW s \in Symbols,
             \/ SaveSnapshot(s) \/ Construct(s) \/ NoRestore(s) \/ Start(s)
             \/ StartWithoutSync(s)
             \/ \E step \in {"failed", "ready"} : FetchFails(s, step)
      PROVE  IInv'
  <2>1. left' \in Budgets
    BY <1>2, SpendTyped
    DEF IInv, TypeOK, SaveSnapshot, Construct, NoRestore, Start, StartWithoutSync, FetchFails
  <2>2. PICK place \in Places \ {"positions"} : pipe' = pipe \/ pipe' = [pipe EXCEPT ![s] = place]
    BY <1>2 DEF SaveSnapshot, Construct, NoRestore, Start, StartWithoutSync, FetchFails,
                Places, InConstructor
  <2>3. UNCHANGED <<exch, local, fetched, known>> /\ (snap' = snap \/ snap' = local)
    BY <1>2 DEF SaveSnapshot, Construct, NoRestore, Start, StartWithoutSync, FetchFails
  <2>4. QED
    BY <2>1, <2>2, <2>3, QuietStepIInv
<1>3. CASE Next
  BY <1>2, <1>3, ExchangeMovesIInv, BotTradesIInv, RestoreIInv, ReplayIInv, FetchIInv,
     ApplyIInv, SyncApplyIInv, StopIInv, CrashIInv DEF Next
<1>4. QED
  BY <1>1, <1>3

(* Whatever pipelines are built, started, stopped and lost in a crash, and  *)
(* however their queries and the trades interleave: a leg that recovery     *)
(* (sync_positions_from_exchange) or a synchronisation                      *)
(* (sync_balance_from_exchange) took over, and that has not moved on the    *)
(* exchange since, is in the portfolio with at least its size. In           *)
(* particular neither the snapshot that another pipeline restores, nor its  *)
(* replay, nor a reply fetched before the trade takes it away.              *)
THEOREM RecoveredIsNotLost == Spec => []NothingLost
<1>1. IInv => NothingLost
  BY DEF IInv
<1>2. QED
  BY <1>1, InitIInv, NextIInv, PTL DEF Spec

(* The sizes the portfolio, the snapshot and the exchange hold are natural  *)
(* numbers and what is fetched belongs to the symbol it was asked for.      *)
THEOREM RecoveryTypeCorrect == Spec => [](TypeOK /\ FetchedOK)
<1>1. IInv => TypeOK /\ FetchedOK
  BY DEF IInv
<1>2. QED
  BY <1>1, InitIInv, NextIInv, PTL DEF Spec
=============================================================================
