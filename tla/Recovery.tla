------------------------------ MODULE Recovery ------------------------------
(***************************************************************************)
(* How the portfolio is rebuilt after a crash: the snapshots and the       *)
(* journal (persistence/), RecoveryService::recover_on_startup, which the  *)
(* constructor of every pipeline runs, and sync_balance_from_exchange,     *)
(* which start() and then a periodic job run.                              *)
(*                                                                         *)
(* The portfolio is shared by the pipelines and lives in memory; the disk  *)
(* and the exchange outlive a crash. Positions are kept by leg, a symbol   *)
(* and a side; of a position only the size matters here. Pipelines are     *)
(* built by one thread, one at a time, also while others run (rotation);   *)
(* the periodic synchronisations run in the REST pool.                     *)
(*                                                                         *)
(* Journal entries and snapshots are stamped with the system clock, while  *)
(* IClock::now(), which bounds the queries, is steady_clock, the time      *)
(* since the machine was started.                                          *)
(***************************************************************************)
EXTENDS Naturals, Sequences, FiniteSets, SequencesExt

CONSTANTS
  Legs,          \* the legs, pairs of a symbol and a side
  MaxSize,       \* bound: size of a leg on the exchange
  MinPosition,   \* min_position_value_usd, as a size: what is less is dust
  SystemTime,    \* the stamps of this behaviour, by the system clock ...
  Uptime,        \* ... and by steady_clock
  MaxEnds,       \* bound: crashes, and pipelines that a rotation stops
  MaxFaults,     \* bound: queries and writes that fail
  MaxTrades,     \* bound: changes of a leg on the exchange
  MaxJournal     \* bound: journal entries since the last snapshot

Symbols == {l[1] : l \in Legs}

LegsOf(s) == {l \in Legs : l[1] = s}

ASSUME RecoveryAssumption ==
  /\ IsFiniteSet(Legs)
  /\ \A l \in Legs : l = <<l[1], l[2]>>
  /\ MaxSize \in Nat \ {0}
  /\ Uptime < SystemTime
  /\ {MinPosition, SystemTime, Uptime, MaxEnds, MaxFaults, MaxTrades, MaxJournal} \subseteq Nat

VARIABLES
  exch,      \* the exchange: size of each leg
  local,     \* the portfolio: size of each leg, 0 for none
  snap,      \* disk: sizes in the newest snapshot, or NoSnapshot
  journal,   \* disk: events after the newest snapshot
  pipe,      \* where each pipeline is: off, the steps of its constructor,
             \* ready, starting, up, failed
  fetched,   \* the positions a pipeline has asked for and not yet applied
  known,     \* history: legs taken over from the exchange that have not
             \* changed there since
  left       \* crashes and stops, faults and trades that may still happen

vars == <<exch, local, snap, journal, pipe, fetched, known, left>>

Empty == [l \in Legs |-> 0]

NoSnapshot == [l \in {} |-> 0]

NoFetch == [sizes |-> NoSnapshot, valid |-> {}]

InConstructor == {"restore", "replay", "balances", "positions"}

Init ==
  /\ exch = Empty
  /\ local = Empty
  /\ snap = NoSnapshot
  /\ journal = <<>>
  /\ pipe = [s \in Symbols |-> "off"]
  /\ fetched = [s \in Symbols |-> NoFetch]
  /\ known = {}
  /\ left = [ends |-> MaxEnds, faults |-> MaxFaults, trades |-> MaxTrades]

Spend(what) == left[what] > 0 /\ left' = [left EXCEPT ![what] = @ - 1]

-----------------------------------------------------------------------------
(* The exchange, and the trades of the bot.                                 *)

(* a leg changes on the exchange: what was fetched of it is out of date *)
Moved(l) ==
  /\ known' = known \ {l}
  /\ fetched' = [s \in Symbols |-> [fetched[s] EXCEPT !.valid = @ \ {l}]]

(* a stop or a take profit fires, or somebody trades by hand *)
ExchangeMoves(l, size) ==
  /\ Spend("trades")
  /\ exch[l] # size
  /\ exch' = [exch EXCEPT ![l] = size]
  /\ Moved(l)
  /\ UNCHANGED <<local, snap, journal, pipe>>

(* EventJournal::append, which may fail: the event is lost *)
Journalled(event, l) ==
  \/ /\ Len(journal) < MaxJournal
     /\ journal' = Append(journal, [event |-> event, leg |-> l])
     /\ Spend("trades")
  \/ /\ UNCHANGED journal
     /\ left.trades > 0
     /\ left.faults > 0
     /\ left' = [left EXCEPT !.faults = @ - 1, !.trades = @ - 1]

(* an entry is filled and booked: open_position adds to the leg *)
BotOpens(l) ==
  /\ pipe[l[1]] = "up"
  /\ exch[l] < MaxSize
  /\ exch' = [exch EXCEPT ![l] = @ + 1]
  /\ local' = [local EXCEPT ![l] = @ + 1]
  /\ Journalled("PositionOpened", l)
  /\ Moved(l)
  /\ UNCHANGED <<snap, pipe>>

BotCloses(l) ==
  /\ pipe[l[1]] = "up"
  /\ exch[l] > 0 /\ local[l] > 0
  /\ exch' = [exch EXCEPT ![l] = 0]
  /\ local' = [local EXCEPT ![l] = 0]
  /\ Journalled("PositionClosed", l)
  /\ Moved(l)
  /\ UNCHANGED <<snap, pipe>>

(* persist_portfolio_snapshot, every 30 s: the whole shared portfolio *)
SaveSnapshot(s) ==
  /\ pipe[s] = "up"
  /\ snap' = local
  /\ journal' = <<>>
  /\ UNCHANGED <<exch, local, pipe, fetched, known, left>>

-----------------------------------------------------------------------------
(* recover_on_startup.                                                      *)

Construct(s) ==
  /\ pipe[s] = "off"
  /\ \A r \in Symbols : pipe[r] \notin InConstructor \cup {"starting"}
  /\ pipe' = [pipe EXCEPT ![s] = "restore"]
  /\ UNCHANGED <<exch, local, snap, journal, fetched, known, left>>

(* what query(from, clock_->now()) returns of the journal *)
JournalWindow == IF SystemTime <= Uptime THEN journal ELSE <<>>

(* restore_from_snapshot opens every position of the snapshot, those of     *)
(* other pipelines included, on top of what the portfolio has.              *)
Restored(p) == [l \in Legs |-> p[l] + snap[l]]

RestoreSnapshot(s) ==
  /\ pipe[s] = "restore"
  /\ snap # NoSnapshot
  /\ local' = Restored(local)
  /\ pipe' = [pipe EXCEPT ![s] = "replay"]
  /\ UNCHANGED <<exch, snap, journal, fetched, known, left>>

(* no snapshot, or it cannot be loaded: a journal that is not empty then    *)
(* fails the recovery                                                       *)
NoRestore(s) ==
  /\ pipe[s] = "restore"
  /\ IF snap = NoSnapshot THEN UNCHANGED left ELSE Spend("faults")
  /\ pipe' = [pipe EXCEPT ![s] = IF JournalWindow = <<>> THEN "balances" ELSE "failed"]
  /\ UNCHANGED <<exch, local, snap, journal, fetched, known>>

(* replay_journal_after_snapshot: PositionClosed closes the leg;            *)
(* PositionOpened opens with "amount", which persist_position_event does    *)
(* not write, so with size 0.                                               *)
Replayed(p, events) ==
  LET closed == {e.leg : e \in {d \in Range(events) : d.event = "PositionClosed"}}
  IN  [l \in Legs |-> IF l \in closed THEN 0 ELSE p[l]]

ReplayJournal(s) ==
  /\ pipe[s] = "replay"
  /\ \/ local' = Replayed(local, JournalWindow) /\ UNCHANGED left
     \/ Spend("faults") /\ UNCHANGED local
  /\ pipe' = [pipe EXCEPT ![s] = "balances"]
  /\ UNCHANGED <<exch, snap, journal, fetched, known>>

(* sync_positions_from_exchange: without the balances, or without USDT in   *)
(* them, the recovery fails and the constructor throws; without the         *)
(* positions it goes on with a warning.                                     *)
FetchPositions(s) ==
  /\ pipe[s] = "balances"
  /\ pipe' = [pipe EXCEPT ![s] = "positions"]
  /\ fetched' = [fetched EXCEPT ![s] =
       [sizes |-> [l \in {k \in LegsOf(s) : exch[k] > 0 /\ exch[k] >= MinPosition} |-> exch[l]],
        valid |-> {k \in LegsOf(s) : exch[k] > 0 /\ exch[k] >= MinPosition}]]
  /\ UNCHANGED <<exch, local, snap, journal, known, left>>

FetchFails(s, step) ==
  /\ pipe[s] = "balances"
  /\ Spend("faults")
  /\ pipe' = [pipe EXCEPT ![s] = step]
  /\ UNCHANGED <<exch, local, snap, journal, fetched, known>>

(* sync_position_from_exchange: the size of the exchange, whatever the      *)
(* portfolio had                                                            *)
Synced_KeepsLocal(p, sizes) ==
  [l \in Legs |-> IF l \in DOMAIN sizes /\ p[l] = 0 THEN sizes[l] ELSE p[l]]

Synced(p, sizes) == [l \in Legs |-> IF l \in DOMAIN sizes THEN sizes[l] ELSE p[l]]

ApplyPositions(s) ==
  /\ pipe[s] = "positions"
  /\ local' = Synced(local, fetched[s].sizes)
  /\ known' = (known \ DOMAIN fetched[s].sizes) \cup fetched[s].valid
  /\ fetched' = [fetched EXCEPT ![s] = NoFetch]
  /\ pipe' = [pipe EXCEPT ![s] = "ready"]
  /\ UNCHANGED <<exch, snap, journal, left>>

-----------------------------------------------------------------------------
(* sync_balance_from_exchange, in start() and in the periodic job. A query  *)
(* that fails leaves everything as it is; start() goes on after it.         *)

Start(s) ==
  /\ pipe[s] = "ready"
  /\ \A r \in Symbols : pipe[r] \notin InConstructor \cup {"starting"}
  /\ pipe' = [pipe EXCEPT ![s] = "starting"]
  /\ UNCHANGED <<exch, local, snap, journal, fetched, known, left>>

SyncFetch(s) ==
  /\ pipe[s] \in {"starting", "up"}
  /\ fetched[s] = NoFetch
  /\ LET held == {l \in LegsOf(s) : exch[l] > 0}
     IN  fetched' = [fetched EXCEPT ![s] = [sizes |-> [l \in held |-> exch[l]],
                                            valid |-> LegsOf(s)]]
  /\ UNCHANGED <<exch, local, snap, journal, pipe, known, left>>

(* the legs the exchange has are taken over; when it has none, what the     *)
(* portfolio still has of the symbol is closed                              *)
AfterSync_KeepsPhantoms(p, s, sizes) == Synced(p, sizes)

AfterSync(p, s, sizes) ==
  IF DOMAIN sizes = {}
  THEN [l \in Legs |-> IF l \in LegsOf(s) THEN 0 ELSE p[l]]
  ELSE Synced(p, sizes)

SyncApply(s) ==
  /\ pipe[s] \in {"starting", "up"}
  /\ fetched[s] # NoFetch
  /\ local' = AfterSync(local, s, fetched[s].sizes)
  /\ known' = (known \ LegsOf(s)) \cup fetched[s].valid
  /\ fetched' = [fetched EXCEPT ![s] = NoFetch]
  /\ pipe' = [pipe EXCEPT ![s] = "up"]
  /\ UNCHANGED <<exch, snap, journal, left>>

StartWithoutSync(s) ==
  /\ pipe[s] = "starting"
  /\ fetched[s] = NoFetch
  /\ Spend("faults")
  /\ pipe' = [pipe EXCEPT ![s] = "up"]
  /\ UNCHANGED <<exch, local, snap, journal, fetched, known>>

-----------------------------------------------------------------------------
(* A rotation stops a pipeline, which leaves its legs in the portfolio.     *)
StopPipeline(s) ==
  /\ pipe[s] = "up"
  /\ fetched[s] = NoFetch
  /\ Spend("ends")
  /\ pipe' = [pipe EXCEPT ![s] = "off"]
  /\ known' = known \ LegsOf(s)
  /\ UNCHANGED <<exch, local, snap, journal, fetched>>

Crash ==
  /\ \E s \in Symbols : pipe[s] # "off"
  /\ Spend("ends")
  /\ local' = Empty
  /\ pipe' = [s \in Symbols |-> "off"]
  /\ fetched' = [s \in Symbols |-> NoFetch]
  /\ known' = {}
  /\ UNCHANGED <<exch, snap, journal>>

-----------------------------------------------------------------------------
Next ==
  \/ \E l \in Legs, n \in 0..MaxSize : ExchangeMoves(l, n)
  \/ \E l \in Legs : BotOpens(l) \/ BotCloses(l)
  \/ \E s \in Symbols :
       \/ SaveSnapshot(s)
       \/ Construct(s) \/ RestoreSnapshot(s) \/ NoRestore(s) \/ ReplayJournal(s)
       \/ FetchPositions(s) \/ ApplyPositions(s)
       \/ \E step \in {"failed", "ready"} : FetchFails(s, step)
       \/ Start(s) \/ SyncFetch(s) \/ SyncApply(s) \/ StartWithoutSync(s)
       \/ StopPipeline(s)
  \/ Crash

(* A constructor that has begun goes on, what is built is started, and the  *)
(* periodic job runs; faults are few, so it succeeds now and then.          *)
Fairness ==
  \A s \in Symbols :
    /\ WF_vars(Construct(s))
    /\ WF_vars(RestoreSnapshot(s) \/ NoRestore(s) \/ ReplayJournal(s) \/ FetchPositions(s)
                 \/ ApplyPositions(s))
    /\ WF_vars(Start(s))
    /\ WF_vars(SyncFetch(s))
    /\ WF_vars(SyncApply(s))

Spec == Init /\ [][Next]_vars /\ Fairness

-----------------------------------------------------------------------------
(* A leg that recovery or a synchronisation took over from the exchange,    *)
(* and that has not moved there since, is in the portfolio with at least    *)
(* its size, whatever other pipelines restore, replay and synchronise       *)
(* meanwhile. (More than its size is possible: a pipeline that is built     *)
(* later restores the snapshot on top of it.)                               *)
NothingLost == \A l \in known : local[l] >= exch[l]

(* In the end the portfolio agrees with the exchange on the symbols that    *)
(* are traded: each leg that is held there has its size, and nothing is     *)
(* left of a symbol that has no leg.                                        *)
Agrees(s) ==
  \/ \A l \in LegsOf(s) : local[l] = exch[l]
  \/ /\ \E l \in LegsOf(s) : exch[l] > 0
     /\ \A l \in LegsOf(s) : exch[l] > 0 => local[l] = exch[l]

BookHeals == \A s \in Symbols : <>[](pipe[s] = "up" => Agrees(s))
=============================================================================
