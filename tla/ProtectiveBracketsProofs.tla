---------------------- MODULE ProtectiveBracketsProofs ----------------------
(***************************************************************************)
(* Proofs about ProtectiveBrackets, for any legs and any bounds: types,    *)
(* that a bracket tracks its own plan orders only, and that the fallback   *)
(* is placed again for a position only where its answer was lost.          *)
(***************************************************************************)
EXTENDS ProtectiveBrackets, TLAPS

USE BracketsAssumption

(* The record of an idle thread is well formed.                            *)
LEMMA IdleTyped == Idle \in ThreadState
<1>1. (CHOOSE l \in Legs : TRUE) \in Legs
  OBVIOUS
<1>2. 0 \in 0..MaxOpens
  OBVIOUS
<1> QED
  BY <1>1, <1>2 DEF Idle, ThreadState

LEMMA Types_Init == Init => TypeOK
<1> SUFFICES ASSUME Init PROVE TypeOK
  OBVIOUS
<1> USE DEF Init
<1>1. brackets \in [Legs -> Bracket \cup {Untracked}] /\ unborn \subseteq Plan
  OBVIOUS
<1>2. opens \in 0..MaxOpens /\ placed \in Nat /\ errors \in 0..MaxErrors
  OBVIOUS
<1>3. thread \in [Threads -> ThreadState]
  BY IdleTyped
<1>4. local \subseteq Legs /\ pos \in [Legs -> -1..MaxOpens]
  OBVIOUS
<1>5. plans \subseteq Plan
  BY DEF Plan, Preset
<1> QED
  BY <1>1, <1>2, <1>3, <1>4, <1>5 DEF TypeOK

(* A listing is a part of the plan orders and costs at most one failure.   *)
LEMMA ListingTyped ==
  ASSUME errors \in 0..MaxErrors, NEW list, Listing(list)
  PROVE list \subseteq plans /\ errors' \in 0..MaxErrors
BY DEF Listing, RestFails

(* The steps of release and of the cancels keep the types, for both threads. *)
LEMMA TypesShared ==
  ASSUME TypeOK, NEW t \in Threads,
         \/ CancelNext(t) \/ CancelsDone(t) \/ Release(t) \/ ReleaseLookup(t)
         \/ ReleaseErase(t) \/ ReleaseReturns(t)
  PROVE TypeOK'
<1> USE DEF TypeOK, exchange, At, Goto, Return, Active, Tracked, L
<1>1. CASE CancelNext(t)
  BY <1>1 DEF CancelNext, RestFails, ThreadState, Threads
<1>2. CASE CancelsDone(t)
  BY <1>2, IdleTyped DEF CancelsDone, ThreadState
<1>3. CASE Release(t)
  <2>1. CASE brackets[thread[t].leg].status # "active"
    BY <1>3, <2>1 DEF Release, ThreadState
  <2>2. CASE brackets[thread[t].leg].status = "active"
    <3>1. thread[t].leg \in Legs
      BY DEF ThreadState
    <3>2. brackets[thread[t].leg] \in Bracket
      BY <2>2, <3>1 DEF Untracked
    <3>3. {brackets[thread[t].leg].ids[k] : k \in Kinds} \ {NoPlan} \subseteq Plan
      BY <3>2 DEF Bracket
    <3>4. brackets' \in [Legs -> Bracket \cup {Untracked}]
      BY <1>3, <2>2, <3>1, <3>2 DEF Release, Bracket
    <3>5. thread' \in [Threads -> ThreadState]
      BY <1>3, <2>2, <3>3 DEF Release, ThreadState
    <3> QED
      BY <1>3, <3>4, <3>5 DEF Release
  <2> QED
    BY <2>1, <2>2
<1>4. CASE ReleaseLookup(t)
  <2> DEFINE own(list) == {p \in list : p.leg = L(t) /\ p.tag = "preset"}
  <2>1. PICK list \in SUBSET plans :
          /\ Listing(list)
          /\ thread' = [thread EXCEPT ![t].pc = "cancel", ![t].ids = own(list)]
    BY <1>4 DEF ReleaseLookup
  <2>2. errors' \in 0..MaxErrors
    BY <2>1, ListingTyped
  <2>3. own(list) \in SUBSET Plan
    BY <2>1
  <2> HIDE DEF own
  <2>4. [thread[t] EXCEPT !.pc = "cancel", !.ids = own(list)] \in ThreadState
    <3>1. thread[t] \in ThreadState
      OBVIOUS
    <3> QED
      BY <2>3, <3>1 DEF ThreadState
  <2>5. thread' \in [Threads -> ThreadState]
    BY <2>1, <2>4
  <2> QED
    BY <1>4, <2>2, <2>5 DEF ReleaseLookup
<1>5. CASE ReleaseErase(t)
  BY <1>5 DEF ReleaseErase, ThreadState
<1>6. CASE ReleaseReturns(t)
  <2>1. \E pc \in {"close", "phantoms"} :
          thread' = [thread EXCEPT ![t].pc = pc] \/ thread' = [thread EXCEPT ![t] = Idle]
    BY <1>6 DEF ReleaseReturns
  <2>2. thread' \in [Threads -> ThreadState]
    BY <2>1, IdleTyped DEF ThreadState
  <2> QED
    BY <1>6, <2>2 DEF ReleaseReturns
<1> QED
  BY <1>1, <1>2, <1>3, <1>4, <1>5, <1>6

(* The steps that begin an operation of the tick keep the types.           *)
LEMMA TypesBegin ==
  ASSUME TypeOK, NEW l \in Legs, Open(l) \/ Close(l) \/ Stagnant(l) \/ Verify(l)
  PROVE TypeOK'
<1> USE DEF TypeOK, exchange, At, Active
<1>0. "tick" \in Threads
  BY DEF Threads
<1>1. CASE Open(l)
  <2>1. opens' \in 0..MaxOpens /\ opens + 1 \in 0..MaxOpens
    BY <1>1 DEF Open
  <2>2. thread' \in [Threads -> ThreadState]
    BY <1>0, <1>1, <2>1, IdleTyped DEF Open, ThreadState
  <2>3. pos' \in [Legs -> -1..MaxOpens] /\ local' \subseteq Legs
    BY <1>1, <2>1 DEF Open
  <2>4. unborn' \subseteq Plan
    BY <1>1, <2>1 DEF Open, Preset, Plan
  <2> QED
    BY <1>1, <2>1, <2>2, <2>3, <2>4 DEF Open
<1>2. CASE Close(l)
  <2>1. thread' \in [Threads -> ThreadState]
    BY <1>0, <1>2, IdleTyped DEF Close, ThreadState
  <2> QED
    BY <1>2, <2>1 DEF Close, PositionEnds
<1>3. CASE Stagnant(l)
  BY <1>0, <1>3, IdleTyped DEF Stagnant, ThreadState
<1>4. CASE Verify(l)
  <2>1. brackets[l].n \in 0..MaxOpens
    BY <1>4 DEF Verify, Bracket, Untracked
  <2> QED
    BY <1>0, <1>4, <2>1, IdleTyped DEF Verify, ThreadState
<1> QED
  BY <1>1, <1>2, <1>3, <1>4

(* What a match makes of a bracket is a bracket again.                     *)
LEMMA MatchedTyped ==
  ASSUME NEW b \in Bracket, NEW found \in [Kinds -> Plan \cup {NoPlan}],
         NEW v \in BOOLEAN
  PROVE [Matched(b, found) EXCEPT !.verified = v] \in Bracket
<1>1. Least(b.attempts + 1, MaxVerify) \in 0..MaxVerify
  BY DEF Least, Bracket
<1>2. [k \in Kinds |-> IF b.ids[k] = NoPlan THEN found[k] ELSE b.ids[k]]
        \in [Kinds -> Plan \cup {NoPlan}]
  BY DEF Bracket
<1> QED
  BY <1>1, <1>2 DEF Matched, Bracket

(* The other steps of the tick keep the types.                             *)
LEMMA TypesTick ==
  ASSUME TypeOK,
         \/ on_position_opened \/ StagnantClose
         \/ VerifyList \/ VerifyMatch \/ PlaceFallback \/ VerifyEnd
  PROVE TypeOK'
<1> USE DEF TypeOK, exchange, At, Goto, Return, L
<1> DEFINE l == thread["tick"].leg
<1>0. "tick" \in Threads /\ l \in Legs /\ thread["tick"] \in ThreadState
  BY DEF Threads, ThreadState
<1>a. brackets[l] # Untracked => brackets[l] \in Bracket
  BY <1>0
<1>b. Active(l) => brackets[l] # Untracked
  BY DEF Active, Untracked
<1>c. \A t \in 0..MaxOpens : NewBracket(t) \in Bracket
  BY DEF NewBracket, Bracket, NoIds
<1>1. CASE on_position_opened
  <2>1. (IF Active(l) THEN Tracked(l) ELSE {}) \subseteq Plan
    BY <1>a, <1>b DEF Tracked, Bracket
  <2>2. thread' \in [Threads -> ThreadState]
    BY <1>0, <1>1, <2>1 DEF on_position_opened, ThreadState
  <2>3. thread["tick"].n \in 0..MaxOpens
    BY <1>0 DEF ThreadState
  <2>4. brackets' \in [Legs -> Bracket \cup {Untracked}]
    BY <1>0, <1>1, <1>c, <2>3 DEF on_position_opened
  <2> QED
    BY <1>1, <2>2, <2>4 DEF on_position_opened
<1>2. CASE StagnantClose
  <2>1. thread' \in [Threads -> ThreadState]
    BY <1>2, <1>0, IdleTyped DEF StagnantClose
  <2>2. CASE PositionEnds(l) /\ local' = local \ {l} /\ UNCHANGED errors
    <3>1. -1 \in -1..MaxOpens
      OBVIOUS
    <3>2. pos' \in [Legs -> -1..MaxOpens]
      BY <1>0, <2>2, <3>1 DEF PositionEnds
    <3>3. plans' \subseteq Plan /\ unborn' \subseteq Plan /\ opens' = opens /\ placed' = placed
      BY <2>2 DEF PositionEnds
    <3> QED
      BY <1>2, <2>1, <2>2, <3>2, <3>3 DEF StagnantClose
  <2>3. CASE RestFails /\ UNCHANGED <<exchange, local>>
    BY <1>2, <2>1, <2>3 DEF StagnantClose, RestFails
  <2> QED
    BY <1>2, <2>2, <2>3 DEF StagnantClose
<1>3. CASE VerifyList
  <2>1. PICK list \in SUBSET plans :
          /\ Listing(list)
          /\ thread' = [thread EXCEPT !["tick"].pc = "match", !["tick"].ids = list]
    BY <1>3 DEF VerifyList
  <2>2. errors' \in 0..MaxErrors
    BY <2>1, ListingTyped
  <2>3. thread' \in [Threads -> ThreadState]
    BY <1>0, <2>1 DEF ThreadState
  <2> QED
    BY <1>3, <2>2, <2>3 DEF VerifyList
<1>4. CASE VerifyMatch
  <2>1. CASE ~Active(l)
    BY <1>0, <1>4, <2>1, IdleTyped DEF VerifyMatch
  <2>2. CASE Active(l)
    <3> DEFINE b(found) == Matched(brackets[l], found)
               done(found) == Missing(b(found)) = {} \/ b(found).attempts < MaxVerify
    <3>1. PICK found \in [Kinds -> thread["tick"].ids \cup {NoPlan}] :
            /\ brackets' = [brackets EXCEPT ![l] =
                 [b(found) EXCEPT !.verified = Missing(b(found)) = {}]]
            /\ thread' = [thread EXCEPT !["tick"] =
                 IF done(found) THEN Idle
                 ELSE [@ EXCEPT !.pc = "place", !.ids = {}, !.need = Missing(b(found))]]
      BY <1>4, <2>2 DEF VerifyMatch
    <3>2. found \in [Kinds -> Plan \cup {NoPlan}]
      BY <1>0, <3>1 DEF ThreadState
    <3>3. (Missing(b(found)) = {}) \in BOOLEAN /\ brackets[l] \in Bracket
      BY <1>a, <1>b, <2>2
    <3>4. [b(found) EXCEPT !.verified = Missing(b(found)) = {}] \in Bracket
      BY <3>2, <3>3, MatchedTyped
    <3>5. brackets' \in [Legs -> Bracket \cup {Untracked}]
      BY <1>0, <3>1, <3>4
    <3>6. Missing(b(found)) \subseteq Kinds
      BY DEF Missing
    <3> HIDE DEF b, done
    <3>7. thread' \in [Threads -> ThreadState]
      <4>1. CASE done(found)
        BY <1>0, <3>1, <4>1, IdleTyped
      <4>2. CASE ~done(found)
        <5>1. thread' = [thread EXCEPT !["tick"] =
                [thread["tick"] EXCEPT !.pc = "place", !.ids = {}, !.need = Missing(b(found))]]
          BY <3>1, <4>2
        <5> QED
          BY <1>0, <3>6, <5>1 DEF ThreadState
      <4> QED
        BY <4>1, <4>2
    <3> QED
      BY <1>4, <3>5, <3>7 DEF VerifyMatch
  <2> QED
    BY <2>1, <2>2
<1>5. CASE PlaceFallback
  <2> DEFINE p(k) == [leg |-> l, kind |-> k, tag |-> "standalone", n |-> thread["tick"].n,
                      id |-> placed + 1]
  <2>1. PICK k \in thread["tick"].need :
          /\ placed' \in {placed, placed + 1}
          /\ \/ /\ plans' = plans \cup {p(k)}
                /\ brackets' = Stored(l, k, p(k))
                /\ UNCHANGED errors
             \/ /\ RestFails
                /\ plans' \in {plans, plans \cup {[p(k) EXCEPT !.tag = "lost"]}}
                /\ UNCHANGED brackets
          /\ thread' = [thread EXCEPT !["tick"].need = @ \ {k}]
    BY <1>5 DEF PlaceFallback
  <2>2. k \in Kinds
    BY <1>0, <2>1 DEF ThreadState
  <2>3. p(k) \in Plan /\ [p(k) EXCEPT !.tag = "lost"] \in Plan
    BY <1>0, <2>2 DEF Plan, ThreadState
  <2>4. thread' \in [Threads -> ThreadState]
    BY <1>0, <2>1 DEF ThreadState
  <2> HIDE DEF p
  <2>5. plans' \subseteq Plan /\ placed' \in Nat /\ errors' \in 0..MaxErrors
    BY <2>1, <2>3 DEF RestFails
  <2>6. Stored(l, k, p(k)) \in [Legs -> Bracket \cup {Untracked}]
    <3>1. CASE brackets[l] = Untracked
      BY <3>1 DEF Stored
    <3>2. CASE brackets[l] # Untracked
      <4>1. [brackets[l] EXCEPT !.ids[k] = p(k)] \in Bracket
        BY <1>a, <2>2, <2>3, <3>2 DEF Bracket
      <4> QED
        BY <1>0, <3>2, <4>1 DEF Stored
    <3> QED
      BY <3>1, <3>2
  <2>7. brackets' \in [Legs -> Bracket \cup {Untracked}]
    BY <2>1, <2>6
  <2> QED
    BY <1>5, <2>4, <2>5, <2>7 DEF PlaceFallback
<1>6. CASE VerifyEnd
  <2>1. brackets' \in [Legs -> Bracket \cup {Untracked}]
    <3>1. CASE brackets[l] = Untracked
      BY <1>6, <3>1 DEF VerifyEnd
    <3>2. CASE brackets[l] # Untracked
      <4>1. [brackets[l] EXCEPT !.verified = Missing(brackets[l]) = {}] \in Bracket
        BY <1>a, <3>2 DEF Bracket
      <4> QED
        BY <1>0, <1>6, <3>2, <4>1 DEF VerifyEnd
    <3> QED
      BY <3>1, <3>2
  <2> QED
    BY <1>0, <1>6, <2>1, IdleTyped DEF VerifyEnd
<1> QED
  BY <1>1, <1>2, <1>3, <1>4, <1>5, <1>6

(* The jobs of the pool keep the types.                                    *)
LEMMA TypesPool ==
  ASSUME TypeOK,
         \/ CleanupBegin \/ CleanupList \/ CleanupSpare \/ SyncRead \/ SyncApply
         \/ ReconcileRead \/ ReconcileCompare \/ Phantom \/ PhantomsDone
  PROVE TypeOK'
<1> USE DEF TypeOK, exchange, At, Goto, Return
<1>0. "pool" \in Threads /\ thread["pool"] \in ThreadState
  BY DEF Threads
<1>1. CASE CleanupBegin
  BY <1>0, <1>1, IdleTyped DEF CleanupBegin, ThreadState
<1>2. CASE CleanupList
  <2>1. PICK list \in SUBSET plans :
          /\ Listing(list)
          /\ thread' = [thread EXCEPT !["pool"].pc = "spare", !["pool"].ids = list]
    BY <1>2 DEF CleanupList
  <2>2. errors' \in 0..MaxErrors
    BY <2>1, ListingTyped
  <2>3. thread' \in [Threads -> ThreadState]
    BY <1>0, <2>1 DEF ThreadState
  <2> QED
    BY <1>2, <2>2, <2>3 DEF CleanupList
<1>3. CASE CleanupSpare
  <2>1. thread' = [thread EXCEPT !["pool"] = Idle]
        \/ \E ids \in SUBSET Plan :
             thread' = [thread EXCEPT !["pool"].pc = "cancel", !["pool"].ids = ids]
    BY <1>0, <1>3 DEF CleanupSpare, ThreadState
  <2>2. thread' \in [Threads -> ThreadState]
    BY <1>0, <2>1, IdleTyped DEF ThreadState
  <2> QED
    BY <1>3, <2>2 DEF CleanupSpare
<1>4. CASE SyncRead
  BY <1>0, <1>4, IdleTyped DEF SyncRead, ThreadState, Open_
<1>5. CASE SyncApply
  BY <1>0, <1>5, IdleTyped DEF SyncApply, ThreadState
<1>6. CASE ReconcileRead
  BY <1>0, <1>6, IdleTyped DEF ReconcileRead, ThreadState
<1>7. CASE ReconcileCompare
  BY <1>0, <1>7 DEF ReconcileCompare, ThreadState
<1>8. CASE Phantom
  <2>1. PICK l \in thread["pool"].legs :
          /\ local' = local \ {l}
          /\ thread' = [thread EXCEPT !["pool"].pc = "release", !["pool"].leg = l,
                                      !["pool"].legs = @ \ {l}]
    BY <1>8 DEF Phantom
  <2>2. l \in Legs /\ thread["pool"].legs \ {l} \subseteq Legs
    BY <1>0, <2>1 DEF ThreadState
  <2>3. [thread["pool"] EXCEPT !.pc = "release", !.leg = l, !.legs = @ \ {l}] \in ThreadState
    BY <1>0, <2>2 DEF ThreadState
  <2>4. thread' \in [Threads -> ThreadState]
    BY <1>0, <2>1, <2>3
  <2> QED
    BY <1>8, <2>1, <2>4 DEF Phantom
<1>9. CASE PhantomsDone
  BY <1>0, <1>9, IdleTyped DEF PhantomsDone
<1> QED
  BY <1>1, <1>2, <1>3, <1>4, <1>5, <1>6, <1>7, <1>8, <1>9

(* Every step keeps the types.                                             *)
LEMMA TypesNext == TypeOK /\ [Next]_vars => TypeOK'
<1> SUFFICES ASSUME TypeOK, [Next]_vars PROVE TypeOK'
  OBVIOUS
<1>0. {"tick", "pool"} \subseteq Threads
  BY DEF Threads
<1>1. CASE \E l \in Legs : Open(l) \/ Close(l) \/ Stagnant(l) \/ Verify(l)
  BY <1>1, TypesBegin
<1>2. CASE TickStep
  BY <1>0, <1>2, TypesShared, TypesTick DEF TickStep
<1>3. CASE CleanupBegin \/ SyncRead \/ ReconcileRead
  BY <1>3, TypesPool
<1>4. CASE PoolStep
  BY <1>0, <1>4, TypesShared, TypesPool DEF PoolStep
<1>5. CASE PresetAppears
  BY <1>5 DEF PresetAppears, TypeOK
<1>6. CASE Trigger
  <2>1. PICK p \in plans :
          /\ pos' = [pos EXCEPT ![p.leg] = -1]
          /\ plans' = {q \in plans \ {p} : q.leg = p.leg => q.tag # "preset"}
          /\ unborn' = {q \in unborn : q.leg # p.leg}
          /\ UNCHANGED <<brackets, local, opens, placed, errors, thread>>
    BY <1>6 DEF Trigger
  <2>2. -1 \in -1..MaxOpens
    OBVIOUS
  <2>3. pos' \in [Legs -> -1..MaxOpens]
    BY <2>1, <2>2 DEF TypeOK
  <2>4. plans' \subseteq Plan /\ unborn' \subseteq Plan
    BY <2>1 DEF TypeOK
  <2> QED
    BY <2>1, <2>3, <2>4 DEF TypeOK
<1>7. CASE UNCHANGED vars
  BY <1>7 DEF vars, TypeOK
<1> QED
  BY <1>1, <1>2, <1>3, <1>4, <1>5, <1>6, <1>7 DEF Next

(* ProtectiveBracketManager keeps its types for any legs and bounds: the   *)
(* verification attempts never pass max_verify_attempts, and every tracked *)
(* bracket and every id is of an entry that was made.                      *)
THEOREM BracketsTypeCorrect == Spec => []TypeOK
BY Types_Init, TypesNext, PTL DEF Spec

-----------------------------------------------------------------------------
(* One bracket's share of TrackedIsOwn.                                    *)
Own(l, b) ==
  b # Untracked => \A k \in Kinds : b.ids[k] # NoPlan => b.ids[k].leg = l /\ b.ids[k].kind = k

(* Only six steps touch a bracket.                                         *)
LEMMA BracketsKept ==
  ASSUME [Next]_vars,
         ~on_position_opened, ~VerifyMatch, ~PlaceFallback, ~VerifyEnd,
         \A t \in Threads : ~Release(t) /\ ~ReleaseErase(t)
  PROVE brackets' = brackets
BY DEF Next, TickStep, PoolStep, Open, Close, Stagnant, Verify, CancelNext, CancelsDone,
       ReleaseLookup, ReleaseReturns, StagnantClose, VerifyList, CleanupBegin, CleanupList,
       CleanupSpare, SyncRead, SyncApply, ReconcileRead, ReconcileCompare, Phantom,
       PhantomsDone, PresetAppears, Trigger, vars, Threads

LEMMA OwnNext ==
  ASSUME Narrow = FALSE, TypeOK, TrackedIsOwn, [Next]_vars
  PROVE TrackedIsOwn'
<1> DEFINE lt == thread["tick"].leg
<1>0. lt \in Legs /\ thread["tick"] \in ThreadState /\ {"tick", "pool"} = Threads
  BY DEF TypeOK, Threads, ThreadState
<1>a. \A l \in Legs : Own(l, brackets[l])
  BY DEF TrackedIsOwn, Own
<1>b. SUFFICES \A l \in Legs : Own(l, brackets'[l])
  BY DEF TrackedIsOwn, Own
<1>c. brackets \in [Legs -> Bracket \cup {Untracked}]
  BY DEF TypeOK
<1>1. CASE on_position_opened
  <2>1. Own(lt, NewBracket(thread["tick"].n))
    BY DEF Own, NewBracket, NoIds
  <2> QED
    BY <1>0, <1>1, <1>a, <1>c, <2>1 DEF on_position_opened, L
<1>2. ASSUME NEW t \in Threads, Release(t) PROVE \A l \in Legs : Own(l, brackets'[l])
  <2>1. CASE brackets' = brackets
    BY <1>a, <2>1
  <2>2. CASE Active(L(t)) /\ brackets' = [brackets EXCEPT ![L(t)].status = "released"]
    <3>1. L(t) \in Legs /\ brackets[L(t)] \in Bracket
      BY <1>c, <2>2 DEF TypeOK, ThreadState, L, Active, Untracked
    <3>2. Own(L(t), [brackets[L(t)] EXCEPT !.status = "released"])
      BY <1>a, <3>1 DEF Own, Bracket, Untracked
    <3> QED
      BY <1>a, <1>c, <2>2, <3>1, <3>2
  <2> QED
    BY <1>2, <2>1, <2>2 DEF Release
<1>3. ASSUME NEW t \in Threads, ReleaseErase(t) PROVE \A l \in Legs : Own(l, brackets'[l])
  BY <1>3, <1>a, <1>c DEF ReleaseErase, Own
<1>4. CASE VerifyMatch
  <2>1. CASE ~Active(lt)
    BY <1>4, <1>a, <2>1 DEF VerifyMatch, L
  <2>2. CASE Active(lt)
    <3> DEFINE ids == thread["tick"].ids
               b(found) == Matched(brackets[lt], found)
    <3>1. PICK found \in [Kinds -> ids \cup {NoPlan}] :
            /\ Found(lt, ids, found)
            /\ brackets' = [brackets EXCEPT ![lt] =
                 [b(found) EXCEPT !.verified = Missing(b(found)) = {}]]
      BY <1>4, <2>2 DEF VerifyMatch, L
    <3>2. brackets[lt] \in Bracket /\ brackets[lt] # Untracked
      BY <1>0, <1>c, <2>2 DEF Active, Untracked
    <3>3. \A k \in Kinds : found[k] # NoPlan => found[k].leg = lt /\ found[k].kind = k
      BY <3>1 DEF Found, Candidates
    <3>4. [b(found) EXCEPT !.verified = Missing(b(found)) = {}].ids
            = [k \in Kinds |-> IF brackets[lt].ids[k] = NoPlan THEN found[k]
                                                              ELSE brackets[lt].ids[k]]
      BY <3>2 DEF Matched, Bracket
    <3>5. Own(lt, [b(found) EXCEPT !.verified = Missing(b(found)) = {}])
      BY <1>0, <1>a, <3>2, <3>3, <3>4 DEF Own
    <3> QED
      BY <1>0, <1>a, <1>c, <3>1, <3>5
  <2> QED
    BY <2>1, <2>2
<1>5. CASE PlaceFallback
  <2> DEFINE p(k) == [leg |-> lt, kind |-> k, tag |-> "standalone", n |-> thread["tick"].n,
                      id |-> placed + 1]
  <2>1. PICK k \in Kinds : brackets' = Stored(lt, k, p(k)) \/ brackets' = brackets
    BY <1>0, <1>5 DEF PlaceFallback, L, ThreadState
  <2>2. CASE brackets' = brackets
    BY <1>a, <2>2
  <2>3. CASE brackets[lt] # Untracked /\ brackets' = [brackets EXCEPT ![lt].ids[k] = p(k)]
    <3>1. brackets[lt] \in Bracket
      BY <1>0, <1>c, <2>3
    <3>2. Own(lt, [brackets[lt] EXCEPT !.ids[k] = p(k)])
      BY <1>0, <1>a, <2>3, <3>1 DEF Own, Bracket
    <3> QED
      BY <1>0, <1>a, <1>c, <2>3, <3>2
  <2> QED
    BY <2>1, <2>2, <2>3 DEF Stored
<1>6. CASE VerifyEnd
  <2>1. CASE brackets' = brackets
    BY <1>a, <2>1
  <2>2. CASE /\ brackets[lt] # Untracked
             /\ brackets' = [brackets EXCEPT ![lt].verified = Missing(brackets[lt]) = {}]
    <3>1. brackets[lt] \in Bracket
      BY <1>0, <1>c, <2>2
    <3>2. Own(lt, [brackets[lt] EXCEPT !.verified = Missing(brackets[lt]) = {}])
      BY <1>0, <1>a, <2>2, <3>1 DEF Own, Bracket
    <3> QED
      BY <1>0, <1>a, <1>c, <2>2, <3>2
  <2> QED
    BY <1>6, <2>1, <2>2 DEF VerifyEnd, L
<1> QED
  BY <1>1, <1>2, <1>3, <1>4, <1>5, <1>6, <1>a, BracketsKept

(* As long as take-profit and stop are further apart than the tolerance of *)
(* prices_match, a bracket tracks plan orders of its own leg and kind      *)
(* only, whatever verify, release and clean-up do in between: release      *)
(* never cancels the protection of another leg.                            *)
THEOREM BracketsTrackTheirOwn ==
  ASSUME Narrow = FALSE
  PROVE Spec => []TrackedIsOwn
<1>1. Init => TrackedIsOwn
  BY DEF Init, TrackedIsOwn
<1>2. TypeOK /\ TrackedIsOwn /\ [Next]_vars => TrackedIsOwn'
  BY OwnNext
<1> QED
  BY <1>1, <1>2, BracketsTypeCorrect, PTL DEF Spec

-----------------------------------------------------------------------------
(* FallbackRepeatsLostOnly. A fallback at the exchange whose answer came   *)
(* (tag "standalone") is of an entry already made, so the bracket of a new *)
(* entry needs one of its own; and as long as the entry's bracket is       *)
(* active, it has an id for the kind, or the verification that placed the  *)
(* fallback has crossed the kind out.                                      *)

Tick == thread["tick"]
Verifying == {"list", "match", "place"}

(* The entry a thread, a bracket or a fallback belongs to was made, and a  *)
(* verification belongs to the entry of its bracket.                       *)
EntriesOK ==
  /\ Tick.pc \in Verifying \cup {"register"} => Tick.n <= opens
  /\ Tick.pc \in Verifying /\ brackets[Tick.leg] # Untracked =>
       brackets[Tick.leg].n = Tick.n
  /\ \A l \in Legs : brackets[l] # Untracked => brackets[l].n <= opens
  /\ \A q \in plans : q.tag = "standalone" => q.n <= opens
  /\ \A p \in unborn : p.tag = "preset"

(* What the manager knows of a fallback.                                   *)
Noted(q) ==
  /\ Tick.pc = "register" => q.n < Tick.n
  /\ Active(q.leg) /\ brackets[q.leg].n = q.n => brackets[q.leg].ids[q.kind] # NoPlan
  /\ Tick.pc = "place" /\ Tick.leg = q.leg /\ Tick.n = q.n => q.kind \notin Tick.need

PlacedOK == \A q \in plans : q.tag = "standalone" => Noted(q)

(* What most steps do to a bracket: they forget it, release it or add ids. *)
Carries(b, c) ==
  \/ c = Untracked
  \/ /\ b # Untracked /\ c.n = b.n
     /\ c.status = "active" =>
          b.status = "active" /\ \A k \in Kinds : b.ids[k] # NoPlan => c.ids[k] # NoPlan

BracketsCarried == \A l \in Legs : Carries(brackets[l], brackets'[l])

NoNewFallback == \A q \in plans' : q.tag = "standalone" => q \in plans

(* Steps that neither begin nor advance what the tick does with a bracket. *)
LEMMA PlacedCarried ==
  ASSUME TypeOK, EntriesOK, PlacedOK, BracketsCarried, NoNewFallback,
         opens' = opens, \A p \in unborn' : p \in unborn,
         \/ Tick' = Tick
         \/ Tick'.pc \notin Verifying \cup {"register"}
         \/ /\ Tick.pc = "list" /\ Tick'.pc = "match"
            /\ Tick'.leg = Tick.leg /\ Tick'.n = Tick.n
  PROVE  EntriesOK' /\ PlacedOK'
<1>1. \A q \in plans : q.leg \in Legs /\ q.kind \in Kinds
  BY DEF TypeOK, Plan
<1>2. Tick \in ThreadState
  BY DEF TypeOK, Tick, Threads
<1>3. Tick.leg \in Legs
  BY <1>2 DEF ThreadState
<1>4. EntriesOK'
  BY <1>3 DEF EntriesOK, Verifying, BracketsCarried, Carries, NoNewFallback
<1>5. ASSUME NEW q \in plans', q.tag = "standalone" PROVE Noted(q)'
  <2>1. q \in plans /\ Noted(q)
    BY <1>5 DEF NoNewFallback, PlacedOK
  <2>2. Carries(brackets[q.leg], brackets'[q.leg])
    BY <1>1, <2>1 DEF BracketsCarried
  <2>3. brackets'[q.leg].status = "active" /\ brackets'[q.leg].n = q.n =>
          brackets'[q.leg].ids[q.kind] # NoPlan
    BY <1>1, <2>1, <2>2 DEF Carries, Noted, Active, Untracked
  <2>4. /\ Tick'.pc = "register" => q.n < Tick'.n
        /\ Tick'.pc = "place" /\ Tick'.leg = q.leg /\ Tick'.n = q.n => q.kind \notin Tick'.need
    BY <2>1 DEF Noted, Verifying
  <2> QED
    BY <2>3, <2>4 DEF Noted, Active
<1> QED
  BY <1>4, <1>5 DEF PlacedOK

(* A step of one thread that does not touch the other's locals.            *)
LEMMA TickOrPool ==
  ASSUME TypeOK, NEW t \in Threads, NEW r, thread' = [thread EXCEPT ![t] = r]
  PROVE  /\ t = "tick" => Tick' = r
         /\ t = "pool" => Tick' = Tick
BY DEF TypeOK, Tick, Threads

LEMMA CarriesItself ==
  ASSUME NEW b PROVE Carries(b, b)
BY DEF Carries

(* The steps of release and of the cancels.                                *)
LEMMA PlacedShared ==
  ASSUME TypeOK, EntriesOK, PlacedOK, NEW t \in Threads,
         \/ CancelNext(t) \/ CancelsDone(t) \/ Release(t) \/ ReleaseLookup(t)
         \/ ReleaseErase(t) \/ ReleaseReturns(t)
  PROVE  EntriesOK' /\ PlacedOK'
<1>1. PICK r : thread' = [thread EXCEPT ![t] = r] /\ r.pc \notin Verifying \cup {"register"}
  <2>1. thread[t] \in ThreadState
    BY DEF TypeOK
  <2>2. Idle.pc = "idle"
    BY DEF Idle
  <2>3. CASE CancelNext(t)
    <3>1. PICK p \in thread[t].ids :
            thread' = [thread EXCEPT ![t] = [thread[t] EXCEPT !.ids = @ \ {p}]]
      BY <2>3 DEF CancelNext
    <3>2. [thread[t] EXCEPT !.ids = @ \ {p}].pc = "cancel"
      BY <2>1, <2>3 DEF CancelNext, At, ThreadState
    <3> QED
      BY <3>1, <3>2 DEF Verifying
  <2>4. CASE CancelsDone(t)
    <3>1. \/ thread' = [thread EXCEPT ![t] = Idle]
          \/ thread' = [thread EXCEPT ![t] = [thread[t] EXCEPT !.pc = "erase"]]
      BY <2>4 DEF CancelsDone, Goto, Return
    <3>2. [thread[t] EXCEPT !.pc = "erase"].pc = "erase"
      BY <2>1 DEF ThreadState
    <3> QED
      BY <2>2, <3>1, <3>2 DEF Verifying
  <2>5. CASE Release(t)
    <3>1. \/ thread' = [thread EXCEPT ![t] = [thread[t] EXCEPT !.pc = "released"]]
          \/ \E pc \in {"lookup", "cancel"} :
               thread' = [thread EXCEPT ![t] =
                            [thread[t] EXCEPT !.ids = Tracked(L(t)), !.pc = pc]]
      BY <2>5 DEF Release, Goto
    <3>2. /\ [thread[t] EXCEPT !.pc = "released"].pc = "released"
          /\ \A pc : [thread[t] EXCEPT !.ids = Tracked(L(t)), !.pc = pc].pc = pc
      BY <2>1 DEF ThreadState
    <3> QED
      BY <3>1, <3>2 DEF Verifying
  <2>6. CASE ReleaseLookup(t)
    <3> DEFINE own(list) == {p \in list : p.leg = L(t) /\ p.tag = "preset"}
    <3>1. PICK list \in SUBSET plans :
            thread' = [thread EXCEPT ![t].pc = "cancel", ![t].ids = own(list)]
      BY <2>6 DEF ReleaseLookup
    <3> HIDE DEF own
    <3>2. [thread[t] EXCEPT !.pc = "cancel", !.ids = own(list)].pc = "cancel"
      BY <2>1 DEF ThreadState
    <3> QED
      BY <2>1, <3>1, <3>2 DEF Verifying
  <2>7. CASE ReleaseErase(t)
    <3>1. thread' = [thread EXCEPT ![t] = [thread[t] EXCEPT !.pc = "released"]]
      BY <2>7 DEF ReleaseErase, Goto
    <3>2. [thread[t] EXCEPT !.pc = "released"].pc = "released"
      BY <2>1 DEF ThreadState
    <3> QED
      BY <3>1, <3>2 DEF Verifying
  <2>8. CASE ReleaseReturns(t)
    <3>1. \/ thread' = [thread EXCEPT ![t] = Idle]
          \/ \E pc \in {"close", "phantoms"} :
               thread' = [thread EXCEPT ![t] = [thread[t] EXCEPT !.pc = pc]]
      BY <2>8 DEF ReleaseReturns, Goto, Return
    <3>2. \A pc : [thread[t] EXCEPT !.pc = pc].pc = pc
      BY <2>1 DEF ThreadState
    <3> QED
      BY <2>2, <3>1, <3>2 DEF Verifying
  <2> QED
    BY <2>3, <2>4, <2>5, <2>6, <2>7, <2>8
<1>2. Tick' = Tick \/ Tick'.pc \notin Verifying \cup {"register"}
  BY <1>1, TickOrPool DEF Threads
<1>3. /\ NoNewFallback /\ opens' = opens /\ unborn' = unborn
  BY DEF NoNewFallback, CancelNext, CancelsDone, Release, ReleaseLookup, ReleaseErase,
         ReleaseReturns, exchange
<1>4. BracketsCarried
  <2>1. brackets \in [Legs -> Bracket \cup {Untracked}] /\ L(t) \in Legs
    BY DEF TypeOK, ThreadState, L
  <2>2. \/ brackets' = brackets
        \/ brackets' = [brackets EXCEPT ![L(t)] = Untracked]
        \/ /\ Active(L(t))
           /\ brackets' = [brackets EXCEPT ![L(t)].status = "released"]
    BY DEF CancelNext, CancelsDone, Release, ReleaseLookup, ReleaseErase, ReleaseReturns
  <2>3. CASE brackets' = brackets
    BY <2>3, CarriesItself DEF BracketsCarried
  <2>4. CASE brackets' = [brackets EXCEPT ![L(t)] = Untracked]
    BY <2>1, <2>4, CarriesItself DEF BracketsCarried, Carries
  <2>5. CASE /\ Active(L(t))
             /\ brackets' = [brackets EXCEPT ![L(t)].status = "released"]
    <3>1. brackets[L(t)] \in Bracket /\ brackets[L(t)] # Untracked
      BY <2>1, <2>5 DEF Active, Untracked
    <3>2. Carries(brackets[L(t)], [brackets[L(t)] EXCEPT !.status = "released"])
      BY <3>1 DEF Carries, Bracket
    <3> QED
      BY <2>1, <2>5, <3>2, CarriesItself DEF BracketsCarried
  <2> QED
    BY <2>2, <2>3, <2>4, <2>5
<1> QED
  BY <1>2, <1>3, <1>4, PlacedCarried

(* The jobs of the pool, and the exchange.                                 *)
LEMMA PlacedElsewhere ==
  ASSUME TypeOK, EntriesOK, PlacedOK,
         \/ CleanupBegin \/ CleanupList \/ CleanupSpare \/ SyncRead \/ SyncApply
         \/ ReconcileRead \/ ReconcileCompare \/ Phantom \/ PhantomsDone
         \/ PresetAppears \/ Trigger
  PROVE  EntriesOK' /\ PlacedOK'
<1>1. Tick' = Tick
  <2>1. thread' = thread \/ \E r : thread' = [thread EXCEPT !["pool"] = r]
    BY DEF CleanupBegin, CleanupList, CleanupSpare, SyncRead, SyncApply, ReconcileRead,
           ReconcileCompare, Phantom, PhantomsDone, PresetAppears, Trigger, Return
  <2> QED
    BY <2>1, TickOrPool DEF Threads, Tick
<1>2. brackets' = brackets /\ opens' = opens
  BY DEF CleanupBegin, CleanupList, CleanupSpare, SyncRead, SyncApply, ReconcileRead,
         ReconcileCompare, Phantom, PhantomsDone, PresetAppears, Trigger, exchange
<1>3. /\ \A p \in unborn' : p \in unborn
      /\ NoNewFallback
  BY DEF NoNewFallback, EntriesOK, CleanupBegin, CleanupList, CleanupSpare, SyncRead,
         SyncApply, ReconcileRead, ReconcileCompare, Phantom, PhantomsDone, PresetAppears,
         Trigger, exchange
<1> QED
  BY <1>1, <1>2, <1>3, CarriesItself, PlacedCarried DEF BracketsCarried

(* The steps of the tick that place nothing and open no position.          *)
LEMMA PlacedTick ==
  ASSUME TypeOK, EntriesOK, PlacedOK,
         \/ StagnantClose \/ VerifyList \/ VerifyEnd
         \/ \E l \in Legs : Close(l) \/ Stagnant(l)
  PROVE  EntriesOK' /\ PlacedOK'
<1>0. "tick" \in Threads /\ Tick \in ThreadState /\ thread["tick"] = Tick
  BY DEF TypeOK, Threads, Tick
<1>1. \/ Tick'.pc \notin Verifying \cup {"register"}
      \/ /\ Tick.pc = "list" /\ Tick'.pc = "match"
         /\ Tick'.leg = Tick.leg /\ Tick'.n = Tick.n
  <2>1. CASE StagnantClose \/ VerifyEnd
    <3>1. thread' = [thread EXCEPT !["tick"] = Idle]
      BY <2>1 DEF StagnantClose, VerifyEnd, Return
    <3>2. Tick' = Idle
      BY <1>0, <3>1, TickOrPool
    <3> QED
      BY <3>2 DEF Idle, Verifying
  <2>2. CASE VerifyList
    <3>1. PICK list \in SUBSET plans :
            thread' = [thread EXCEPT !["tick"] = [Tick EXCEPT !.pc = "match", !.ids = list]]
      BY <2>2 DEF VerifyList, Tick
    <3>2. Tick' = [Tick EXCEPT !.pc = "match", !.ids = list]
      BY <1>0, <3>1, TickOrPool
    <3> QED
      BY <1>0, <2>2, <3>2 DEF VerifyList, At, ThreadState
  <2>3. ASSUME NEW l \in Legs, Close(l) \/ Stagnant(l)
        PROVE  Tick'.pc \notin Verifying \cup {"register"}
    <3>1. PICK op : thread' = [thread EXCEPT !["tick"] =
                                 [Idle EXCEPT !.pc = "release", !.op = op, !.leg = l]]
      BY <2>3 DEF Close, Stagnant
    <3>2. Tick' = [Idle EXCEPT !.pc = "release", !.op = op, !.leg = l]
      BY <1>0, <3>1, TickOrPool
    <3> QED
      BY <3>2 DEF Idle, Verifying
  <2> QED
    BY <2>1, <2>2, <2>3
<1>2. opens' = opens /\ (\A p \in unborn' : p \in unborn) /\ NoNewFallback
  BY DEF NoNewFallback, StagnantClose, VerifyList, VerifyEnd, Close, Stagnant, PositionEnds,
         exchange
<1>3. BracketsCarried
  <2>1. CASE ~VerifyEnd
    <3>1. brackets' = brackets
      BY <2>1 DEF StagnantClose, VerifyList, Close, Stagnant
    <3> QED
      BY <3>1, CarriesItself DEF BracketsCarried
  <2>2. CASE VerifyEnd
    <3> DEFINE l == Tick.leg
    <3>1. l \in Legs /\ brackets \in [Legs -> Bracket \cup {Untracked}]
      BY <1>0 DEF TypeOK, ThreadState
    <3>2. CASE brackets[l] = Untracked
      BY <2>2, <3>2, CarriesItself DEF VerifyEnd, BracketsCarried, L, Tick
    <3>3. CASE brackets[l] # Untracked
      <4>1. brackets' = [brackets EXCEPT ![l] =
               [brackets[l] EXCEPT !.verified = Missing(brackets[l]) = {}]]
        BY <2>2, <3>3 DEF VerifyEnd, L, Tick
      <4>2. brackets[l] \in Bracket
        BY <3>1, <3>3
      <4>3. Carries(brackets[l], [brackets[l] EXCEPT !.verified = Missing(brackets[l]) = {}])
        BY <3>3, <4>2 DEF Carries, Bracket
      <4> QED
        BY <3>1, <4>1, <4>3, CarriesItself DEF BracketsCarried
    <3> QED
      BY <3>2, <3>3
  <2> QED
    BY <2>1, <2>2
<1> QED
  BY <1>1, <1>2, <1>3, PlacedCarried

(* A new entry: no bracket, verification or fallback is of it yet.         *)
LEMMA PlacedOpen ==
  ASSUME TypeOK, EntriesOK, PlacedOK, NEW l \in Legs, Open(l)
  PROVE  EntriesOK' /\ PlacedOK'
<1>0. "tick" \in Threads /\ opens \in 0..MaxOpens /\ \A q \in plans : q.n \in 0..MaxOpens
  BY DEF TypeOK, Threads, Plan
<1>1. \A n \in 0..MaxOpens : n <= opens => n <= opens + 1 /\ n < opens + 1
  BY <1>0
<1>2. \A m \in Legs : brackets[m] # Untracked => brackets[m].n \in 0..MaxOpens
  BY DEF TypeOK, Bracket
<1>3. opens' = opens + 1 /\ plans' = plans /\ brackets' = brackets
  BY DEF Open
<1>4. Tick' = [Idle EXCEPT !.pc = "register", !.op = "open", !.leg = l, !.n = opens + 1]
  BY <1>0, TickOrPool DEF Open
<1>5. Tick'.pc = "register" /\ Tick'.n = opens + 1
  BY <1>4 DEF Idle
<1>6. \A p \in unborn' : p.tag = "preset"
  BY DEF EntriesOK, Open, Preset
<1>7. EntriesOK'
  BY <1>0, <1>1, <1>2, <1>3, <1>5, <1>6 DEF EntriesOK, Verifying
<1>8. PlacedOK'
  BY <1>0, <1>1, <1>3, <1>5 DEF EntriesOK, PlacedOK, Noted, Active
<1> QED
  BY <1>7, <1>8

(* A verification begins: it is of the entry of its bracket.               *)
LEMMA PlacedVerify ==
  ASSUME TypeOK, EntriesOK, PlacedOK, NEW l \in Legs, Verify(l)
  PROVE  EntriesOK' /\ PlacedOK'
<1>0. "tick" \in Threads
  BY DEF Threads
<1>1. Tick' = [Idle EXCEPT !.pc = "list", !.op = "verify", !.leg = l, !.n = brackets[l].n]
  BY <1>0, TickOrPool DEF Verify
<1>2. Tick'.pc = "list" /\ Tick'.leg = l /\ Tick'.n = brackets[l].n
  BY <1>1 DEF Idle
<1>3. brackets[l] # Untracked
  BY DEF Verify, Active, Untracked
<1>4. brackets' = brackets /\ opens' = opens /\ plans' = plans /\ unborn' = unborn
  BY DEF Verify, exchange
<1>5. EntriesOK'
  BY <1>2, <1>3, <1>4 DEF EntriesOK, Verifying
<1>6. PlacedOK'
  BY <1>2, <1>4 DEF PlacedOK, Noted, Active
<1> QED
  BY <1>5, <1>6

(* The bracket of a new entry: every fallback of the leg is of an earlier one. *)
LEMMA PlacedRegister ==
  ASSUME TypeOK, EntriesOK, PlacedOK, on_position_opened
  PROVE  EntriesOK' /\ PlacedOK'
<1> DEFINE l == Tick.leg
<1>0. /\ "tick" \in Threads /\ Tick \in ThreadState /\ l \in Legs
      /\ brackets \in [Legs -> Bracket \cup {Untracked}]
      /\ thread["tick"] = Tick
  BY DEF TypeOK, Threads, Tick, ThreadState
<1>1. Tick.pc = "register" /\ brackets' = [brackets EXCEPT ![l] = NewBracket(Tick.n)]
  BY DEF on_position_opened, At, L, Tick
<1>2. Tick'.pc = "cancel"
  <2> DEFINE ids == IF Active(l) THEN Tracked(l) ELSE {}
  <2>1. thread' = [thread EXCEPT !["tick"] = [Tick EXCEPT !.pc = "cancel", !.ids = ids]]
    BY <1>0 DEF on_position_opened, L
  <2> HIDE DEF ids
  <2>2. Tick' = [Tick EXCEPT !.pc = "cancel", !.ids = ids]
    BY <1>0, <2>1, TickOrPool
  <2> QED
    BY <1>0, <2>2 DEF ThreadState
<1>3. plans' = plans /\ opens' = opens /\ unborn' = unborn
  BY DEF on_position_opened, exchange
<1>4. NewBracket(Tick.n).n = Tick.n
  BY DEF NewBracket
<1>5. \A m \in Legs : brackets'[m] = IF m = l THEN NewBracket(Tick.n) ELSE brackets[m]
  BY <1>0, <1>1
<1>6. EntriesOK'
  BY <1>1, <1>2, <1>3, <1>4, <1>5 DEF EntriesOK, Verifying
<1>7. ASSUME NEW q \in plans, q.tag = "standalone" PROVE Noted(q)'
  <2>1. q.leg \in Legs /\ q.n \in 0..MaxOpens /\ Tick.n \in 0..MaxOpens
    BY <1>0 DEF TypeOK, Plan, ThreadState
  <2>2. q.n < Tick.n /\ Noted(q)
    BY <1>1, <1>7 DEF PlacedOK, Noted
  <2>3. CASE q.leg = l
    BY <1>2, <1>4, <1>5, <2>1, <2>2, <2>3 DEF Noted
  <2>4. CASE q.leg # l
    BY <1>2, <1>5, <2>1, <2>2, <2>4 DEF Noted, Active
  <2> QED
    BY <2>3, <2>4
<1> QED
  BY <1>3, <1>6, <1>7 DEF PlacedOK

(* The match: what is missing afterwards was missing before, so no         *)
(* fallback of this entry has that kind.                                   *)
LEMMA PlacedMatch ==
  ASSUME TypeOK, EntriesOK, PlacedOK, VerifyMatch
  PROVE  EntriesOK' /\ PlacedOK'
<1> DEFINE l == Tick.leg
<1>0. /\ "tick" \in Threads /\ Tick \in ThreadState /\ l \in Legs
      /\ brackets \in [Legs -> Bracket \cup {Untracked}]
      /\ thread["tick"] = Tick
  BY DEF TypeOK, Threads, Tick, ThreadState
<1>1. /\ Tick.pc = "match" /\ plans' = plans /\ opens' = opens /\ unborn' = unborn
      /\ NoNewFallback
  BY DEF VerifyMatch, At, Tick, exchange, NoNewFallback
<1>2. CASE ~Active(l)
  <2>1. brackets' = brackets /\ thread' = [thread EXCEPT !["tick"] = Idle]
    BY <1>2 DEF VerifyMatch, L, Return, Tick
  <2>2. Tick'.pc = "idle"
    BY <1>0, <2>1, TickOrPool DEF Idle
  <2> QED
    BY <1>1, <2>1, <2>2, CarriesItself, PlacedCarried DEF BracketsCarried, Verifying
<1>3. CASE Active(l)
  <2> DEFINE b(found) == Matched(brackets[l], found)
             done(found) == Missing(b(found)) = {} \/ b(found).attempts < MaxVerify
             c(found) == [b(found) EXCEPT !.verified = Missing(b(found)) = {}]
             r(found) == IF done(found) THEN Idle
                         ELSE [Tick EXCEPT !.pc = "place", !.ids = {},
                                           !.need = Missing(b(found))]
  <2>1. PICK found \in [Kinds -> Tick.ids \cup {NoPlan}] :
          /\ brackets' = [brackets EXCEPT ![l] = c(found)]
          /\ thread' = [thread EXCEPT !["tick"] = r(found)]
    BY <1>0, <1>3 DEF VerifyMatch, L
  <2>2. brackets[l] \in Bracket /\ brackets[l] # Untracked
    BY <1>0, <1>3 DEF Active, Untracked
  <2>3. /\ c(found).n = brackets[l].n /\ c(found).status = brackets[l].status
        /\ c(found).ids = [k \in Kinds |-> IF brackets[l].ids[k] = NoPlan THEN found[k]
                                                             ELSE brackets[l].ids[k]]
    BY <2>2 DEF Matched, Bracket
  <2>4. \A k \in Missing(b(found)) : k \in Kinds /\ brackets[l].ids[k] = NoPlan
    <3>1. b(found).ids = [k \in Kinds |-> IF brackets[l].ids[k] = NoPlan THEN found[k]
                                                             ELSE brackets[l].ids[k]]
      BY <2>2 DEF Matched, Bracket
    <3> QED
      BY <3>1 DEF Missing
  <2>5. Tick' = r(found)
    BY <1>0, <2>1, TickOrPool
  <2>6. \/ Tick'.pc = "idle"
        \/ /\ Tick'.pc = "place" /\ Tick'.leg = l /\ Tick'.n = Tick.n
           /\ Tick'.need = Missing(b(found))
    <3>1. \A need : LET s == [Tick EXCEPT !.pc = "place", !.ids = {}, !.need = need]
                   IN s.pc = "place" /\ s.leg = l /\ s.n = Tick.n /\ s.need = need
      BY <1>0 DEF ThreadState
    <3> QED
      BY <2>5, <3>1 DEF Idle
  <2> HIDE DEF b, c, r, done
  <2>7. BracketsCarried
    <3>1. Carries(brackets[l], c(found))
      BY <2>2, <2>3 DEF Carries
    <3> QED
      BY <1>0, <2>1, <3>1, CarriesItself DEF BracketsCarried
  <2>8. CASE Tick'.pc = "idle"
    BY <1>1, <2>7, <2>8, PlacedCarried DEF Verifying
  <2>9. CASE /\ Tick'.pc = "place" /\ Tick'.leg = l /\ Tick'.n = Tick.n
             /\ Tick'.need = Missing(b(found))
    <3>1. Tick.n <= opens /\ brackets[l].n = Tick.n
      BY <1>1, <2>2 DEF EntriesOK, Verifying
    <3>2. \A m \in Legs : brackets'[m] = IF m = l THEN c(found) ELSE brackets[m]
      BY <1>0, <2>1
    <3>3. EntriesOK'
      BY <1>0, <1>1, <2>3, <2>9, <3>1, <3>2 DEF EntriesOK, Verifying
    <3>4. ASSUME NEW q \in plans, q.tag = "standalone" PROVE Noted(q)'
      <4>1. q.leg \in Legs /\ q.kind \in Kinds /\ Noted(q)
        BY <3>4 DEF TypeOK, Plan, PlacedOK
      <4>2. q.leg = l /\ q.n = Tick.n => brackets[l].ids[q.kind] # NoPlan
        BY <1>3, <3>1, <4>1 DEF Noted
      <4>3. Active(q.leg)' /\ brackets'[q.leg].n = q.n => brackets'[q.leg].ids[q.kind] # NoPlan
        <5>1. CASE q.leg = l
          BY <1>3, <2>3, <3>1, <3>2, <4>1, <4>2, <5>1
        <5>2. CASE q.leg # l
          BY <3>2, <4>1, <5>2 DEF Noted, Active
        <5> QED
          BY <5>1, <5>2
      <4> QED
        BY <2>4, <2>9, <4>2, <4>3 DEF Noted
    <3> QED
      BY <1>1, <3>3, <3>4 DEF PlacedOK
  <2> QED
    BY <2>6, <2>8, <2>9
<1> QED
  BY <1>2, <1>3

(* The fallback is noted where it is placed: its kind is crossed out and   *)
(* its id stored, if the bracket is still there.  There was none before.   *)
LEMMA PlacedPlace ==
  ASSUME TypeOK, EntriesOK, PlacedOK, PlaceFallback
  PROVE  /\ EntriesOK' /\ PlacedOK'
         /\ \E new :
              /\ \A q \in plans' : q \in plans \/ q = new
              /\ ~ \E q \in plans :
                   q.tag = "standalone" /\ q.leg = new.leg /\ q.kind = new.kind /\ q.n = new.n
<1> DEFINE l == Tick.leg
           p(k) == [leg |-> l, kind |-> k, tag |-> "standalone", n |-> Tick.n,
                    id |-> placed + 1]
           lost(k) == [leg |-> l, kind |-> k, tag |-> "lost", n |-> Tick.n,
                       id |-> placed + 1]
<1>0. /\ "tick" \in Threads /\ Tick \in ThreadState /\ l \in Legs /\ Tick.need \subseteq Kinds
      /\ brackets \in [Legs -> Bracket \cup {Untracked}]
      /\ thread["tick"] = Tick
  BY DEF TypeOK, Threads, Tick, ThreadState
<1>1. Tick.pc = "place" /\ opens' = opens /\ unborn' = unborn
  BY DEF PlaceFallback, At, Tick
<1>2. PICK k \in Tick.need :
        /\ \/ plans' = plans \cup {p(k)} /\ brackets' = Stored(l, k, p(k))
           \/ plans' \in {plans, plans \cup {lost(k)}} /\ brackets' = brackets
        /\ thread' = [thread EXCEPT !["tick"] = [Tick EXCEPT !.need = @ \ {k}]]
  <2>1. \A k : [p(k) EXCEPT !.tag = "lost"] = lost(k)
    OBVIOUS
  <2> QED
    BY <1>0, <2>1 DEF PlaceFallback, L
<1>3. k \in Kinds
  BY <1>0
<1>4. /\ Tick'.pc = "place" /\ Tick'.leg = l /\ Tick'.n = Tick.n
      /\ Tick'.need = Tick.need \ {k}
  <2>1. Tick' = [Tick EXCEPT !.need = @ \ {k}]
    BY <1>0, <1>2, TickOrPool
  <2> QED
    BY <1>0, <1>1, <2>1 DEF ThreadState
<1>5. ASSUME NEW q \in plans, q.tag = "standalone", q.leg = l, q.n = Tick.n
      PROVE  q.kind # k
  BY <1>1, <1>5 DEF PlacedOK, Noted
<1>6. \E new : /\ new.leg = l /\ new.kind = k /\ new.n = Tick.n
              /\ \A q \in plans' : q \in plans \/ q = new
  <2>1. CASE \A q \in plans' : q \in plans \/ q = p(k)
    BY <2>1
  <2>2. CASE \A q \in plans' : q \in plans \/ q = lost(k)
    BY <2>2
  <2> QED
    BY <1>2, <2>1, <2>2
<1>7. \E new :
        /\ \A q \in plans' : q \in plans \/ q = new
        /\ ~ \E q \in plans :
             q.tag = "standalone" /\ q.leg = new.leg /\ q.kind = new.kind /\ q.n = new.n
  BY <1>5, <1>6
<1>8. /\ \A m \in Legs : m # l => brackets'[m] = brackets[m]
      /\ brackets[l] = Untracked => brackets'[l] = Untracked
      /\ brackets[l] # Untracked =>
           /\ brackets'[l] # Untracked
           /\ brackets'[l].n = brackets[l].n /\ brackets'[l].status = brackets[l].status
           /\ \A j \in Kinds : brackets[l].ids[j] # NoPlan => brackets'[l].ids[j] # NoPlan
           /\ p(k) \in plans' => p(k) \in plans \/ brackets'[l].ids[k] # NoPlan
  <2>1. p(k) # lost(k) /\ p(k) # NoPlan
    BY DEF NoPlan
  <2>2. CASE brackets' = brackets /\ plans' \in {plans, plans \cup {lost(k)}}
    BY <2>1, <2>2
  <2>3. CASE brackets' = Stored(l, k, p(k)) /\ brackets[l] = Untracked
    BY <1>0, <2>3 DEF Stored
  <2>4. CASE brackets' = Stored(l, k, p(k)) /\ brackets[l] # Untracked
    <3> HIDE DEF p
    <3>1. brackets' = [brackets EXCEPT ![l] = [brackets[l] EXCEPT !.ids[k] = p(k)]]
      BY <2>4 DEF Stored
    <3>2. brackets[l] \in Bracket
      BY <1>0, <2>4
    <3> DEFINE c == [brackets[l] EXCEPT !.ids[k] = p(k)]
    <3>3. /\ c.n = brackets[l].n /\ c.status = brackets[l].status
          /\ c.ids = [brackets[l].ids EXCEPT ![k] = p(k)]
      BY <3>2 DEF Bracket
    <3>4. c \in [status: {"active", "released"}, n: 0..MaxOpens, attempts: 0..MaxVerify,
                 verified: BOOLEAN, ids: {c.ids}]
      BY <3>2 DEF Bracket
    <3>5. c # Untracked
      BY <3>3, <3>4 DEF Untracked
    <3>6. /\ c.ids[k] = p(k)
          /\ \A j \in Kinds : j # k => c.ids[j] = brackets[l].ids[j]
      BY <1>3, <3>2, <3>3 DEF Bracket
    <3> HIDE DEF c
    <3>7. brackets'[l] = c /\ \A m \in Legs : m # l => brackets'[m] = brackets[m]
      BY <1>0, <3>1 DEF c
    <3> QED
      BY <2>1, <2>4, <3>3, <3>5, <3>6, <3>7
  <2> QED
    BY <1>2, <2>2, <2>3, <2>4
<1>9. \A q \in plans' : q.tag = "standalone" => q \in plans \/ q = p(k)
  BY <1>2
<1>10. p(k).leg = l /\ p(k).kind = k /\ p(k).n = Tick.n
  OBVIOUS
<1> HIDE DEF p, lost
<1>11. EntriesOK'
  <2>1. Tick.n <= opens /\ (brackets[l] # Untracked => brackets[l].n = Tick.n)
    BY <1>1 DEF EntriesOK, Verifying
  <2>2. brackets'[l] # Untracked => brackets'[l].n = Tick.n
    BY <1>8, <2>1
  <2>3. \A m \in Legs : brackets'[m] # Untracked => brackets'[m].n <= opens
    BY <1>8, <2>1, <2>2 DEF EntriesOK
  <2>4. \A q \in plans' : q.tag = "standalone" => q.n <= opens
    BY <1>9, <1>10, <2>1 DEF EntriesOK
  <2> QED
    BY <1>1, <1>4, <2>1, <2>2, <2>3, <2>4 DEF EntriesOK, Verifying
<1>12. ASSUME NEW q \in plans', q.tag = "standalone" PROVE Noted(q)'
  <2>1. CASE q \in plans
    <3>1. q.leg \in Legs /\ q.kind \in Kinds /\ Noted(q)
      BY <1>12, <2>1 DEF TypeOK, Plan, PlacedOK
    <3>2. Active(q.leg)' /\ brackets'[q.leg].n = q.n => brackets'[q.leg].ids[q.kind] # NoPlan
      BY <1>8, <3>1 DEF Noted, Active, Untracked
    <3> QED
      BY <1>1, <1>4, <3>1, <3>2 DEF Noted
  <2>2. CASE q \notin plans
    <3>1. q = p(k)
      BY <1>9, <1>12, <2>2
    <3>2. brackets'[l].status = "active" => brackets'[l].ids[k] # NoPlan
      BY <1>8, <1>12, <2>2, <3>1 DEF Untracked
    <3> QED
      BY <1>4, <1>10, <3>1, <3>2 DEF Noted, Active
  <2> QED
    BY <2>1, <2>2
<1> QED
  BY <1>7, <1>11, <1>12 DEF PlacedOK

FallbackInv == EntriesOK /\ PlacedOK

LEMMA FallbackInit == Init => FallbackInv
<1> SUFFICES ASSUME Init PROVE FallbackInv
  OBVIOUS
<1>1. Tick = Idle /\ Idle.pc = "idle"
  BY DEF Init, Tick, Threads, Idle
<1>2. \A q \in plans : q.tag = "preset"
  BY DEF Init, Preset
<1>3. \A l \in Legs : brackets[l] = Untracked
  BY DEF Init
<1> QED
  BY <1>1, <1>2, <1>3 DEF Init, FallbackInv, EntriesOK, PlacedOK, Verifying

LEMMA FallbackNext == TypeOK /\ FallbackInv /\ [Next]_vars => FallbackInv'
<1> SUFFICES ASSUME TypeOK, EntriesOK, PlacedOK, [Next]_vars PROVE EntriesOK' /\ PlacedOK'
  BY DEF FallbackInv
<1>0. {"tick", "pool"} \subseteq Threads
  BY DEF Threads
<1>1. CASE \E l \in Legs : Open(l) \/ Close(l) \/ Stagnant(l) \/ Verify(l)
  BY <1>1, PlacedOpen, PlacedVerify, PlacedTick
<1>2. CASE TickStep
  BY <1>0, <1>2, PlacedShared, PlacedTick, PlacedRegister, PlacedMatch, PlacedPlace DEF TickStep
<1>3. CASE CleanupBegin \/ SyncRead \/ ReconcileRead \/ PresetAppears \/ Trigger
  BY <1>3, PlacedElsewhere
<1>4. CASE PoolStep
  BY <1>0, <1>4, PlacedShared, PlacedElsewhere DEF PoolStep
<1>5. CASE UNCHANGED vars
  BY <1>5, CarriesItself, PlacedCarried DEF vars, BracketsCarried, NoNewFallback, Tick
<1> QED
  BY <1>1, <1>2, <1>3, <1>4, <1>5 DEF Next

(* Only the fallback itself adds a plan order that is no preset.           *)
LEMMA PlansAdded ==
  ASSUME EntriesOK, [Next]_vars, ~PlaceFallback
  PROVE  \A p \in plans' \ plans : p.tag = "preset"
BY DEF EntriesOK, Next, TickStep, PoolStep, Open, Close, Stagnant, Verify, PositionEnds,
       CancelNext, CancelsDone, on_position_opened, Release, ReleaseLookup, ReleaseErase,
       ReleaseReturns, StagnantClose, VerifyList, VerifyMatch, VerifyEnd, CleanupBegin,
       CleanupList, CleanupSpare, SyncRead, SyncApply, ReconcileRead, ReconcileCompare,
       Phantom, PhantomsDone, PresetAppears, Trigger, vars, exchange

(* A second fallback of the same entry and kind joins only those whose     *)
(* answer was lost.                                                        *)
LEMMA RepeatsNext ==
  ASSUME TypeOK, FallbackInv, FallbackRepeatsLostOnly, [Next]_vars
  PROVE  FallbackRepeatsLostOnly'
<1> SUFFICES ASSUME NEW p \in plans', NEW q \in plans', p # q, p.tag # "preset",
                    q.tag # "preset", p.leg = q.leg, p.kind = q.kind, p.n = q.n,
                    p.leg \in Legs, p.kind \in Kinds, p.n \in 0..MaxOpens
             PROVE  "lost" \in {p.tag, q.tag}
  BY DEF FallbackRepeatsLostOnly, Fallbacks
<1>1. CASE p \in plans /\ q \in plans
  BY <1>1 DEF FallbackRepeatsLostOnly, Fallbacks
<1>2. CASE ~(p \in plans /\ q \in plans)
  <2>1. PlaceFallback
    BY <1>2, PlansAdded DEF FallbackInv
  <2>2. PICK new :
          /\ \A r \in plans' : r \in plans \/ r = new
          /\ ~ \E r \in plans :
               r.tag = "standalone" /\ r.leg = new.leg /\ r.kind = new.kind /\ r.n = new.n
    BY <2>1, PlacedPlace DEF FallbackInv
  <2>3. \A r \in plans : r.tag \in {"preset", "standalone", "lost"}
    BY DEF TypeOK, Plan
  <2> QED
    BY <1>2, <2>2, <2>3
<1> QED
  BY <1>1, <1>2

(* For any legs and any bounds, and whatever releases, clean-ups, failed   *)
(* requests and new entries run between the verifications: of the live     *)
(* fallbacks of one entry and kind all but one are orders whose answer was *)
(* lost.  With no answer lost (protective_bracket_manager.cpp:667) a       *)
(* fallback is placed once; with every lost answer there may be one more.  *)
THEOREM FallbackRepeatsOnlyLost == Spec => []FallbackRepeatsLostOnly
<1>1. Init => FallbackRepeatsLostOnly
  <2> SUFFICES ASSUME Init PROVE \A q \in plans : q.tag = "preset"
    BY DEF FallbackRepeatsLostOnly, Fallbacks
  <2> QED
    BY DEF Init, Preset
<1>2. TypeOK /\ FallbackInv /\ FallbackRepeatsLostOnly /\ [Next]_vars
        => FallbackRepeatsLostOnly'
  BY RepeatsNext
<1>3. Spec => [](TypeOK /\ FallbackInv)
  BY FallbackInit, FallbackNext, BracketsTypeCorrect, PTL DEF Spec
<1> QED
  BY <1>1, <1>2, <1>3, PTL DEF Spec

=============================================================================
