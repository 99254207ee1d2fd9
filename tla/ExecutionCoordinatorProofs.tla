---------------------- MODULE ExecutionCoordinatorProofs ----------------------
(***************************************************************************)
(* Proofs about ExecutionCoordinator for every number of intents, workers, *)
(* coordinators, events, restarts and every history length.                *)
(***************************************************************************)
EXTENDS CoordinatorProperties, TLAPS

USE DEF FailReturns, OkReturns

-----------------------------------------------------------------------------
(* Where a worker goes *)

\* Types, and the intents that calls are about: what every proof below starts
\* from.
TypeInv == TypeOK /\ CallsComplete

NoIntentPCs == { "idle", "scan", "resolve", "report" }

\* A worker's call is replaced by a well-typed one that names its intent.
LEMMA BecomeType ==
  ASSUME TypeInv, NEW w \in Workers, NEW r \in Calls, Become(w, r),
         CompleteCall(r)
  PROVE  call' \in [ Workers -> Calls ] /\ CallsComplete'
<1>1. call \in [ Workers -> Calls ] /\ call' = [ call EXCEPT ![w] = r ]
  BY DEF TypeInv, TypeOK, Become
<1>2. \A v \in Workers : call'[v] = IF v = w THEN r ELSE call[v]
  BY <1>1
<1> QED BY <1>1, <1>2 DEF TypeInv, CallsComplete

LEMMA NoBodyRaw == NoBody \in Raws
BY DEF Raws

LEMMA IdleType == Idle \in Calls
BY NoBodyRaw DEF Idle, Calls, PCs

\* Continue, Goto, KillThen and StartApply do so.
LEMMA ContinueType ==
  ASSUME TypeInv, NEW w \in Workers, NEW pc \in PCs \ { "kill", "append" },
         Continue(w, pc), call[w].intent \in Intents \/ pc \in NoIntentPCs
  PROVE  call' \in [ Workers -> Calls ] /\ CallsComplete'
<1> DEFINE r == [ Idle EXCEPT !.pc = pc,
                    !.intent = IF pc \in { "idle", "resolve", "report" }
                               THEN NoIntent ELSE call[w].intent ]
<1>1. call[w].intent \in Intents \cup { NoIntent }
  BY DEF TypeInv, TypeOK, Calls
<1>2. r \in Calls
  BY <1>1, IdleType DEF Calls
<1>3. CompleteCall(r)
  BY DEF Idle, NoIntentPCs, CompleteCall
<1>4. Become(w, r)
  BY DEF Continue
<1> QED BY <1>2, <1>3, <1>4, BecomeType

LEMMA GotoType ==
  ASSUME TypeInv, NEW w \in Workers, NEW pc \in PCs \ { "kill", "append" }, Goto(w, pc),
         call[w].intent \in Intents \/ pc \in NoIntentPCs
  PROVE  call' \in [ Workers -> Calls ] /\ CallsComplete'
<1> DEFINE r == [ call[w] EXCEPT !.pc = pc ]
<1>1. call[w] \in Calls
  BY DEF TypeInv, TypeOK
<1>2. r \in Calls /\ CompleteCall(r)
  BY <1>1 DEF Calls, CompleteCall, NoIntentPCs
<1>3. Become(w, r)
  BY DEF Goto
<1> QED BY <1>2, <1>3, BecomeType

LEMMA KillThenType ==
  ASSUME TypeInv, NEW w \in Workers, NEW then \in FailReturns, KillThen(w, then),
         \/ call[w].intent \in Intents
         \/ then \notin { "trade_read", "unresolved" }
  PROVE  call' \in [ Workers -> Calls ] /\ CallsComplete'
<1> DEFINE r == [ call[w] EXCEPT !.pc = "kill", !.fail = then ]
<1>1. call[w] \in Calls
  BY DEF TypeInv, TypeOK
<1>2. \A q \in Calls : [ q EXCEPT !.pc = "kill" ] \in Calls
  BY DEF Calls, PCs
<1>3. \A q \in Calls : [ q EXCEPT !.fail = then ] \in Calls
  BY DEF Calls
<1>4. r \in Calls
  BY <1>1, <1>2, <1>3
<1>5. CompleteCall(r)
  BY <1>1 DEF Calls, CompleteCall
<1>6. Become(w, r)
  BY DEF KillThen
<1> QED BY <1>4, <1>5, <1>6, BecomeType

LEMMA StartApplyType ==
  ASSUME TypeInv, NEW w \in Workers, NEW i \in Intents, NEW state \in OrderStates,
         NEW src \in Sources, NEW raw \in Raws, NEW inOrder, NEW ok \in OkReturns,
         NEW fail \in FailReturns,
         StartApply(w, i, state, src, raw, inOrder, ok, fail)
  PROVE  call' \in [ Workers -> Calls ] /\ CallsComplete'
<1> DEFINE pc    == IF Acceptable(i, state, inOrder) THEN "append" ELSE "contradict"
           first == state \in FillStates /\ ~HasState(history[i], FillStates)
           r == [ Idle EXCEPT !.pc = pc, !.intent = i, !.state = state,
                    !.src = src, !.raw = raw, !.first = first, !.ok = ok, !.fail = fail ]
<1>1. pc \in PCs /\ first \in BOOLEAN
  BY DEF PCs
<1>2. Become(w, r)
  BY DEF StartApply
<1> HIDE DEF pc, first
<1>3. r \in Calls /\ CompleteCall(r)
  BY <1>1, IdleType DEF Calls, Idle, CompleteCall
<1> QED BY <1>2, <1>3, BecomeType

\* Appending an event keeps the histories well typed.
LEMMA AppendToType ==
  ASSUME TypeInv, NEW i \in Intents, NEW state \in OrderStates, NEW ref \in Refs,
         NEW src \in Sources, NEW raw \in Raws, AppendTo(i, state, ref, src, raw)
  PROVE  history' \in [ Intents -> Seq(Event) ]
<1>1. [ state |-> state, ref |-> ref, src |-> src, raw |-> raw ] \in Event
  BY DEF Event
<1>2. history \in [ Intents -> Seq(Event) ]
  BY DEF TypeInv, TypeOK
<1>3. Append(history[i], [ state |-> state, ref |-> ref, src |-> src, raw |-> raw ])
        \in Seq(Event)
  BY <1>1, <1>2
<1> QED BY <1>2, <1>3 DEF AppendTo

LEMMA PrepareType ==
  ASSUME TypeInv, NEW c \in Coordinators, NEW i \in Intents, Prepare(c, i)
  PROVE  prepared' \in [ Coordinators -> SUBSET Intents ]
BY DEF TypeInv, TypeOK, Prepare

-----------------------------------------------------------------------------
(* Type correctness *)

\* The steps of submit_intent and prepare.
LEMMA SubmitStepType ==
  ASSUME TypeInv, NEW w \in Workers, SubmitStep(w)
  PROVE  TypeInv'
<1> USE DEF PCs, NoIntentPCs, ledger, database, memory, ports
<1>0. /\ Home[w] \in Coordinators
      /\ call[w].pc \notin NoIntentPCs \cup { "kill" } => call[w].intent \in Intents
  BY ConstantsAssumption DEF TypeInv, TypeOK, CallsComplete, CompleteCall
<1>1. CASE DuplicateSubmission(w)
  <2>1. call' \in [ Workers -> Calls ] /\ CallsComplete'
    BY <1>1, ContinueType, KillThenType DEF DuplicateSubmission
  <2> QED BY <1>1, <2>1 DEF DuplicateSubmission, TypeInv, TypeOK
<1>2. CASE StartClaimed(w)
  <2>1. call' \in [ Workers -> Calls ] /\ CallsComplete'
    BY <1>0, <1>2, ContinueType, KillThenType DEF StartClaimed
  <2> QED BY <1>2, <2>1 DEF StartClaimed, TypeInv, TypeOK
<1>3. CASE PrepareRefused(w) \/ PrepareCollision(w)
  <2>1. call' \in [ Workers -> Calls ] /\ CallsComplete'
    BY <1>3, ContinueType, KillThenType DEF PrepareRefused, PrepareCollision
  <2> QED BY <1>3, <2>1 DEF PrepareRefused, PrepareCollision, TypeInv, TypeOK
<1>4. CASE PrepareCommit(w)
  <2>1. call[w].intent \in Intents
    BY <1>0, <1>4 DEF PrepareCommit
  <2>2. call' \in [ Workers -> Calls ] /\ CallsComplete'
    BY <2>1, <1>4, ContinueType DEF PrepareCommit
  <2>3. prepared' \in [ Coordinators -> SUBSET Intents ]
    BY <2>1, <1>0, <1>4, PrepareType DEF PrepareCommit
  <2> QED BY <1>4, <2>1, <2>2, <2>3 DEF PrepareCommit, TypeInv, TypeOK
<1>5. CASE SignBoundary(w) \/ SubmitBoundary(w)
  <2>1. call' \in [ Workers -> Calls ] /\ CallsComplete'
    BY <1>0, <1>5, ContinueType, KillThenType
    DEF SignBoundary, SubmitBoundary, Boundary
  <2> QED BY <1>5, <2>1 DEF SignBoundary, SubmitBoundary, TypeInv, TypeOK
<1>6. CASE Sign(w)
  <2>1. call' \in [ Workers -> Calls ] /\ CallsComplete'
    BY <1>0, <1>6, ContinueType DEF Sign
  <2> QED BY <1>6, <2>1 DEF Sign, TypeInv, TypeOK
<1>7. CASE PersistBoundary(w)
  <2>1. call[w].intent \in Intents
    BY <1>0, <1>7 DEF PersistBoundary
  <2>2. call' \in [ Workers -> Calls ] /\ CallsComplete'
    BY <2>1, <1>7, ContinueType, KillThenType DEF PersistBoundary
  <2>3. history' \in [ Intents -> Seq(Event) ]
    BY <2>1, <1>7, AppendToType, NoBodyRaw
    DEF PersistBoundary, TypeInv, TypeOK, OrderStates, Refs, Sources, Origins
  <2> QED BY <1>7, <2>1, <2>2, <2>3 DEF PersistBoundary, TypeInv, TypeOK
<1>8. CASE Post(w)
  <2>1. PICK code \in SubmitCodes :
          Become(w, [ call[w] EXCEPT !.pc = "classify", !.code = code ])
    BY <1>8 DEF Post
  <2>2. call[w] \in Calls /\ call[w].intent \in Intents
    BY <1>0, <1>8 DEF Post, TypeInv, TypeOK
  <2>3. \A q \in Calls : /\ [ q EXCEPT !.pc = "classify" ] \in Calls
                         /\ [ q EXCEPT !.code = code ] \in Calls
    BY DEF Calls
  <2>4. call' \in [ Workers -> Calls ] /\ CallsComplete'
    <3> DEFINE r == [ call[w] EXCEPT !.pc = "classify", !.code = code ]
    <3>1. r \in Calls
      BY <2>2, <2>3
    <3>2. CompleteCall(r)
      BY <2>2 DEF Calls, CompleteCall
    <3> QED BY <2>1, <3>1, <3>2, BecomeType
  <2>5. posts' \in [ Intents -> Nat ]
    BY <1>8, <2>2 DEF Post, TypeInv, TypeOK
  <2> QED BY <1>8, <2>4, <2>5 DEF Post, TypeInv, TypeOK
<1>9. CASE Classify(w)
  <2>1. call[w].intent \in Intents
    BY <1>0, <1>9 DEF Classify
  <2>2. call' \in [ Workers -> Calls ] /\ CallsComplete'
    BY <2>1, <1>9, ContinueType, KillThenType DEF Classify
  <2>3. /\ SubmittedState(call[w].code) \in OrderStates
        /\ "UNKNOWN" \in OrderStates
        /\ { "rest", "coordinator" } \subseteq Sources
    BY DEF SubmittedState, OrderStates, Sources, Origins
  <2>4. history' \in [ Intents -> Seq(Event) ]
    BY <2>1, <2>3, <1>9, AppendToType, NoBodyRaw DEF Classify, Refs
  <2> QED BY <1>9, <2>2, <2>4 DEF Classify, TypeInv, TypeOK
<1>10. CASE UnknownAfterSign(w)
  <2>1. call[w].intent \in Intents
    BY <1>0, <1>10 DEF UnknownAfterSign
  <2>2. call' \in [ Workers -> Calls ] /\ CallsComplete'
    BY <2>1, <1>10, KillThenType DEF UnknownAfterSign
  <2>3. history' \in [ Intents -> Seq(Event) ]
    BY <2>1, <1>10, AppendToType, NoBodyRaw
    DEF UnknownAfterSign, OrderStates, Refs, Sources, Origins
  <2> QED BY <1>10, <2>2, <2>3 DEF UnknownAfterSign, TypeInv, TypeOK
<1> QED BY <1>1, <1>2, <1>3, <1>4, <1>5, <1>6, <1>7, <1>8, <1>9, <1>10
        DEF SubmitStep

\* The steps of apply_order_event, and _engage_kill.
LEMMA ApplyStepType ==
  ASSUME TypeInv, NEW w \in Workers, ApplyStep(w) \/ EngageKill(w)
  PROVE  TypeInv'
<1> USE DEF PCs, NoIntentPCs, ledger, database, memory, ports
<1>0. /\ call[w] \in Calls
      /\ call[w].pc \notin NoIntentPCs \cup { "kill" } => call[w].intent \in Intents
      /\ call[w].pc = "append" =>
           call[w].state \in OrderStates /\ call[w].src \in Sources
      /\ call[w].raw \in Raws
  BY DEF TypeInv, TypeOK, CallsComplete, CompleteCall, Calls
<1>1. CASE AppendEvent(w)
  <2>1. /\ call[w].intent \in Intents
        /\ call[w].ok \in OkReturns
    BY <1>0, <1>1 DEF AppendEvent, Calls
  <2>2. call' \in [ Workers -> Calls ] /\ CallsComplete'
    BY <2>1, <1>1, ContinueType, GotoType DEF AppendEvent
  <2>3. history' \in [ Intents -> Seq(Event) ]
    BY <1>0, <2>1, <1>1, AppendToType, NoBodyRaw DEF AppendEvent, Refs, TypeInv, TypeOK
  <2> QED BY <1>1, <2>2, <2>3 DEF AppendEvent, TypeInv, TypeOK
<1>2. CASE ClaimFirstFill(w)
  <2>1. /\ call[w].intent \in Intents
        /\ call[w].ok \in OkReturns
        /\ call[w].src \in Sources \cup { "none" }
    BY <1>0, <1>2 DEF ClaimFirstFill, Calls
  <2>2. call' \in [ Workers -> Calls ] /\ CallsComplete'
    BY <2>1, <1>2, ContinueType, GotoType DEF ClaimFirstFill
  <2>3. firstFill' \in [ Intents -> Sources \cup { "none" } ]
    BY <2>1, <1>2 DEF ClaimFirstFill, TypeInv, TypeOK
  <2> QED BY <1>2, <2>2, <2>3 DEF ClaimFirstFill, TypeInv, TypeOK
<1>3. CASE Revalidate(w)
  <2>1. call[w].intent \in Intents /\ call[w].ok \in OkReturns
    BY <1>0, <1>3 DEF Revalidate, Calls
  <2>2. call' \in [ Workers -> Calls ] /\ CallsComplete'
    BY <2>1, <1>3, ContinueType, KillThenType DEF Revalidate
  <2>3. \/ revalidations' = revalidations
        \/ revalidations' = [ revalidations EXCEPT ![call[w].intent] = @ + 1 ]
    BY <1>3 DEF Revalidate
  <2>4. revalidations' \in [ Intents -> Nat ]
    <3>1. revalidations \in [ Intents -> Nat ]
      BY DEF TypeInv, TypeOK
    <3> QED BY <2>1, <2>3, <3>1
  <2> QED BY <1>3, <2>2, <2>4 DEF Revalidate, TypeInv, TypeOK
<1>4. CASE Contradict(w)
  <2>1. call[w].intent \in Intents /\ call[w].fail \in FailReturns
    BY <1>0, <1>4 DEF Contradict, Calls
  <2>2. call' \in [ Workers -> Calls ] /\ CallsComplete'
    BY <2>1, <1>4, KillThenType DEF Contradict
  <2>3. history' \in [ Intents -> Seq(Event) ]
    BY <1>0, <2>1, <1>4, AppendToType, NoBodyRaw
    DEF Contradict, OrderStates, Refs, Sources, Origins
  <2> QED BY <1>4, <2>2, <2>3 DEF Contradict, TypeInv, TypeOK
<1>5. CASE EngageKill(w)
  <2>1. /\ call[w].fail \in FailReturns
        /\ call[w].fail \in { "trade_read", "unresolved" } =>
             call[w].intent \in Intents
    BY <1>0, <1>5 DEF EngageKill, Calls, TypeInv, CallsComplete, CompleteCall
  <2>2. call' \in [ Workers -> Calls ] /\ CallsComplete'
    BY <2>1, <1>5, ContinueType DEF EngageKill
  <2> QED BY <1>5, <2>2 DEF EngageKill, TypeInv, TypeOK
<1> QED BY <1>1, <1>2, <1>3, <1>4, <1>5 DEF ApplyStep

\* A recovery stays well typed when one of its fields is set.
LEMMA RecoveryFields ==
  ASSUME NEW r \in Recoveries
  PROVE  /\ \A b \in BOOLEAN : /\ [ r EXCEPT !.valid = b ] \in Recoveries
                               /\ [ r EXCEPT !.closed = b ] \in Recoveries
         /\ \A S \in SUBSET Intents :
              /\ [ r EXCEPT !.intents = S ] \in Recoveries
              /\ [ r EXCEPT !.reads = S ] \in Recoveries
              /\ [ r EXCEPT !.cancels = S ] \in Recoveries
              /\ [ r EXCEPT !.blocked = S ] \in Recoveries
         /\ \A f \in [ Intents -> Nat ] : /\ [ r EXCEPT !.seen = f ] \in Recoveries
                                         /\ [ r EXCEPT !.read = f ] \in Recoveries
         /\ \A body \in OrderBodies : [ r EXCEPT !.orders = body ] \in Recoveries
         /\ \A body \in TradeBodies : [ r EXCEPT !.trades = body ] \in Recoveries
BY DEF Recoveries

\* Replacing the running recovery of one coordinator.
LEMMA RecType ==
  ASSUME TypeInv, NEW c \in Coordinators, NEW r \in Recoveries,
         rec' = [ rec EXCEPT ![c] = r ]
  PROVE  rec' \in [ Coordinators -> Recoveries ]
BY DEF TypeInv, TypeOK

LEMMA TriageType ==
  ASSUME TypeInv, NEW r \in Recoveries, NEW valid \in BOOLEAN,
         NEW closed \in BOOLEAN, NEW unsettled
  PROVE  Triage(r, valid, closed, unsettled) \in Recoveries
<1> DEFINE forced == Forced(r.startup, r.uncertain, unsettled, closed)
           open   == { i \in persisted \ forced :
                         /\ history[i] # << >>
                         /\ LatestState(history[i]) \in UnresolvedStates }
           usable == { i \in open : valid /\ VenueIdKnown(history[i]) }
           cancel == { i \in usable : LatestState(history[i]) = "CANCEL_PENDING" }
           seen   == [ i \in Intents |-> Len(history[i]) ]
<1>1. /\ forced \subseteq persisted
      /\ persisted \in SUBSET Intents
  BY DEF Forced, TypeInv, TypeOK
<1>2. /\ cancel \in SUBSET Intents
      /\ usable \ cancel \in SUBSET Intents
      /\ forced \cup (open \ usable) \in SUBSET Intents
  BY <1>1
<1>3. seen \in [ Intents -> Nat ]
  BY DEF TypeInv, TypeOK
<1> HIDE DEF forced, open, usable, cancel, seen
<1>4. [ r EXCEPT !.valid = valid, !.closed = closed, !.intents = persisted,
                 !.cancels = cancel, !.reads = usable \ cancel,
                 !.blocked = forced \cup (open \ usable),
                 !.read = seen, !.seen = seen ]
        \in Recoveries
  BY <1>1, <1>2, <1>3, RecoveryFields
<1> QED BY <1>4 DEF Triage, forced, open, usable, cancel, seen

\* The steps of recovery.
LEMMA RecoveryStepType ==
  ASSUME TypeInv, NEW w \in Workers, RecoveryStep(w)
  PROVE  TypeInv'
<1> USE DEF PCs, NoIntentPCs, ledger, database, memory, ports
<1>0. /\ Home[w] \in Coordinators
      /\ rec \in [ Coordinators -> Recoveries ]
      /\ call[w] \in Calls
      /\ call[w].pc \notin NoIntentPCs \cup { "kill" } => call[w].intent \in Intents
  BY ConstantsAssumption DEF TypeInv, TypeOK, CallsComplete, CompleteCall
<1>1. CASE Scan(w)
  <2>1. call' \in [ Workers -> Calls ] /\ CallsComplete'
    BY <1>1, GotoType, KillThenType DEF Scan
  <2>2. rec' \in [ Coordinators -> Recoveries ]
    <3>1. PICK valid \in BOOLEAN, closed \in BOOLEAN,
               unsettled \in SUBSET { i \in persisted : VenueIdKnown(history[i]) } :
            rec' = [ rec EXCEPT ![Home[w]] =
                       Triage(rec[Home[w]], valid, closed, unsettled) ]
      BY <1>1 DEF Scan
    <3>2. Triage(rec[Home[w]], valid, closed, unsettled) \in Recoveries
      BY <1>0, TriageType
    <3> QED BY <1>0, <3>1, <3>2, RecType
  <2> QED BY <1>1, <2>1, <2>2 DEF Scan, TypeInv, TypeOK
<1>2. CASE \E i \in Intents : ResolveByRead(w, i) \/ ResolveByCancel(w, i)
  <2>1. PICK i \in Intents : ResolveByRead(w, i) \/ ResolveByCancel(w, i)
    BY <1>2
  <2>2. /\ [ Idle EXCEPT !.pc = "order_read", !.intent = i ] \in Calls
        /\ [ Idle EXCEPT !.pc = "cancel", !.intent = i ] \in Calls
    BY NoBodyRaw DEF Idle, Calls
  <2>3. call' \in [ Workers -> Calls ] /\ CallsComplete'
    BY <2>1, <2>2, BecomeType DEF ResolveByRead, ResolveByCancel, Idle, CompleteCall
  <2>4. rec' \in [ Coordinators -> Recoveries ]
    <3>1. PICK S \in SUBSET Intents :
            \/ rec' = [ rec EXCEPT ![Home[w]] = [ rec[Home[w]] EXCEPT !.reads = S ] ]
            \/ rec' = [ rec EXCEPT ![Home[w]] = [ rec[Home[w]] EXCEPT !.cancels = S ] ]
      BY <1>0, <2>1 DEF ResolveByRead, ResolveByCancel, Recoveries
    <3> QED BY <1>0, <3>1, RecoveryFields, RecType
  <2> QED BY <2>1, <2>3, <2>4
          DEF ResolveByRead, ResolveByCancel, TypeInv, TypeOK
<1>3. CASE OrderRead(w)
  <2>1. call[w].intent \in Intents
    BY <1>0, <1>3 DEF OrderRead
  <2>0. rec[Home[w]].orders \in OrderBodies \cup { NoBody }
    BY <1>0 DEF Recoveries
  <2> DEFINE bodies == BodyOf(rec[Home[w]].orders, OrderBodies)
  <2>4. bodies \subseteq OrderBodies /\ bodies \subseteq Raws
    BY <2>0 DEF BodyOf, Raws
  <2>2. call' \in [ Workers -> Calls ] /\ CallsComplete'
    <3> HIDE DEF bodies
    <3>1. CASE Continue(w, "trade_read")
      BY <2>1, <3>1, ContinueType
    <3>2. CASE \E body \in bodies, state \in FillStates,
                    inOrder \in RecoveryOrder(Home[w], call[w].intent) :
                 StartApply(w, call[w].intent, state, "recovery", body, inOrder,
                            "resolve", "trade_read")
      BY <2>1, <2>4, <3>2, StartApplyType
      DEF FillStates, OrderStates, Sources, Origins
    <3> QED BY <1>3, <3>1, <3>2 DEF OrderRead, bodies
  <2>5. rec' \in [ Coordinators -> Recoveries ]
    <3>1. CASE UNCHANGED rec
      BY <1>0, <3>1
    <3>2. CASE \E body \in OrderBodies :
                 rec' = [ rec EXCEPT ![Home[w]] =
                            [ rec[Home[w]] EXCEPT !.orders = body ] ]
      BY <1>0, <3>2, RecoveryFields, RecType
    <3> QED BY <1>3, <2>4, <3>1, <3>2 DEF OrderRead
  <2>3. prepared' \in [ Coordinators -> SUBSET Intents ]
    BY <1>0, <2>1, <1>3, PrepareType DEF OrderRead, TypeInv, TypeOK
  <2> QED BY <1>3, <2>2, <2>3, <2>5 DEF OrderRead, TypeInv, TypeOK
<1>4. CASE TradeRead(w)
  <2>1. call[w].intent \in Intents
    BY <1>0, <1>4 DEF TradeRead
  <2>0. rec[Home[w]].trades \in TradeBodies \cup { NoBody }
    BY <1>0 DEF Recoveries
  <2> DEFINE bodies == BodyOf(rec[Home[w]].trades, TradeBodies)
  <2>4. bodies \subseteq TradeBodies /\ bodies \subseteq Raws
    BY <2>0 DEF BodyOf, Raws
  <2>2. call' \in [ Workers -> Calls ] /\ CallsComplete'
    <3> HIDE DEF bodies
    <3>1. CASE Continue(w, "unresolved")
      BY <2>1, <3>1, ContinueType
    <3>2. CASE \E body \in bodies, state \in FillStates,
                    inOrder \in RecoveryOrder(Home[w], call[w].intent) :
                 StartApply(w, call[w].intent, state, "recovery", body, inOrder,
                            "resolve", "unresolved")
      BY <2>1, <2>4, <3>2, StartApplyType
      DEF FillStates, OrderStates, Sources, Origins
    <3> QED BY <1>4, <3>1, <3>2 DEF TradeRead, bodies
  <2>5. rec' \in [ Coordinators -> Recoveries ]
    <3>1. CASE UNCHANGED rec
      BY <1>0, <3>1
    <3>2. CASE \E body \in TradeBodies :
                 rec' = [ rec EXCEPT ![Home[w]] =
                            [ rec[Home[w]] EXCEPT !.trades = body ] ]
      BY <1>0, <3>2, RecoveryFields, RecType
    <3> QED BY <1>4, <2>4, <3>1, <3>2 DEF TradeRead
  <2>6. trades' \in [ Intents -> TradeBodies \cup { NoBody } ]
    BY <1>4, <2>1, <2>4 DEF TradeRead, TypeInv, TypeOK
  <2>3. prepared' \in [ Coordinators -> SUBSET Intents ]
    BY <1>0, <2>1, <1>4, PrepareType DEF TradeRead, TypeInv, TypeOK
  <2> QED BY <1>4, <2>1, <2>2, <2>3, <2>5, <2>6 DEF TradeRead, TypeInv, TypeOK
<1>5. CASE Cancel(w)
  <2>1. call[w].intent \in Intents
    BY <1>0, <1>5 DEF Cancel
  <2>2. call' \in [ Workers -> Calls ] /\ CallsComplete'
    BY <2>1, <1>5, ContinueType DEF Cancel
  <2>3. prepared' \in [ Coordinators -> SUBSET Intents ]
    BY <1>0, <2>1, <1>5, PrepareType DEF Cancel, TypeInv, TypeOK
  <2> QED BY <1>5, <2>2, <2>3 DEF Cancel, TypeInv, TypeOK
<1>6. CASE SendCancel(w)
  <2>1. PICK code \in CancelCodes :
          Become(w, [ call[w] EXCEPT !.pc = "cancel_result", !.code = code ])
    BY <1>6 DEF SendCancel
  <2>2. call[w].intent \in Intents
    BY <1>0, <1>6 DEF SendCancel
  <2>3. \A q \in Calls : /\ [ q EXCEPT !.pc = "cancel_result" ] \in Calls
                         /\ [ q EXCEPT !.code = code ] \in Calls
    BY DEF Calls
  <2>4. call' \in [ Workers -> Calls ] /\ CallsComplete'
    <3> DEFINE r == [ call[w] EXCEPT !.pc = "cancel_result", !.code = code ]
    <3>1. r \in Calls
      BY <1>0, <2>3
    <3>2. CompleteCall(r)
      BY <1>0, <2>2 DEF Calls, CompleteCall
    <3> QED BY <2>1, <3>1, <3>2, BecomeType
  <2>5. cancels' \in [ Intents -> Nat ]
    BY <1>6, <2>2 DEF SendCancel, TypeInv, TypeOK
  <2> QED BY <1>6, <2>4, <2>5 DEF SendCancel, TypeInv, TypeOK
<1>7. CASE CancelResult(w)
  <2>1. call[w].intent \in Intents
    BY <1>0, <1>7 DEF CancelResult
  <2>2. call' \in [ Workers -> Calls ] /\ CallsComplete'
    BY <2>1, <1>7, ContinueType DEF CancelResult
  <2>3. history' \in [ Intents -> Seq(Event) ]
    BY <2>1, <1>7, AppendToType, NoBodyRaw
    DEF CancelResult, OrderStates, Refs, Sources, Origins, TypeInv, TypeOK
  <2>4. Len(history[call[w].intent]) + 1 \in Nat
    BY <2>1 DEF TypeInv, TypeOK
  <2>5. rec' \in [ Coordinators -> Recoveries ]
    <3>1. [ rec[Home[w]].seen EXCEPT
              ![call[w].intent] = Len(history[call[w].intent]) + 1 ]
            \in [ Intents -> Nat ]
      BY <1>0, <2>1, <2>4 DEF Recoveries
    <3> QED BY <1>0, <1>7, <3>1, RecoveryFields, RecType DEF CancelResult
  <2> QED BY <1>7, <2>2, <2>3, <2>5 DEF CancelResult, TypeInv, TypeOK
<1>8. CASE Confirm(w)
  <2>1. call[w].intent \in Intents
    BY <1>0, <1>8 DEF Confirm
  <2>2. call' \in [ Workers -> Calls ] /\ CallsComplete'
    BY <2>1, <1>8, ContinueType, StartApplyType, NoBodyRaw
    DEF Confirm, OrderStates, Sources, Origins
  <2> QED BY <1>8, <2>2 DEF Confirm, TypeInv, TypeOK
<1>9. CASE Unresolved(w)
  <2>1. call[w].intent \in Intents
    BY <1>0, <1>9 DEF Unresolved
  <2>2. call' \in [ Workers -> Calls ] /\ CallsComplete'
    BY <1>9, ContinueType DEF Unresolved
  <2>3. rec' \in [ Coordinators -> Recoveries ]
    <3>1. rec[Home[w]].blocked \cup { call[w].intent } \in SUBSET Intents
      BY <1>0, <2>1 DEF Recoveries
    <3> QED BY <1>0, <1>9, <3>1, RecoveryFields, RecType DEF Unresolved
  <2> QED BY <1>9, <2>2, <2>3 DEF Unresolved, TypeInv, TypeOK
<1>10. CASE CloseRecovery(w)
  <2>1. call' \in [ Workers -> Calls ] /\ CallsComplete'
    BY <1>10, GotoType, KillThenType DEF CloseRecovery
  <2> QED BY <1>10, <2>1 DEF CloseRecovery, TypeInv, TypeOK
<1>11. CASE Report(w)
  <2>1. call' \in [ Workers -> Calls ] /\ CallsComplete'
    BY <1>11, ContinueType DEF Report
  <2>2. rec' \in [ Coordinators -> Recoveries ]
    BY <1>0, <1>11 DEF Report, Recoveries, NoRecovery
  <2> QED BY <1>0, <1>11, <2>1, <2>2 DEF Report, TypeInv, TypeOK
<1> QED BY <1>1, <1>2, <1>3, <1>4, <1>5, <1>6, <1>7, <1>8, <1>9, <1>10, <1>11
        DEF RecoveryStep

\* The calls a worker starts.
LEMMA BeginType ==
  ASSUME TypeInv, NEW w \in Workers, Begin(w)
  PROVE  TypeInv'
<1> USE DEF PCs, NoIntentPCs, ledger, database, memory, ports
<1>0. Home[w] \in Coordinators
  BY ConstantsAssumption
<1>1. ASSUME NEW i \in Intents,
             PrepareCall(w, i) \/ ClaimSubmission(w, i) \/ SubmissionTaken(w, i)
      PROVE  TypeInv'
  <2>1. \A pc \in PCs : [ Idle EXCEPT !.pc = pc, !.intent = i ] \in Calls
    <3>1. \A r \in Calls : /\ \A pc \in PCs : [ r EXCEPT !.pc = pc ] \in Calls
                           /\ [ r EXCEPT !.intent = i ] \in Calls
      BY DEF Calls
    <3> QED BY <3>1, IdleType
  <2>2. \A pc \in PCs \ { "append" } :
          CompleteCall([ Idle EXCEPT !.pc = pc, !.intent = i ])
    BY DEF Idle, CompleteCall
  <2>3. call' \in [ Workers -> Calls ] /\ CallsComplete'
    BY <1>1, <2>1, <2>2, BecomeType
    DEF PrepareCall, ClaimSubmission, SubmissionTaken
  <2> QED BY <1>1, <2>3
          DEF PrepareCall, ClaimSubmission, SubmissionTaken, TypeInv, TypeOK
<1>2. ASSUME NEW i \in Intents, NEW e \in EventIds, DeliverEvent(w, i, e)
      PROVE  TypeInv'
  <2>1. PICK state \in FeedStates, inOrder \in BOOLEAN :
          /\ feed' = [ feed EXCEPT ![e] = state ]
          /\ StartApply(w, i, state, e, e, inOrder, "idle", "idle")
    BY <1>2 DEF DeliverEvent
  <2>2. state \in OrderStates /\ e \in Sources /\ e \in Raws
    BY ConstantsAssumption DEF Sources, Raws
  <2>3. call' \in [ Workers -> Calls ] /\ CallsComplete'
    BY <2>1, <2>2, StartApplyType
  <2>4. feed' \in [ EventIds -> OrderStates \cup { "none" } ]
    BY <2>1, <2>2 DEF TypeInv, TypeOK
  <2> QED BY <1>2, <2>3, <2>4 DEF DeliverEvent, TypeInv, TypeOK
<1>3. ASSUME NEW startup \in BOOLEAN, NEW uncertain \in BOOLEAN,
             StartRecovery(w, startup, uncertain)
      PROVE  TypeInv'
  <2>1. [ Idle EXCEPT !.pc = "scan" ] \in Calls
    BY NoBodyRaw DEF Idle, Calls
  <2>2. call' \in [ Workers -> Calls ] /\ CallsComplete'
    BY <1>3, <2>1, BecomeType DEF StartRecovery, Idle, CompleteCall
  <2>3. rec' \in [ Coordinators -> Recoveries ]
    BY <1>0, <1>3 DEF StartRecovery, Recoveries, NoRecovery, TypeInv, TypeOK
  <2> QED BY <1>3, <2>2, <2>3 DEF StartRecovery, TypeInv, TypeOK
<1> QED BY <1>1, <1>2, <1>3 DEF Begin

LEMMA TypeInvInit == Init => TypeInv
<1> SUFFICES ASSUME Init PROVE TypeInv
  OBVIOUS
<1>1. call \in [ Workers -> Calls ] /\ CallsComplete
  BY IdleType DEF Init, CallsComplete, CompleteCall, Idle
<1>2. rec \in [ Coordinators -> Recoveries ]
  BY DEF Init, Recoveries, NoRecovery
<1>3. history \in [ Intents -> Seq(Event) ]
  BY DEF Init
<1>4. /\ firstFill \in [ Intents -> Sources \cup { "none" } ]
      /\ prepared \in [ Coordinators -> SUBSET Intents ]
      /\ feed \in [ EventIds -> OrderStates \cup { "none" } ]
      /\ posts \in [ Intents -> Nat ]
      /\ cancels \in [ Intents -> Nat ]
      /\ revalidations \in [ Intents -> Nat ]
      /\ trades \in [ Intents -> TradeBodies \cup { NoBody } ]
  BY DEF Init
<1> QED BY <1>1, <1>2, <1>3, <1>4 DEF Init, TypeInv, TypeOK

LEMMA TypeInvNext == TypeInv /\ [Next]_vars => TypeInv'
<1> SUFFICES ASSUME TypeInv, [Next]_vars PROVE TypeInv'
  OBVIOUS
<1> USE DEF ledger, database, memory, ports
<1>1. CASE \E w \in Workers : Begin(w) \/ Step(w)
  BY <1>1, BeginType, SubmitStepType, ApplyStepType, RecoveryStepType DEF Step
<1>2. CASE Reconcile
  BY <1>2 DEF Reconcile, TypeInv, TypeOK, CallsComplete
<1>3. CASE Restart
  <2>1. call' \in [ Workers -> Calls ] /\ CallsComplete'
    BY <1>3, IdleType DEF Restart, CallsComplete, CompleteCall, Idle
  <2>2. rec' \in [ Coordinators -> Recoveries ]
    BY <1>3 DEF Restart, Recoveries, NoRecovery
  <2> QED BY <1>3, <2>1, <2>2 DEF Restart, TypeInv, TypeOK
<1>4. CASE UNCHANGED vars
  BY <1>4 DEF vars, TypeInv, TypeOK, CallsComplete
<1> QED BY <1>1, <1>2, <1>3, <1>4 DEF Next

\* Every variable keeps its type, and every call about an intent names one.
THEOREM TypeCorrect == Spec => []TypeOK
<1>1. Spec => []TypeInv
  BY TypeInvInit, TypeInvNext, PTL DEF Spec
<1>2. TypeInv => TypeOK
  BY DEF TypeInv
<1> QED BY <1>1, <1>2, PTL

-----------------------------------------------------------------------------
(* At most one submission *)

\* TypeInv, the strengthening, and the two properties it is there for.
IInv == TypeInv /\ SubmissionInv /\ AtMostOneSubmission /\ BoundaryBeforeVenue

\* Only w moves, and to pc.
Moves(w, pc) ==
  /\ \A v \in Workers \ { w } : call'[v] = call[v]
  /\ call'[w].pc = pc

\* No history loses its SUBMITTING event.
Submitting(h) == HasState(h, { "SUBMITTING" })
Grows == \A i \in Intents : Submitting(history[i]) => Submitting(history'[i])

LEMMA BecomeMoves ==
  ASSUME TypeInv, NEW w \in Workers, NEW r, Become(w, r)
  PROVE  Moves(w, r.pc) /\ call'[w] = r
BY DEF TypeInv, TypeOK, Become, Moves

LEMMA ContinueMoves ==
  ASSUME TypeInv, NEW w \in Workers, NEW pc, Continue(w, pc)
  PROVE  /\ Moves(w, pc)
         /\ pc \in Pipeline => call'[w].intent = call[w].intent
<1> DEFINE r == [ Idle EXCEPT !.pc = pc,
                    !.intent = IF pc \in { "idle", "resolve", "report" }
                               THEN NoIntent ELSE call[w].intent ]
<1>1. Moves(w, r.pc) /\ call'[w] = r
  BY BecomeMoves DEF Continue
<1>2. r.pc = pc /\ (pc \in Pipeline => r.intent = call[w].intent)
  BY DEF Idle, Pipeline
<1> QED BY <1>1, <1>2

LEMMA GotoMoves ==
  ASSUME TypeInv, NEW w \in Workers, NEW pc, Goto(w, pc)
  PROVE  Moves(w, pc)
<1> DEFINE r == [ call[w] EXCEPT !.pc = pc ]
<1>1. Moves(w, r.pc)
  BY BecomeMoves DEF Goto
<1>2. r.pc = pc
  BY DEF TypeInv, TypeOK, Calls
<1> QED BY <1>1, <1>2

LEMMA KillThenMoves ==
  ASSUME TypeInv, NEW w \in Workers, NEW then, KillThen(w, then)
  PROVE  Moves(w, "kill")
<1> DEFINE r == [ call[w] EXCEPT !.pc = "kill", !.fail = then ]
<1>1. Moves(w, r.pc)
  BY BecomeMoves DEF KillThen
<1>2. r.pc = "kill"
  BY DEF TypeInv, TypeOK, Calls
<1> QED BY <1>1, <1>2

LEMMA StartApplyMoves ==
  ASSUME TypeInv, NEW w \in Workers, NEW i, NEW state, NEW src, NEW raw,
         NEW inOrder, NEW ok, NEW fail,
         StartApply(w, i, state, src, raw, inOrder, ok, fail)
  PROVE  Moves(w, "append") \/ Moves(w, "contradict")
<1> DEFINE pc    == IF Acceptable(i, state, inOrder) THEN "append" ELSE "contradict"
           first == state \in FillStates /\ ~HasState(history[i], FillStates)
           r == [ Idle EXCEPT !.pc = pc, !.intent = i, !.state = state,
                    !.src = src, !.raw = raw, !.first = first, !.ok = ok, !.fail = fail ]
<1>1. Moves(w, r.pc)
  BY BecomeMoves DEF StartApply
<1>2. r.pc = "append" \/ r.pc = "contradict"
  BY DEF Idle
<1> QED BY <1>1, <1>2

LEMMA AppendSubmitting ==
  ASSUME NEW h \in Seq(Event), NEW e \in Event
  PROVE  /\ Submitting(h) => Submitting(Append(h, e))
         /\ e.state = "SUBMITTING" => Submitting(Append(h, e))
<1> DEFINE n == Len(h)
           g == Append(h, e)
<1>1. /\ n \in Nat
      /\ Len(g) = n + 1
      /\ \A k \in 1..n : g[k] = h[k]
      /\ g[n + 1] = e
  OBVIOUS
<1>2. ASSUME Submitting(h) PROVE Submitting(g)
  <2>1. PICK k \in 1..n : h[k].state \in { "SUBMITTING" }
    BY <1>2 DEF Submitting, HasState
  <2>2. k \in 1..Len(g) /\ g[k] = h[k]
    BY <1>1
  <2> QED BY <2>1, <2>2 DEF Submitting, HasState
<1>3. ASSUME e.state = "SUBMITTING" PROVE Submitting(g)
  <2>1. n + 1 \in 1..Len(g)
    BY <1>1
  <2> HIDE DEF g
  <2> QED BY <1>1, <1>3, <2>1 DEF Submitting, HasState
<1> QED BY <1>2, <1>3

LEMMA AppendToGrows ==
  ASSUME TypeInv, NEW i \in Intents, NEW state \in OrderStates, NEW ref \in Refs,
         NEW src \in Sources, NEW raw \in Raws, AppendTo(i, state, ref, src, raw)
  PROVE  Grows /\ (state = "SUBMITTING" => Submitting(history'[i]))
<1> DEFINE e == [ state |-> state, ref |-> ref, src |-> src, raw |-> raw ]
<1>1. e \in Event /\ e.state = state
  BY DEF Event
<1>2. /\ history \in [ Intents -> Seq(Event) ]
      /\ history' = [ history EXCEPT ![i] = Append(history[i], e) ]
  BY DEF TypeInv, TypeOK, AppendTo
<1> HIDE DEF e
<1>3. \A j \in Intents : history'[j] = IF j = i THEN Append(history[i], e)
                                       ELSE history[j]
  BY <1>2
<1> QED BY <1>1, <1>2, <1>3, AppendSubmitting DEF Grows

\* A step of w that ends outside the pipeline and touches nothing the
\* invariant rests on.
Outside(w) ==
  /\ \E pc \in PCs \ Pipeline : Moves(w, pc)
  /\ UNCHANGED << claims, posts, envelopes, persisted >>
  /\ \A c \in Coordinators : prepared'[c] \subseteq persisted
  /\ Grows

\* A step of w that stays in the pipeline of its intent, or leaves it, and
\* stores what the place it goes to asks for.
Inside(w) ==
  /\ \E pc \in PCs :
       /\ Moves(w, pc)
       /\ pc \in Pipeline =>
            /\ call[w].pc \in Pipeline
            /\ call'[w].intent = call[w].intent
       /\ pc \in Pipeline \ { "claimed", "prepare" } =>
            call[w].intent \in persisted'
       /\ pc \in { "send_check", "send" } =>
            call[w].intent \in envelopes' /\ Submitting(history'[call[w].intent])
  /\ UNCHANGED << claims, posts >>
  /\ persisted \subseteq persisted'
  /\ envelopes \subseteq envelopes'
  /\ envelopes' \subseteq persisted'
  /\ \A i \in envelopes' : i \in envelopes \/ i \in claims
  /\ \A c \in Coordinators : prepared'[c] \subseteq persisted'
  /\ Grows

LEMMA OutsideIsInside ==
  ASSUME IInv, NEW w \in Workers, Outside(w)
  PROVE  Inside(w)
BY DEF Outside, Inside, IInv, SubmissionInv, Pipeline

LEMMA InsideKeeps ==
  ASSUME IInv, TypeInv', NEW w \in Workers, Inside(w)
  PROVE  IInv'
<1> PICK pc \in PCs :
       /\ Moves(w, pc)
       /\ pc \in Pipeline =>
            call[w].pc \in Pipeline /\ call'[w].intent = call[w].intent
       /\ pc \in Pipeline \ { "claimed", "prepare" } =>
            call[w].intent \in persisted'
       /\ pc \in { "send_check", "send" } =>
            call[w].intent \in envelopes' /\ Submitting(history'[call[w].intent])
  BY DEF Inside
<1>0. /\ call'[w].pc = pc
      /\ \A v \in Workers : v # w => call'[v] = call[v]
  BY DEF Moves
<1>1. \A v \in Workers, i \in Intents : Holds(v, i)' => Holds(v, i)
  BY <1>0 DEF Holds
<1>2. \A v \in Workers, i \in Intents : Holds(v, i)' => i \in claims' /\ posts'[i] = 0
  BY <1>1 DEF Inside, IInv, SubmissionInv
<1>3. \A u, v \in Workers, i \in Intents : Holds(u, i)' /\ Holds(v, i)' => u = v
  BY <1>1 DEF IInv, SubmissionInv
<1>4. \A v \in Workers :
        call'[v].pc \in Pipeline \ { "claimed", "prepare" } =>
          call'[v].intent \in persisted'
  BY <1>0 DEF Inside, IInv, SubmissionInv
<1>5. \A v \in Workers :
        call'[v].pc \in { "send_check", "send" } =>
          call'[v].intent \in envelopes' /\ Submitting(history'[call'[v].intent])
  <2> SUFFICES ASSUME NEW v \in Workers, call'[v].pc \in { "send_check", "send" }
               PROVE  call'[v].intent \in envelopes' /\ Submitting(history'[call'[v].intent])
    OBVIOUS
  <2>1. CASE v = w
    BY <1>0, <2>1 DEF Pipeline
  <2>2. CASE v # w
    <3>1. call[v].intent \in envelopes /\ Submitting(history[call[v].intent])
      BY <1>0, <2>2 DEF IInv, SubmissionInv, Submitting
    <3>2. call[v].intent \in Intents
      BY <3>1 DEF IInv, TypeInv, TypeOK
    <3> QED BY <1>0, <2>2, <3>1, <3>2 DEF Inside, Grows
  <2> QED BY <2>1, <2>2
<1>6. \A i \in Intents \ claims' : posts'[i] = 0 /\ i \notin envelopes'
  BY DEF Inside, IInv, SubmissionInv
<1>7. SubmissionInv'
  BY <1>2, <1>3, <1>4, <1>5, <1>6 DEF SubmissionInv, Inside, Submitting
<1>8. AtMostOneSubmission' /\ BoundaryBeforeVenue'
  BY DEF Inside, IInv, AtMostOneSubmission, BoundaryBeforeVenue, Grows, Submitting
<1> QED BY <1>7, <1>8 DEF IInv

\* Where in the pipeline the claim's holder goes, step by step.
LEMMA SubmitStepInside ==
  ASSUME IInv, NEW w \in Workers, SubmitStep(w), ~Post(w)
  PROVE  Inside(w)
<1> USE DEF PCs, Pipeline, ledger, database, memory, ports
<1>0. /\ TypeInv
      /\ Home[w] \in Coordinators
      /\ call[w].pc \notin NoIntentPCs \cup { "kill" } => call[w].intent \in Intents
      /\ envelopes \subseteq persisted
      /\ \A c \in Coordinators : prepared[c] \subseteq persisted
      /\ call[w].pc \in Pipeline => call[w].intent \in claims
      /\ call[w].pc \in Pipeline \ { "claimed", "prepare" } =>
           call[w].intent \in persisted
      /\ call[w].pc \in { "send_check", "send" } =>
           /\ call[w].intent \in envelopes
           /\ Submitting(history[call[w].intent])
  <2>1. TypeInv /\ SubmissionInv
    BY DEF IInv
  <2>2. call[w].pc \notin NoIntentPCs \cup { "kill" } => call[w].intent \in Intents
    BY <2>1 DEF TypeInv, CallsComplete, CompleteCall, NoIntentPCs
  <2>3. call[w].pc \in Pipeline => call[w].intent \in claims
    BY <2>1, <2>2 DEF SubmissionInv, Holds, NoIntentPCs
  <2> QED BY <2>1, <2>2, <2>3, ConstantsAssumption DEF SubmissionInv, Submitting
<1>1. ASSUME UNCHANGED history PROVE Grows
  BY <1>1 DEF Grows
<1>2. CASE DuplicateSubmission(w)
  BY <1>0, <1>1, <1>2, ContinueMoves, KillThenMoves DEF DuplicateSubmission, Inside
<1>3. CASE StartClaimed(w)
  <2>1. PICK pc \in { "idle", "kill", "prepare", "envelope" } :
          /\ Moves(w, pc)
          /\ pc \in Pipeline => call'[w].intent = call[w].intent
          /\ pc = "envelope" => call[w].intent \in prepared[Home[w]]
    BY <1>0, <1>3, ContinueMoves, KillThenMoves DEF StartClaimed
  <2>2. call[w].pc = "claimed" /\ UNCHANGED << database, prepared, posts >>
    BY <1>3 DEF StartClaimed
  <2> QED BY <1>0, <1>1, <2>1, <2>2 DEF Inside
<1>4. CASE PrepareRefused(w) \/ PrepareCollision(w)
  BY <1>0, <1>1, <1>4, ContinueMoves, KillThenMoves
  DEF PrepareRefused, PrepareCollision, Inside
<1>5. CASE PrepareCommit(w)
  <2>1. PICK pc \in { "idle", "envelope" } :
          /\ Moves(w, pc)
          /\ pc \in Pipeline => call[w].pc = "prepare"
          /\ pc \in Pipeline => call'[w].intent = call[w].intent
    BY <1>0, <1>5, ContinueMoves DEF PrepareCommit
  <2>2. \A c \in Coordinators : prepared'[c] \subseteq persisted'
    BY <1>0, <1>5 DEF PrepareCommit, Prepare, TypeInv, TypeOK
  <2> QED BY <1>0, <1>1, <1>5, <2>1, <2>2 DEF PrepareCommit, Inside
<1>6. CASE SignBoundary(w)
  <2>1. PICK pc \in { "idle", "kill", "sign" } :
          /\ Moves(w, pc)
          /\ pc \in Pipeline => call'[w].intent = call[w].intent
    BY <1>0, <1>6, ContinueMoves, KillThenMoves DEF SignBoundary, Boundary
  <2> QED BY <1>0, <1>1, <1>6, <2>1 DEF SignBoundary, Inside
<1>7. CASE Sign(w)
  BY <1>0, <1>1, <1>7, ContinueMoves DEF Sign, Inside
<1>8. CASE PersistBoundary(w)
  <2>1. CASE call[w].intent \in envelopes
    BY <1>0, <1>1, <1>8, <2>1, KillThenMoves DEF PersistBoundary, Inside
  <2>2. CASE call[w].intent \notin envelopes
    <3>1. /\ AppendTo(call[w].intent, "SUBMITTING", "synthetic", "coordinator", NoBody)
          /\ Continue(w, "send_check")
          /\ envelopes' = envelopes \cup { call[w].intent }
          /\ call[w].pc = "boundary"
          /\ UNCHANGED << claims, posts, persisted, prepared >>
      BY <1>8, <2>2 DEF PersistBoundary
    <3>2. Grows /\ Submitting(history'[call[w].intent])
      BY <1>0, <3>1, AppendToGrows, NoBodyRaw
      DEF OrderStates, Refs, Sources, Origins, NoIntentPCs
    <3> QED BY <1>0, <3>1, <3>2, ContinueMoves DEF Inside
  <2> QED BY <2>1, <2>2
<1>9. CASE SubmitBoundary(w)
  <2>1. PICK pc \in { "idle", "kill", "send" } :
          /\ Moves(w, pc)
          /\ pc \in Pipeline => call'[w].intent = call[w].intent
    BY <1>0, <1>9, ContinueMoves, KillThenMoves DEF SubmitBoundary, Boundary
  <2> QED BY <1>0, <1>1, <1>9, <2>1 DEF SubmitBoundary, Inside
<1>10. CASE Classify(w)
  <2>1. /\ call[w].intent \in Intents
        /\ SubmittedState(call[w].code) \in OrderStates
        /\ "UNKNOWN" \in OrderStates
        /\ { "rest", "coordinator" } \subseteq Sources
    BY <1>0, <1>10
    DEF Classify, NoIntentPCs, SubmittedState, OrderStates, Sources, Origins
  <2>2. Grows
    BY <1>0, <1>10, <2>1, AppendToGrows, NoBodyRaw DEF Classify, Refs
  <2> QED BY <1>0, <1>10, <2>2, ContinueMoves, KillThenMoves DEF Classify, Inside
<1>11. CASE UnknownAfterSign(w)
  <2>1. Grows
    BY <1>0, <1>11, AppendToGrows, NoBodyRaw
    DEF UnknownAfterSign, OrderStates, Refs, Sources, Origins, NoIntentPCs
  <2> QED BY <1>0, <1>11, <2>1, KillThenMoves DEF UnknownAfterSign, Inside
<1> QED BY <1>2, <1>3, <1>4, <1>5, <1>6, <1>7, <1>8, <1>9, <1>10, <1>11
        DEF SubmitStep

\* Applying events and engaging the kill never lead into the pipeline.
LEMMA ApplyStepOutside ==
  ASSUME IInv, NEW w \in Workers, ApplyStep(w) \/ EngageKill(w)
  PROVE  Outside(w)
<1> USE DEF PCs, Pipeline, NoIntentPCs, ledger, database, memory, ports
<1>0. /\ TypeInv
      /\ call[w] \in Calls
      /\ call[w].pc \notin NoIntentPCs \cup { "kill" } => call[w].intent \in Intents
      /\ call[w].pc = "append" =>
           call[w].state \in OrderStates /\ call[w].src \in Sources
      /\ call[w].raw \in Raws
      /\ \A c \in Coordinators : prepared[c] \subseteq persisted
  BY DEF IInv, TypeInv, TypeOK, CallsComplete, CompleteCall, SubmissionInv, Calls
<1>1. ASSUME UNCHANGED history PROVE Grows
  BY <1>1 DEF Grows
<1>2. CASE AppendEvent(w)
  <2>1. call[w].ok \in OkReturns /\ call[w].intent \in Intents
    BY <1>0, <1>2 DEF AppendEvent, Calls
  <2>2. Grows
    BY <1>0, <1>1, <1>2, <2>1, AppendToGrows, NoBodyRaw DEF AppendEvent, Refs
  <2> QED BY <1>0, <1>2, <2>1, <2>2, GotoMoves, ContinueMoves DEF AppendEvent, Outside
<1>3. CASE ClaimFirstFill(w)
  <2>1. call[w].ok \in OkReturns
    BY <1>0 DEF Calls
  <2> QED BY <1>0, <1>1, <1>3, <2>1, GotoMoves, ContinueMoves
          DEF ClaimFirstFill, Outside
<1>4. CASE Revalidate(w)
  <2>1. call[w].ok \in OkReturns
    BY <1>0 DEF Calls
  <2> QED BY <1>0, <1>1, <1>4, <2>1, KillThenMoves, ContinueMoves
          DEF Revalidate, Outside
<1>5. CASE Contradict(w)
  <2>1. Grows
    BY <1>0, <1>5, AppendToGrows, NoBodyRaw
    DEF Contradict, OrderStates, Refs, Sources, Origins
  <2> QED BY <1>0, <1>5, <2>1, KillThenMoves DEF Contradict, Outside
<1>6. CASE EngageKill(w)
  <2>1. call[w].fail \in FailReturns
    BY <1>0 DEF Calls
  <2> QED BY <1>0, <1>1, <1>6, <2>1, ContinueMoves DEF EngageKill, Outside
<1> QED BY <1>2, <1>3, <1>4, <1>5, <1>6 DEF ApplyStep

\* Nor does recovery, which takes snapshots of stored intents only.
LEMMA RecoveryStepOutside ==
  ASSUME IInv, NEW w \in Workers, RecoveryStep(w)
  PROVE  Outside(w)
<1> USE DEF PCs, Pipeline, NoIntentPCs, ledger, database, memory, ports
<1>0. /\ TypeInv
      /\ Home[w] \in Coordinators
      /\ prepared \in [ Coordinators -> SUBSET Intents ]
      /\ call[w] \in Calls
      /\ call[w].pc \notin NoIntentPCs \cup { "kill" } => call[w].intent \in Intents
      /\ \A c \in Coordinators : prepared[c] \subseteq persisted
      /\ envelopes \subseteq persisted
  BY ConstantsAssumption
  DEF IInv, TypeInv, TypeOK, CallsComplete, CompleteCall, SubmissionInv
<1>1. ASSUME UNCHANGED history PROVE Grows
  BY <1>1 DEF Grows
<1>2. ASSUME call[w].intent \in envelopes, Prepare(Home[w], call[w].intent)
      PROVE  \A c \in Coordinators : prepared'[c] \subseteq persisted
  BY <1>0, <1>2 DEF Prepare
<1>3. CASE Scan(w) \/ CloseRecovery(w)
  BY <1>0, <1>1, <1>3, GotoMoves, KillThenMoves DEF Scan, CloseRecovery, Outside
<1>4. CASE \E i \in Intents : ResolveByRead(w, i) \/ ResolveByCancel(w, i)
  <2>1. PICK i \in Intents : ResolveByRead(w, i) \/ ResolveByCancel(w, i)
    BY <1>4
  <2>2. Moves(w, "order_read") \/ Moves(w, "cancel")
    <3> DEFINE r(pc) == [ Idle EXCEPT !.pc = pc, !.intent = i ]
    <3>1. PICK pc \in { "order_read", "cancel" } : Become(w, r(pc))
      BY <2>1 DEF ResolveByRead, ResolveByCancel
    <3>2. r(pc).pc = pc
      BY DEF Idle
    <3>3. Moves(w, r(pc).pc)
      BY <1>0, <3>1, BecomeMoves
    <3> QED BY <3>1, <3>2, <3>3
  <2> QED BY <1>0, <1>1, <2>1, <2>2 DEF ResolveByRead, ResolveByCancel, Outside
<1>5. CASE OrderRead(w)
  <2>1. \E pc \in PCs \ Pipeline : Moves(w, pc)
    BY <1>0, <1>5, ContinueMoves, StartApplyMoves DEF OrderRead
  <2>2. \A c \in Coordinators : prepared'[c] \subseteq persisted
    BY <1>0, <1>2, <1>5 DEF OrderRead
  <2> QED BY <1>1, <1>5, <2>1, <2>2 DEF OrderRead, Outside
<1>6. CASE TradeRead(w)
  <2>1. \E pc \in PCs \ Pipeline : Moves(w, pc)
    BY <1>0, <1>6, ContinueMoves, StartApplyMoves DEF TradeRead
  <2>2. \A c \in Coordinators : prepared'[c] \subseteq persisted
    BY <1>0, <1>2, <1>6 DEF TradeRead
  <2> QED BY <1>1, <1>6, <2>1, <2>2 DEF TradeRead, Outside
<1>7. CASE Cancel(w)
  <2>1. \E pc \in PCs \ Pipeline : Moves(w, pc)
    BY <1>0, <1>7, ContinueMoves DEF Cancel
  <2>2. \A c \in Coordinators : prepared'[c] \subseteq persisted
    BY <1>0, <1>2, <1>7 DEF Cancel
  <2> QED BY <1>1, <1>7, <2>1, <2>2 DEF Cancel, Outside
<1>8. CASE SendCancel(w)
  <2>1. PICK code \in CancelCodes :
          Become(w, [ call[w] EXCEPT !.pc = "cancel_result", !.code = code ])
    BY <1>8 DEF SendCancel
  <2>2. Moves(w, "cancel_result")
    <3> DEFINE r == [ call[w] EXCEPT !.pc = "cancel_result", !.code = code ]
    <3>1. r.pc = "cancel_result"
      BY <1>0 DEF Calls
    <3>2. Moves(w, r.pc)
      BY <1>0, <2>1, BecomeMoves
    <3> QED BY <3>1, <3>2
  <2> QED BY <1>0, <1>1, <1>8, <2>2 DEF SendCancel, Outside
<1>9. CASE CancelResult(w)
  <2>1. Grows
    BY <1>0, <1>1, <1>9, AppendToGrows, NoBodyRaw
    DEF CancelResult, OrderStates, Refs, Sources, Origins
  <2> QED BY <1>0, <1>9, <2>1, ContinueMoves DEF CancelResult, Outside
<1>10. CASE Confirm(w)
  <2>1. \E pc \in PCs \ Pipeline : Moves(w, pc)
    BY <1>0, <1>10, ContinueMoves, StartApplyMoves DEF Confirm
  <2> QED BY <1>0, <1>1, <1>10, <2>1 DEF Confirm, Outside
<1>11. CASE Unresolved(w) \/ Report(w)
  BY <1>0, <1>1, <1>11, ContinueMoves DEF Unresolved, Report, Outside
<1> QED BY <1>3, <1>4, <1>5, <1>6, <1>7, <1>8, <1>9, <1>10, <1>11
        DEF RecoveryStep

\* A claim admits its winner, and nobody else is in the pipeline of an intent
\* that was not claimed.
LEMMA ClaimKeeps ==
  ASSUME IInv, TypeInv', NEW w \in Workers, NEW i \in Intents, ClaimSubmission(w, i)
  PROVE  IInv'
<1> DEFINE r == [ Idle EXCEPT !.pc = "claimed", !.intent = i ]
<1>1. /\ i \notin claims
      /\ claims' = claims \cup { i }
      /\ call[w].pc = "idle"
      /\ UNCHANGED << persisted, envelopes, history, prepared, posts >>
      /\ Become(w, r)
  BY DEF ClaimSubmission, ports
<1>2. r.pc = "claimed" /\ r.intent = i
  BY DEF Idle
<1>3. /\ \A v \in Workers : v # w => call'[v] = call[v]
      /\ call'[w].pc = "claimed" /\ call'[w].intent = i
  BY <1>1, <1>2, BecomeMoves DEF IInv, Moves
<1> HIDE DEF r
<1>4. /\ posts[i] = 0
      /\ \A v \in Workers : ~Holds(v, i)
  BY <1>1 DEF IInv, SubmissionInv
<1>5. \A v \in Workers, j \in Intents :
        Holds(v, j)' => IF v = w THEN j = i ELSE Holds(v, j)
  BY <1>3 DEF Holds
<1>6. \A v \in Workers, j \in Intents : Holds(v, j)' => j \in claims' /\ posts'[j] = 0
  BY <1>1, <1>4, <1>5 DEF IInv, SubmissionInv
<1>7. \A u, v \in Workers, j \in Intents : Holds(u, j)' /\ Holds(v, j)' => u = v
  BY <1>4, <1>5 DEF IInv, SubmissionInv
<1>8. /\ \A v \in Workers :
           call'[v].pc \in Pipeline \ { "claimed", "prepare" } =>
             call'[v].intent \in persisted'
      /\ \A v \in Workers :
           call'[v].pc \in { "send_check", "send" } =>
             /\ call'[v].intent \in envelopes'
             /\ HasState(history'[call'[v].intent], { "SUBMITTING" })
  BY <1>1, <1>3 DEF IInv, SubmissionInv
<1>9. SubmissionInv'
  BY <1>1, <1>6, <1>7, <1>8 DEF IInv, SubmissionInv
<1> QED BY <1>1, <1>9 DEF IInv, AtMostOneSubmission, BoundaryBeforeVenue

\* The venue call: the only holder of the intent leaves the pipeline.
LEMMA PostKeeps ==
  ASSUME IInv, TypeInv', NEW w \in Workers, Post(w)
  PROVE  IInv'
<1> DEFINE i == call[w].intent
<1>1. /\ call[w].pc = "send"
      /\ posts' = [ posts EXCEPT ![i] = @ + 1 ]
      /\ UNCHANGED << claims, persisted, envelopes, history, prepared >>
  BY DEF Post, ledger, database
<1>2. i \in Intents /\ posts \in [ Intents -> Nat ] /\ call[w] \in Calls
  BY <1>1 DEF IInv, TypeInv, TypeOK, CallsComplete, CompleteCall
<1>3. Moves(w, "classify")
  <2>1. PICK code \in SubmitCodes :
          Become(w, [ call[w] EXCEPT !.pc = "classify", !.code = code ])
    BY DEF Post
  <2> DEFINE r == [ call[w] EXCEPT !.pc = "classify", !.code = code ]
  <2>2. r.pc = "classify"
    BY <1>2 DEF Calls
  <2>3. Moves(w, r.pc)
    BY <2>1, BecomeMoves DEF IInv
  <2> QED BY <2>2, <2>3
<1>4. /\ Holds(w, i)
      /\ posts[i] = 0
      /\ i \in claims
      /\ i \in envelopes \cap persisted
      /\ HasState(history[i], { "SUBMITTING" })
  BY <1>1, <1>2 DEF Holds, Pipeline, IInv, SubmissionInv
<1>5. \A j \in Intents : posts'[j] = IF j = i THEN 1 ELSE posts[j]
  BY <1>1, <1>2, <1>4
<1>6. /\ \A v \in Workers : v # w => call'[v] = call[v]
      /\ call'[w].pc = "classify"
  BY <1>3 DEF Moves
<1> HIDE DEF i
<1>7. \A v \in Workers, j \in Intents : Holds(v, j)' => Holds(v, j) /\ v # w
  BY <1>6 DEF Holds, Pipeline
<1>8. \A v \in Workers, j \in Intents : Holds(v, j)' => j # i
  BY <1>2, <1>4, <1>7 DEF IInv, SubmissionInv
<1>9. \A v \in Workers, j \in Intents : Holds(v, j)' => j \in claims' /\ posts'[j] = 0
  BY <1>1, <1>5, <1>7, <1>8 DEF IInv, SubmissionInv
<1>10. \A u, v \in Workers, j \in Intents : Holds(u, j)' /\ Holds(v, j)' => u = v
  BY <1>7 DEF IInv, SubmissionInv
<1>11. /\ \A v \in Workers :
            call'[v].pc \in Pipeline \ { "claimed", "prepare" } =>
              call'[v].intent \in persisted'
       /\ \A v \in Workers :
            call'[v].pc \in { "send_check", "send" } =>
              /\ call'[v].intent \in envelopes'
              /\ HasState(history'[call'[v].intent], { "SUBMITTING" })
  BY <1>1, <1>6 DEF IInv, SubmissionInv, Pipeline
<1>12. \A j \in Intents \ claims' : posts'[j] = 0 /\ j \notin envelopes'
  BY <1>1, <1>4, <1>5 DEF IInv, SubmissionInv
<1>13. SubmissionInv'
  BY <1>1, <1>9, <1>10, <1>11, <1>12 DEF IInv, SubmissionInv
<1>14. AtMostOneSubmission' /\ BoundaryBeforeVenue'
  BY <1>1, <1>4, <1>5 DEF IInv, AtMostOneSubmission, BoundaryBeforeVenue
<1> QED BY <1>13, <1>14 DEF IInv

\* Every other call starts outside the pipeline.
LEMMA BeginOutside ==
  ASSUME IInv, NEW w \in Workers, Begin(w)
  PROVE  Outside(w) \/ \E i \in Intents : ClaimSubmission(w, i)
<1> USE DEF PCs, Pipeline, ledger, database, memory, ports
<1>0. TypeInv /\ \A c \in Coordinators : prepared[c] \subseteq persisted
  BY DEF IInv, SubmissionInv
<1>1. ASSUME UNCHANGED history PROVE Grows
  BY <1>1 DEF Grows
<1>2. ASSUME NEW i \in Intents, PrepareCall(w, i) \/ SubmissionTaken(w, i)
      PROVE  Outside(w)
  <2> DEFINE r(pc) == [ Idle EXCEPT !.pc = pc, !.intent = i ]
  <2>1. PICK pc \in { "prepare_only", "duplicate" } : Become(w, r(pc))
    BY <1>2 DEF PrepareCall, SubmissionTaken
  <2>2. r(pc).pc = pc
    BY DEF Idle
  <2>3. Moves(w, r(pc).pc)
    BY <1>0, <2>1, BecomeMoves
  <2>4. \E q \in PCs \ Pipeline : Moves(w, q)
    BY <2>1, <2>2, <2>3
  <2> QED BY <1>0, <1>1, <1>2, <2>4 DEF PrepareCall, SubmissionTaken, Outside
<1>3. ASSUME NEW i \in Intents, NEW e \in EventIds, DeliverEvent(w, i, e)
      PROVE  Outside(w)
  <2>1. Moves(w, "append") \/ Moves(w, "contradict")
    BY <1>0, <1>3, StartApplyMoves DEF DeliverEvent
  <2> QED BY <1>0, <1>1, <1>3, <2>1 DEF DeliverEvent, Outside
<1>4. ASSUME NEW startup \in BOOLEAN, NEW uncertain \in BOOLEAN,
             StartRecovery(w, startup, uncertain)
      PROVE  Outside(w)
  <2> DEFINE r == [ Idle EXCEPT !.pc = "scan" ]
  <2>1. r.pc = "scan"
    BY DEF Idle
  <2>2. Moves(w, r.pc)
    BY <1>0, <1>4, BecomeMoves DEF StartRecovery
  <2>3. Moves(w, "scan")
    BY <2>1, <2>2
  <2> QED BY <1>0, <1>1, <1>4, <2>3 DEF StartRecovery, Outside
<1> QED BY <1>2, <1>3, <1>4 DEF Begin

LEMMA IInvInit == Init => IInv
<1> SUFFICES ASSUME Init PROVE IInv
  OBVIOUS
<1>1. \A w \in Workers : call[w].pc = "idle"
  BY DEF Init, Idle
<1>2. SubmissionInv /\ AtMostOneSubmission /\ BoundaryBeforeVenue
  BY <1>1 DEF Init, SubmissionInv, AtMostOneSubmission, BoundaryBeforeVenue,
              Holds, Pipeline
<1> QED BY <1>2, TypeInvInit DEF IInv

LEMMA IInvNext == IInv /\ [Next]_vars => IInv'
<1> SUFFICES ASSUME IInv, [Next]_vars PROVE IInv'
  OBVIOUS
<1>0. TypeInv'
  BY TypeInvNext DEF IInv
<1>1. ASSUME NEW w \in Workers, Begin(w) PROVE IInv'
  BY <1>0, <1>1, BeginOutside, OutsideIsInside, InsideKeeps, ClaimKeeps
<1>2. ASSUME NEW w \in Workers, Step(w) PROVE IInv'
  <2>1. CASE Post(w)
    BY <1>0, <2>1, PostKeeps
  <2>2. CASE ~Post(w)
    BY <1>0, <1>2, <2>2, SubmitStepInside, ApplyStepOutside, RecoveryStepOutside,
       OutsideIsInside, InsideKeeps DEF Step
  <2> QED BY <2>1, <2>2
<1>3. CASE Reconcile \/ UNCHANGED vars
  <2>1. UNCHANGED << claims, persisted, envelopes, history, prepared, call, posts >>
    BY <1>3 DEF Reconcile, vars, ledger, database, memory, ports
  <2> QED BY <1>0, <2>1 DEF IInv, SubmissionInv, AtMostOneSubmission,
                            BoundaryBeforeVenue, Holds
<1>4. CASE Restart
  <2>1. /\ UNCHANGED << claims, persisted, envelopes, history, posts >>
        /\ \A c \in Coordinators : prepared'[c] = {}
        /\ \A w \in Workers : call'[w].pc = "idle"
    BY <1>4 DEF Restart, ledger, database, ports, Idle
  <2>2. SubmissionInv'
    BY <2>1 DEF IInv, SubmissionInv, Holds, Pipeline
  <2> QED BY <1>0, <2>1, <2>2 DEF IInv, AtMostOneSubmission, BoundaryBeforeVenue
<1> QED BY <1>1, <1>2, <1>3, <1>4 DEF Next

\* The strengthening holds for any number of threads, coordinators and
\* restarts.
THEOREM SubmissionInvariant == Spec => []SubmissionInv
<1>1. Spec => []IInv
  BY IInvInit, IInvNext, PTL DEF Spec
<1>2. IInv => SubmissionInv
  BY DEF IInv
<1> QED BY <1>1, <1>2, PTL

\* No interleaving of threads, coordinators and restarts hands an intent to
\* the venue twice.
THEOREM SubmittedAtMostOnce == Spec => []AtMostOneSubmission
<1>1. Spec => []IInv
  BY IInvInit, IInvNext, PTL DEF Spec
<1>2. IInv => AtMostOneSubmission
  BY DEF IInv
<1> QED BY <1>1, <1>2, PTL

\* Plan, intent, envelope and SUBMITTING event are stored before the venue
\* is contacted.
THEOREM BoundaryStoredFirst == Spec => []BoundaryBeforeVenue
<1>1. Spec => []IInv
  BY IInvInit, IInvNext, PTL DEF Spec
<1>2. IInv => BoundaryBeforeVenue
  BY DEF IInv
<1> QED BY <1>1, <1>2, PTL

-----------------------------------------------------------------------------
(* The kill and the window before a mutation *)

\* The only ways into the window: from the place before it, with no kill.
Entry(w) ==
  \E pc \in PCs :
    /\ Moves(w, pc)
    /\ pc \in { "sign", "send", "send_cancel" } => ~Killed
    /\ pc = "send" => /\ call[w].pc = "send_check"
                      /\ call'[w].intent = call[w].intent

LEMMA SubmitStepEntry ==
  ASSUME TypeInv, NEW w \in Workers, SubmitStep(w)
  PROVE  Entry(w)
<1> USE DEF PCs, Pipeline
<1>1. CASE DuplicateSubmission(w)
  BY <1>1, ContinueMoves, KillThenMoves DEF DuplicateSubmission, Entry
<1>2. CASE StartClaimed(w)
  BY <1>2, ContinueMoves, KillThenMoves DEF StartClaimed, Entry
<1>3. CASE PrepareRefused(w) \/ PrepareCollision(w) \/ PrepareCommit(w)
  BY <1>3, ContinueMoves, KillThenMoves
  DEF PrepareRefused, PrepareCollision, PrepareCommit, Entry
<1>4. CASE SignBoundary(w) \/ Sign(w)
  BY <1>4, ContinueMoves, KillThenMoves DEF SignBoundary, Boundary, Sign, Entry
<1>5. CASE PersistBoundary(w)
  BY <1>5, ContinueMoves, KillThenMoves DEF PersistBoundary, Entry
<1>6. CASE SubmitBoundary(w)
  BY <1>6, ContinueMoves, KillThenMoves DEF SubmitBoundary, Boundary, Entry
<1>7. CASE Post(w)
  <2>1. PICK code \in SubmitCodes :
          Become(w, [ call[w] EXCEPT !.pc = "classify", !.code = code ])
    BY <1>7 DEF Post
  <2> DEFINE r == [ call[w] EXCEPT !.pc = "classify", !.code = code ]
  <2>2. r.pc = "classify"
    BY DEF TypeInv, TypeOK, Calls
  <2>3. Moves(w, r.pc)
    BY <2>1, BecomeMoves
  <2>4. Moves(w, "classify")
    BY <2>2, <2>3
  <2> QED BY <2>4 DEF Entry
<1>8. CASE Classify(w) \/ UnknownAfterSign(w)
  BY <1>8, ContinueMoves, KillThenMoves DEF Classify, UnknownAfterSign, Entry
<1> QED BY <1>1, <1>2, <1>3, <1>4, <1>5, <1>6, <1>7, <1>8 DEF SubmitStep

\* Outside the pipeline the window has one more place, send_cancel.
LEMMA OutsideEntry ==
  ASSUME NEW w \in Workers, Outside(w), call'[w].pc = "send_cancel" => ~Killed
  PROVE  Entry(w)
BY DEF Outside, Entry, Pipeline, Moves

LEMMA StepEntry ==
  ASSUME IInv, NEW w \in Workers, Step(w) \/ Begin(w)
  PROVE  Entry(w)
<1> USE DEF PCs, Pipeline
<1>0. TypeInv /\ call[w] \in Calls
  BY DEF IInv, TypeInv, TypeOK
<1>1. CASE SubmitStep(w)
  BY <1>0, <1>1, SubmitStepEntry
<1>2. CASE ApplyStep(w) \/ EngageKill(w)
  <2>1. call[w].ok # "send_cancel" /\ call[w].fail # "send_cancel"
    BY <1>0 DEF Calls
  <2>2. call'[w].pc # "send_cancel"
    <3>1. CASE AppendEvent(w) \/ ClaimFirstFill(w)
      BY <1>0, <2>1, <3>1, ContinueMoves, GotoMoves
      DEF AppendEvent, ClaimFirstFill, Moves
    <3>2. CASE Revalidate(w) \/ Contradict(w) \/ EngageKill(w)
      BY <1>0, <2>1, <3>2, ContinueMoves, KillThenMoves
      DEF Revalidate, Contradict, EngageKill, Moves
    <3> QED BY <1>2, <3>1, <3>2 DEF ApplyStep
  <2> QED BY <1>2, <2>2, ApplyStepOutside, OutsideEntry
<1>3. CASE RecoveryStep(w)
  <2>1. call'[w].pc = "send_cancel" => ~Killed
    <3>1. CASE Scan(w) \/ CloseRecovery(w) \/ Unresolved(w) \/ Report(w)
      BY <1>0, <3>1, ContinueMoves, GotoMoves, KillThenMoves
      DEF Scan, CloseRecovery, Unresolved, Report, Moves
    <3>2. CASE \E i \in Intents : ResolveByRead(w, i) \/ ResolveByCancel(w, i)
      <4>1. PICK i \in Intents, pc \in { "order_read", "cancel" } :
              Become(w, [ Idle EXCEPT !.pc = pc, !.intent = i ])
        BY <3>2 DEF ResolveByRead, ResolveByCancel
      <4>2. call'[w] = [ Idle EXCEPT !.pc = pc, !.intent = i ]
        BY <1>0, <4>1, BecomeMoves
      <4> QED BY <4>1, <4>2 DEF Idle
    <3>3. CASE OrderRead(w) \/ TradeRead(w) \/ Confirm(w)
      BY <1>0, <3>3, ContinueMoves, StartApplyMoves
      DEF OrderRead, TradeRead, Confirm, Moves
    <3>4. CASE Cancel(w)
      BY <1>0, <3>4, ContinueMoves DEF Cancel, Moves
    <3>5. CASE SendCancel(w)
      <4>1. PICK code \in CancelCodes :
              Become(w, [ call[w] EXCEPT !.pc = "cancel_result", !.code = code ])
        BY <3>5 DEF SendCancel
      <4>2. call'[w] = [ call[w] EXCEPT !.pc = "cancel_result", !.code = code ]
        BY <1>0, <4>1, BecomeMoves
      <4> QED BY <1>0, <4>2 DEF Calls
    <3>6. CASE CancelResult(w)
      BY <1>0, <3>6, ContinueMoves DEF CancelResult, Moves
    <3> QED BY <1>3, <3>1, <3>2, <3>3, <3>4, <3>5, <3>6 DEF RecoveryStep
  <2> QED BY <1>3, <2>1, RecoveryStepOutside, OutsideEntry
<1>4. CASE Begin(w)
  <2>1. PICK pc \in { "prepare_only", "claimed", "duplicate", "append",
                      "contradict", "scan" } : Moves(w, pc)
    <3>1. ASSUME NEW i \in Intents,
                 PrepareCall(w, i) \/ ClaimSubmission(w, i) \/ SubmissionTaken(w, i)
          PROVE  Moves(w, "prepare_only") \/ Moves(w, "claimed") \/ Moves(w, "duplicate")
      <4>1. PICK pc \in { "prepare_only", "claimed", "duplicate" } :
              Become(w, [ Idle EXCEPT !.pc = pc, !.intent = i ])
        BY <3>1 DEF PrepareCall, ClaimSubmission, SubmissionTaken
      <4>2. [ Idle EXCEPT !.pc = pc, !.intent = i ].pc = pc
        BY DEF Idle
      <4>3. Moves(w, [ Idle EXCEPT !.pc = pc, !.intent = i ].pc)
        BY <1>0, <4>1, BecomeMoves
      <4> QED BY <4>1, <4>2, <4>3
    <3>2. ASSUME NEW i \in Intents, NEW e \in EventIds, DeliverEvent(w, i, e)
          PROVE  Moves(w, "append") \/ Moves(w, "contradict")
      BY <1>0, <3>2, StartApplyMoves DEF DeliverEvent
    <3>3. ASSUME NEW startup \in BOOLEAN, NEW uncertain \in BOOLEAN,
                 StartRecovery(w, startup, uncertain)
          PROVE  Moves(w, "scan")
      <4>1. [ Idle EXCEPT !.pc = "scan" ].pc = "scan"
        BY DEF Idle
      <4>2. Moves(w, [ Idle EXCEPT !.pc = "scan" ].pc)
        BY <1>0, <3>3, BecomeMoves DEF StartRecovery
      <4> QED BY <4>1, <4>2
    <3> QED BY <1>4, <3>1, <3>2, <3>3 DEF Begin
  <2> QED BY <2>1 DEF Entry
<1> QED BY <1>1, <1>2, <1>3, <1>4 DEF Step

\* Once a kill is stored, no call on any coordinator enters the window before
\* a signature, a submission or a cancel.
THEOREM KillIsFinal == Spec => KillClosesWindow
<1>1. ASSUME IInv, [Next]_vars, killed, NEW u \in Workers, InWindow(u)'
      PROVE  InWindow(u)
  <2>1. ASSUME NEW w \in Workers, Step(w) \/ Begin(w) PROVE InWindow(u)
    <3>1. Entry(w)
      BY <1>1, <2>1, StepEntry
    <3>2. Killed
      BY <1>1 DEF Killed
    <3> QED BY <1>1, <3>1, <3>2 DEF Entry, Moves, InWindow
  <2>2. CASE Reconcile \/ UNCHANGED vars
    BY <1>1, <2>2 DEF Reconcile, vars, memory, InWindow
  <2>3. CASE Restart
    BY <1>1, <2>3 DEF Restart, InWindow, Idle
  <2> QED BY <1>1, <2>1, <2>2, <2>3 DEF Next
<1>2. IInv /\ [Next]_vars =>
        [ killed => \A w \in Workers : InWindow(w)' => InWindow(w) ]_vars
  BY <1>1
<1>3. Spec => []IInv
  BY IInvInit, IInvNext, PTL DEF Spec
<1> QED BY <1>2, <1>3, PTL DEF Spec, KillClosesWindow

-----------------------------------------------------------------------------
(* submit_intent implements the abstract submission *)

\* w is about to hand i to the venue.
AtVenue(w, i) == call[w].pc = "send" /\ call[w].intent = i

\* What PhaseOf looks at.
LEMMA PhaseUnchanged ==
  ASSUME UNCHANGED << posts, envelopes, claims >>, NEW i \in Intents,
         \A w \in Workers : AtVenue(w, i)' <=> AtVenue(w, i)
  PROVE  PhaseOf(i)' = PhaseOf(i)
<1>1. (\E w \in Workers : call[w].pc = "send" /\ call[w].intent = i)'
      <=> \E w \in Workers : call[w].pc = "send" /\ call[w].intent = i
  BY DEF AtVenue
<1> QED BY <1>1 DEF PhaseOf

\* The phases, read off the database and the calls.
LEMMA PhaseCases ==
  ASSUME IInv, NEW i \in Intents
  PROVE  /\ PhaseOf(i) = "sent" <=> posts[i] > 0
         /\ (\E w \in Workers : AtVenue(w, i)) => PhaseOf(i) = "committed"
         /\ PhaseOf(i) = "committed" => \E w \in Workers : AtVenue(w, i)
         /\ posts[i] = 0 /\ (\A w \in Workers : ~AtVenue(w, i)) =>
              PhaseOf(i) = IF i \in envelopes THEN "ready"
                           ELSE IF i \in claims THEN "claimed" ELSE "new"
<1>1. posts[i] \in Nat
  BY DEF IInv, TypeInv, TypeOK
<1>2. ASSUME NEW w \in Workers, AtVenue(w, i) PROVE posts[i] = 0
  BY <1>2 DEF AtVenue, IInv, SubmissionInv, Holds, Pipeline
<1>3. CASE posts[i] > 0
  BY <1>2, <1>3 DEF PhaseOf
<1>4. CASE posts[i] = 0 /\ \E w \in Workers : AtVenue(w, i)
  BY <1>4 DEF PhaseOf, AtVenue
<1>5. CASE posts[i] = 0 /\ \A w \in Workers : ~AtVenue(w, i)
  BY <1>5 DEF PhaseOf, AtVenue
<1> QED BY <1>1, <1>3, <1>4, <1>5

Phase == [ i \in Intents |-> PhaseOf(i) ]

\* One intent changes its phase and the others keep theirs.
LEMMA PhaseMove ==
  ASSUME NEW i \in Intents, NEW to, PhaseOf(i)' = to,
         \A j \in Intents \ { i } : PhaseOf(j)' = PhaseOf(j)
  PROVE  Phase' = [ Phase EXCEPT ![i] = to ]
<1>1. \A j \in Intents : Phase'[j] = PhaseOf(j)'
  BY DEF Phase
<1> QED BY <1>1 DEF Phase

LEMMA PhaseStutter ==
  ASSUME \A j \in Intents : PhaseOf(j)' = PhaseOf(j)
  PROVE  Phase' = Phase
BY DEF Phase

\* Most steps are not about the phase of any intent.
LEMMA Frame ==
  ASSUME NEW w \in Workers, Step(w) \/ Begin(w), ~Post(w), ~PersistBoundary(w),
         ~EngageKill(w), \A i \in Intents : ~ClaimSubmission(w, i)
  PROVE  UNCHANGED << posts, envelopes, claims, killed >> /\ call[w].pc # "send"
<1> USE DEF ledger, database, memory, ports
<1>1. CASE SubmitStep(w)
  BY <1>1 DEF SubmitStep, DuplicateSubmission, StartClaimed, PrepareRefused,
     PrepareCollision, PrepareCommit, SignBoundary, Sign, SubmitBoundary,
     Classify, UnknownAfterSign
<1>2. CASE ApplyStep(w)
  BY <1>2 DEF ApplyStep, AppendEvent, ClaimFirstFill, Revalidate, Contradict
<1>3. CASE RecoveryStep(w)
  BY <1>3 DEF RecoveryStep, Scan, ResolveByRead, ResolveByCancel, OrderRead,
     TradeRead, Cancel, SendCancel, CancelResult, Confirm, Unresolved,
     CloseRecovery, Report
<1>4. CASE Begin(w)
  BY <1>4 DEF Begin, PrepareCall, SubmissionTaken, DeliverEvent, StartRecovery
<1> QED BY <1>1, <1>2, <1>3, <1>4 DEF Step

LEMMA RefinesInit == Init => AtMostOnce!Init
<1> SUFFICES ASSUME Init PROVE AtMostOnce!Init
  OBVIOUS
<1>1. \A i \in Intents : PhaseOf(i) = "new"
  BY DEF Init, PhaseOf, Idle
<1> QED BY <1>1 DEF Init, AtMostOnce!Init

LEMMA RefinesStep ==
  ASSUME IInv, IInv', NEW w \in Workers, Step(w) \/ Begin(w)
  PROVE  \/ \E i \in Intents : \/ AtMostOnce!Claim(i) \/ AtMostOnce!Persist(i)
                              \/ AtMostOnce!Commit(i) \/ AtMostOnce!Send(i)
         \/ AtMostOnce!Halt
         \/ UNCHANGED << Phase, killed >>
<1>0. PICK pc \in PCs :
        /\ call'[w].pc = pc
        /\ \A v \in Workers \ { w } : call'[v] = call[v]
        /\ pc \in { "sign", "send", "send_cancel" } => ~Killed
        /\ pc = "send" => /\ call[w].pc = "send_check"
                          /\ call'[w].intent = call[w].intent
  BY StepEntry DEF Entry, Moves
<1>1. \A v \in Workers \ { w }, j \in Intents : AtVenue(v, j)' <=> AtVenue(v, j)
  BY <1>0 DEF AtVenue
<1>2. CASE \E i \in Intents : ClaimSubmission(w, i)
  <2>1. PICK i \in Intents : ClaimSubmission(w, i)
    BY <1>2
  <2>2. /\ i \notin claims /\ claims' = claims \cup { i }
        /\ UNCHANGED << posts, envelopes, killed >>
        /\ call[w].pc = "idle"
    BY <2>1 DEF ClaimSubmission, ports
  <2>3. pc # "send"
    BY <1>0, <2>2
  <2>4. \A v \in Workers, j \in Intents : AtVenue(v, j)' <=> AtVenue(v, j)
    BY <1>0, <1>1, <2>2, <2>3 DEF AtVenue
  <2>5. /\ posts[i] = 0 /\ i \notin envelopes
        /\ \A v \in Workers : ~AtVenue(v, i)
    BY <2>2 DEF IInv, SubmissionInv, AtVenue, Holds, Pipeline
  <2>6. PhaseOf(i) = "new"
    BY <2>2, <2>5, PhaseCases
  <2>7. PhaseOf(i)' = "claimed"
    BY <2>2, <2>4, <2>5 DEF PhaseOf, AtVenue
  <2>8. \A j \in Intents \ { i } : PhaseOf(j)' = PhaseOf(j)
    BY <2>2, <2>4 DEF PhaseOf, AtVenue
  <2>9. Phase' = [ Phase EXCEPT ![i] = "claimed" ] /\ Phase[i] = "new"
    BY <2>6, <2>7, <2>8, PhaseMove DEF Phase
  <2> QED BY <2>2, <2>9 DEF AtMostOnce!Claim, AtMostOnce!Move, Phase
<1>3. CASE PersistBoundary(w)
  <2>0. call[w].pc = "boundary" /\ call[w].intent \in Intents
    BY <1>3 DEF PersistBoundary, IInv, TypeInv, CallsComplete, CompleteCall
  <2> PICK i \in Intents : i = call[w].intent
    BY <2>0
  <2>1. /\ envelopes' = envelopes \/ envelopes' = envelopes \cup { i }
        /\ UNCHANGED << posts, claims, killed >>
    BY <1>3 DEF PersistBoundary, ports
  <2>2. /\ posts[i] = 0 /\ i \in claims
        /\ \A v \in Workers : ~AtVenue(v, i)
    BY <2>0 DEF IInv, SubmissionInv, Holds, AtVenue, Pipeline
  <2>3. \A v \in Workers, j \in Intents : AtVenue(v, j)' <=> AtVenue(v, j)
    <3>1. pc # "send"
      BY <1>0, <2>0
    <3> QED BY <1>0, <1>1, <2>0, <3>1 DEF AtVenue
  <2>4. CASE envelopes' = envelopes
    BY <2>1, <2>3, <2>4, PhaseUnchanged, PhaseStutter
  <2>5. CASE envelopes' = envelopes \cup { i } /\ i \notin envelopes
    <3>1. PhaseOf(i) = "claimed"
      BY <2>2, <2>5, PhaseCases
    <3>2. PhaseOf(i)' = "ready"
      BY <2>1, <2>2, <2>3, <2>5 DEF PhaseOf, AtVenue
    <3>3. \A j \in Intents \ { i } : PhaseOf(j)' = PhaseOf(j)
      BY <2>1, <2>3, <2>5 DEF PhaseOf, AtVenue
    <3>4. Phase' = [ Phase EXCEPT ![i] = "ready" ] /\ Phase[i] = "claimed"
      BY <2>2, <3>1, <3>2, <3>3, PhaseMove DEF Phase
    <3> QED BY <2>1, <2>2, <3>4 DEF AtMostOnce!Persist, AtMostOnce!Move, Phase
  <2> QED BY <2>1, <2>4, <2>5
<1>4. CASE Post(w)
  <2>0. call[w].pc = "send" /\ call[w].intent \in Intents
    BY <1>4 DEF Post, IInv, TypeInv, CallsComplete, CompleteCall
  <2> PICK i \in Intents : i = call[w].intent
    BY <2>0
  <2>1. /\ posts' = [ posts EXCEPT ![i] = @ + 1 ]
        /\ UNCHANGED << claims, envelopes, killed >>
    BY <1>4 DEF Post, ledger, database
  <2>2. posts \in [ Intents -> Nat ] /\ AtVenue(w, i)
    BY <2>0 DEF IInv, TypeInv, TypeOK, AtVenue
  <2>3. \A j \in Intents \ { i }, v \in Workers : AtVenue(v, j)' <=> AtVenue(v, j)
    <3>1. pc # "send"
      BY <1>0, <2>0
    <3> QED BY <1>0, <1>1, <2>0, <3>1 DEF AtVenue
  <2>4. /\ posts'[i] > 0
        /\ \A j \in Intents \ { i } : posts'[j] = posts[j]
    BY <2>1, <2>2
  <2>5. PhaseOf(i) = "committed"
    BY <2>2, PhaseCases
  <2>6. PhaseOf(i)' = "sent"
    BY <2>4 DEF PhaseOf
  <2>7. \A j \in Intents \ { i } : PhaseOf(j)' = PhaseOf(j)
    BY <2>1, <2>3, <2>4 DEF PhaseOf, AtVenue
  <2>8. Phase' = [ Phase EXCEPT ![i] = "sent" ] /\ Phase[i] = "committed"
    BY <2>2, <2>5, <2>6, <2>7, PhaseMove DEF Phase
  <2> QED BY <2>1, <2>2, <2>8 DEF AtMostOnce!Send, AtMostOnce!Move, Phase
<1>5. CASE EngageKill(w)
  <2>1. /\ killed' = TRUE
        /\ call[w].pc = "kill"
        /\ UNCHANGED << posts, claims, envelopes >>
    BY <1>5 DEF EngageKill, ports
  <2>2. \A v \in Workers, j \in Intents : AtVenue(v, j)' <=> AtVenue(v, j)
    BY <1>0, <1>1, <2>1 DEF AtVenue
  <2>3. Phase' = Phase
    BY <2>1, <2>2, PhaseUnchanged, PhaseStutter
  <2> QED BY <2>1, <2>3 DEF AtMostOnce!Halt, Phase
<1>6. CASE /\ ~Post(w) /\ ~PersistBoundary(w) /\ ~EngageKill(w)
           /\ \A i \in Intents : ~ClaimSubmission(w, i)
  <2>1. /\ UNCHANGED << posts, envelopes, claims, killed >>
        /\ call[w].pc # "send"
    BY <1>6, Frame
  <2>2. CASE pc # "send"
    <3>1. \A v \in Workers, j \in Intents : AtVenue(v, j)' <=> AtVenue(v, j)
      BY <1>0, <1>1, <2>1, <2>2 DEF AtVenue
    <3> QED BY <2>1, <3>1, PhaseUnchanged, PhaseStutter
  <2>3. CASE pc = "send"
    <3>0. call[w].intent \in Intents
      BY <1>0, <2>3 DEF IInv, TypeInv, CallsComplete, CompleteCall
    <3> PICK i \in Intents : i = call[w].intent
      BY <3>0
    <3>1. /\ posts[i] = 0 /\ i \in envelopes
          /\ \A v \in Workers : ~AtVenue(v, i)
      BY <1>0, <2>3 DEF IInv, SubmissionInv, Holds, AtVenue, Pipeline
    <3>2. AtVenue(w, i)' /\ ~killed
      BY <1>0, <2>3 DEF AtVenue, Killed
    <3>3. \A j \in Intents \ { i }, v \in Workers : AtVenue(v, j)' <=> AtVenue(v, j)
      BY <1>0, <1>1, <2>1, <2>3 DEF AtVenue
    <3>4. PhaseOf(i) = "ready"
      BY <3>1, PhaseCases
    <3>5. PhaseOf(i)' = "committed"
      BY <2>1, <3>1, <3>2 DEF PhaseOf, AtVenue
    <3>6. \A j \in Intents \ { i } : PhaseOf(j)' = PhaseOf(j)
      BY <2>1, <3>3, PhaseUnchanged
    <3>7. Phase' = [ Phase EXCEPT ![i] = "committed" ] /\ Phase[i] = "ready"
      BY <3>1, <3>4, <3>5, <3>6, PhaseMove DEF Phase
    <3> QED BY <2>1, <3>1, <3>2, <3>7
            DEF AtMostOnce!Commit, AtMostOnce!Move, Phase
  <2> QED BY <2>2, <2>3
<1> QED BY <1>2, <1>3, <1>4, <1>5, <1>6

LEMMA RefinesNext ==
  ASSUME IInv, IInv', [Next]_vars
  PROVE  [AtMostOnce!Next]_(AtMostOnce!vars)
<1>1. ASSUME NEW w \in Workers, Step(w) \/ Begin(w)
      PROVE  [AtMostOnce!Next]_(AtMostOnce!vars)
  BY <1>1, RefinesStep DEF AtMostOnce!Next, AtMostOnce!vars, Phase
<1>2. CASE Reconcile \/ UNCHANGED vars
  <2>1. UNCHANGED << posts, envelopes, claims, killed, call >>
    BY <1>2 DEF Reconcile, vars, ledger, database, memory, ports
  <2>2. Phase' = Phase
    BY <2>1, PhaseUnchanged, PhaseStutter DEF AtVenue
  <2> QED BY <2>1, <2>2 DEF AtMostOnce!vars, Phase
<1>3. CASE Restart
  <2>1. /\ UNCHANGED << posts, envelopes, claims, killed >>
        /\ \A w \in Workers : call'[w].pc = "idle"
    BY <1>3 DEF Restart, ledger, database, ports, Idle
  <2>2. \A i \in Intents : PhaseOf(i)' = IF PhaseOf(i) = "committed" THEN "ready"
                                        ELSE PhaseOf(i)
    <3> SUFFICES ASSUME NEW i \in Intents
                 PROVE  PhaseOf(i)' = IF PhaseOf(i) = "committed" THEN "ready"
                                      ELSE PhaseOf(i)
      OBVIOUS
    <3>1. \A v \in Workers : ~AtVenue(v, i)'
      BY <2>1 DEF AtVenue
    <3>2. CASE PhaseOf(i) = "committed"
      <4>1. PICK w \in Workers : AtVenue(w, i)
        BY <3>2, PhaseCases
      <4>2. posts[i] = 0 /\ i \in envelopes
        BY <4>1 DEF AtVenue, IInv, SubmissionInv, Holds, Pipeline
      <4> QED BY <2>1, <3>1, <3>2, <4>2 DEF PhaseOf, AtVenue
    <3>3. CASE PhaseOf(i) # "committed"
      <4>1. \A v \in Workers : ~AtVenue(v, i)
        BY <3>3, PhaseCases
      <4> QED BY <2>1, <3>1, <3>3, <4>1, PhaseUnchanged
    <3> QED BY <3>2, <3>3
  <2>3. Phase' = [ i \in Intents |->
                     IF Phase[i] = "committed" THEN "ready" ELSE Phase[i] ]
    BY <2>2 DEF Phase
  <2>4. AtMostOnce!Crash
    BY <2>1, <2>3 DEF AtMostOnce!Crash, Phase
  <2> QED BY <2>4 DEF AtMostOnce!Next
<1> QED BY <1>1, <1>2, <1>3 DEF Next

\* The threads, tables, callbacks and restarts of the coordinator together do
\* what AtMostOnceSubmission says of one intent at a time.
THEOREM CoordinatorRefines == Spec => SubmissionRefines
<1>1. Spec => []IInv
  BY IInvInit, IInvNext, PTL DEF Spec
<1>2. IInv /\ IInv' /\ [Next]_vars => [AtMostOnce!Next]_(AtMostOnce!vars)
  BY RefinesNext
<1> QED BY <1>1, <1>2, RefinesInit, PTL
        DEF Spec, SubmissionRefines, AtMostOnce!Spec
=============================================================================
