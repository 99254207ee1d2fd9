----------------------------- MODULE StreamProofs -----------------------------
(***************************************************************************)
(* Proofs about fills: the remaining legs of a plan are decided on at most *)
(* once per intent, and never silently not at all, for any number of       *)
(* deliverers, coordinators, events and recoveries.                        *)
(***************************************************************************)
EXTENDS ExecutionCoordinatorProofs

USE DEF FailReturns, OkReturns

\* The places of apply_order_event between an applied first fill and the
\* decision.
Deciding == { "claim_fill", "revalidate" }

\* The claim of the first fill admits one worker to revalidate_after_fill, and
\* nobody has decided while it is there.
FillInv ==
  /\ \A i \in Intents : firstFill[i] = "none" => revalidations[i] = 0
  /\ \A w \in Workers : call[w].pc = "claim_fill" => call[w].src \in Sources
  /\ \A w \in Workers :
       call[w].pc = "revalidate" => /\ firstFill[call[w].intent] # "none"
                                    /\ revalidations[call[w].intent] = 0
  /\ \A v, w \in Workers :
       /\ call[v].pc = "revalidate"
       /\ call[w].pc = "revalidate"
       /\ call[v].intent = call[w].intent
       => v = w
  /\ OneRevalidation
  /\ FirstFillDecided

\* A step of w that has nothing to do with first fills, and leaves a kill that
\* is to be engaged only by engaging it.
Quiet(w) ==
  /\ \E pc \in PCs \ Deciding : Moves(w, pc)
  /\ UNCHANGED << firstFill, revalidations, restarts >>
  /\ killed => killed'
  /\ call[w].pc \in { "kill", "revalidate" } => killed'

LEMMA SubmitStepQuiet ==
  ASSUME TypeInv, NEW w \in Workers, SubmitStep(w)
  PROVE  Quiet(w)
<1> USE DEF PCs, Deciding, ledger, database, memory, ports
<1>1. CASE DuplicateSubmission(w) \/ StartClaimed(w)
  BY <1>1, ContinueMoves, KillThenMoves DEF DuplicateSubmission, StartClaimed, Quiet
<1>2. CASE PrepareRefused(w) \/ PrepareCollision(w) \/ PrepareCommit(w)
  BY <1>2, ContinueMoves, KillThenMoves
  DEF PrepareRefused, PrepareCollision, PrepareCommit, Quiet
<1>3. CASE SignBoundary(w) \/ SubmitBoundary(w)
  BY <1>3, ContinueMoves, KillThenMoves DEF SignBoundary, SubmitBoundary, Boundary, Quiet
<1>4. CASE Sign(w) \/ PersistBoundary(w)
  BY <1>4, ContinueMoves, KillThenMoves DEF Sign, PersistBoundary, Quiet
<1>5. CASE Post(w)
  <2>1. PICK code \in SubmitCodes :
          Become(w, [ call[w] EXCEPT !.pc = "classify", !.code = code ])
    BY <1>5 DEF Post
  <2> DEFINE r == [ call[w] EXCEPT !.pc = "classify", !.code = code ]
  <2>2. r.pc = "classify"
    BY DEF TypeInv, TypeOK, Calls
  <2>3. Moves(w, r.pc)
    BY <2>1, BecomeMoves
  <2>4. Moves(w, "classify")
    BY <2>2, <2>3
  <2> QED BY <1>5, <2>4 DEF Post, Quiet
<1>6. CASE Classify(w) \/ UnknownAfterSign(w)
  BY <1>6, ContinueMoves, KillThenMoves DEF Classify, UnknownAfterSign, Quiet
<1> QED BY <1>1, <1>2, <1>3, <1>4, <1>5, <1>6 DEF SubmitStep

LEMMA RecoveryStepQuiet ==
  ASSUME TypeInv, NEW w \in Workers, RecoveryStep(w)
  PROVE  Quiet(w)
<1> USE DEF PCs, Deciding, ledger, database, memory, ports
<1>0. call[w] \in Calls
  BY DEF TypeInv, TypeOK
<1>1. CASE Scan(w) \/ CloseRecovery(w)
  BY <1>1, GotoMoves, KillThenMoves DEF Scan, CloseRecovery, Quiet
<1>2. CASE \E i \in Intents : ResolveByRead(w, i) \/ ResolveByCancel(w, i)
  <2>1. PICK i \in Intents : ResolveByRead(w, i) \/ ResolveByCancel(w, i)
    BY <1>2
  <2>2. Moves(w, "order_read") \/ Moves(w, "cancel")
    <3> DEFINE r(pc) == [ Idle EXCEPT !.pc = pc, !.intent = i ]
    <3>1. PICK pc \in { "order_read", "cancel" } : Become(w, r(pc))
      BY <2>1 DEF ResolveByRead, ResolveByCancel
    <3>2. r(pc).pc = pc
      BY DEF Idle
    <3>3. Moves(w, r(pc).pc)
      BY <3>1, BecomeMoves
    <3> QED BY <3>1, <3>2, <3>3
  <2> QED BY <2>1, <2>2 DEF ResolveByRead, ResolveByCancel, Quiet
<1>3. CASE OrderRead(w)
  BY <1>3, ContinueMoves, StartApplyMoves DEF OrderRead, Quiet
<1>4. CASE TradeRead(w)
  BY <1>4, ContinueMoves, StartApplyMoves DEF TradeRead, Quiet
<1>5. CASE Cancel(w)
  BY <1>5, ContinueMoves DEF Cancel, Quiet
<1>6. CASE SendCancel(w)
  <2>1. PICK code \in CancelCodes :
          Become(w, [ call[w] EXCEPT !.pc = "cancel_result", !.code = code ])
    BY <1>6 DEF SendCancel
  <2> DEFINE r == [ call[w] EXCEPT !.pc = "cancel_result", !.code = code ]
  <2>2. r.pc = "cancel_result"
    BY <1>0 DEF Calls
  <2>3. Moves(w, r.pc)
    BY <2>1, BecomeMoves
  <2>4. Moves(w, "cancel_result")
    BY <2>2, <2>3
  <2> QED BY <1>6, <2>4 DEF SendCancel, Quiet
<1>7. CASE CancelResult(w) \/ Unresolved(w) \/ Report(w)
  BY <1>7, ContinueMoves DEF CancelResult, Unresolved, Report, Quiet
<1>8. CASE Confirm(w)
  BY <1>8, ContinueMoves, StartApplyMoves DEF Confirm, Quiet
<1> QED BY <1>1, <1>2, <1>3, <1>4, <1>5, <1>6, <1>7, <1>8 DEF RecoveryStep

LEMMA BeginQuiet ==
  ASSUME TypeInv, NEW w \in Workers, Begin(w)
  PROVE  Quiet(w)
<1> USE DEF PCs, Deciding, ledger, database, memory, ports
<1>1. ASSUME NEW i \in Intents,
             PrepareCall(w, i) \/ ClaimSubmission(w, i) \/ SubmissionTaken(w, i)
      PROVE  Quiet(w)
  <2> DEFINE r(pc) == [ Idle EXCEPT !.pc = pc, !.intent = i ]
  <2>1. PICK pc \in { "prepare_only", "claimed", "duplicate" } : Become(w, r(pc))
    BY <1>1 DEF PrepareCall, ClaimSubmission, SubmissionTaken
  <2>2. r(pc).pc = pc
    BY DEF Idle
  <2>3. Moves(w, r(pc).pc)
    BY <2>1, BecomeMoves
  <2>4. \E q \in PCs \ Deciding : Moves(w, q)
    BY <2>1, <2>2, <2>3
  <2> QED BY <1>1, <2>4 DEF PrepareCall, ClaimSubmission, SubmissionTaken, Quiet
<1>2. ASSUME NEW i \in Intents, NEW e \in EventIds, DeliverEvent(w, i, e)
      PROVE  Quiet(w)
  BY <1>2, StartApplyMoves DEF DeliverEvent, Quiet
<1>3. ASSUME NEW startup \in BOOLEAN, NEW uncertain \in BOOLEAN,
             StartRecovery(w, startup, uncertain)
      PROVE  Quiet(w)
  <2> DEFINE r == [ Idle EXCEPT !.pc = "scan" ]
  <2>1. r.pc = "scan"
    BY DEF Idle
  <2>2. Moves(w, r.pc)
    BY <1>3, BecomeMoves DEF StartRecovery
  <2>3. Moves(w, "scan")
    BY <2>1, <2>2
  <2> QED BY <1>3, <2>3 DEF StartRecovery, Quiet
<1> QED BY <1>1, <1>2, <1>3 DEF Begin

LEMMA QuietKeeps ==
  ASSUME FillInv, NEW w \in Workers, Quiet(w)
  PROVE  FillInv'
<1>1. PICK pc \in PCs \ Deciding : Moves(w, pc)
  BY DEF Quiet
<1>2. \A v \in Workers : call'[v].pc \in Deciding => v # w /\ call'[v] = call[v]
  BY <1>1 DEF Moves
<1>3. UNCHANGED << firstFill, revalidations, restarts >>
  BY DEF Quiet
<1>4. FirstFillDecided'
  <2> SUFFICES ASSUME restarts' = 0, NEW i \in Intents,
                      firstFill'[i] # "none", revalidations'[i] = 0, ~killed'
               PROVE  \E v \in Workers :
                        call'[v].intent = i /\ call'[v].pc \in { "revalidate", "kill" }
    BY DEF FirstFillDecided
  <2>1. PICK v \in Workers :
          call[v].intent = i /\ call[v].pc \in { "revalidate", "kill" }
    BY <1>3 DEF Quiet, FillInv, FirstFillDecided
  <2>2. v # w
    BY <2>1 DEF Quiet
  <2>3. call'[v] = call[v]
    BY <1>1, <2>2 DEF Moves
  <2> QED BY <2>1, <2>3
<1> QED BY <1>2, <1>3, <1>4 DEF FillInv, OneRevalidation, Deciding

\* The only steps that are not quiet: an append of a first fill, its claim, and
\* the decision.
LEMMA ApplyStepKeepsFill ==
  ASSUME TypeInv, FillInv, NEW w \in Workers, ApplyStep(w) \/ EngageKill(w)
  PROVE  FillInv'
<1> USE DEF PCs, Deciding, ledger, database, memory, ports
<1>0. /\ call[w] \in Calls
      /\ call[w].ok \in OkReturns
      /\ call[w].fail \in FailReturns
      /\ call[w].pc \in { "append", "claim_fill", "revalidate" } =>
           call[w].intent \in Intents
      /\ call[w].pc = "append" => call[w].src \in Sources
      /\ revalidations \in [ Intents -> Nat ]
      /\ firstFill \in [ Intents -> Sources \cup { "none" } ]
  BY DEF TypeInv, TypeOK, CallsComplete, CompleteCall, Calls
<1>1. "none" \notin Sources
  BY ConstantsAssumption DEF Sources, Origins
<1>2. ASSUME NEW pc, Goto(w, pc)
      PROVE  /\ Moves(w, pc)
             /\ call'[w].intent = call[w].intent
             /\ call'[w].src = call[w].src
  <2> DEFINE r == [ call[w] EXCEPT !.pc = pc ]
  <2>1. r.intent = call[w].intent /\ r.src = call[w].src
    BY <1>0 DEF Calls
  <2>2. call'[w] = r
    BY <1>2, BecomeMoves DEF Goto
  <2> QED BY <1>2, <2>1, <2>2, GotoMoves
<1>3. CASE Contradict(w) \/ EngageKill(w)
  <2>1. Quiet(w)
    BY <1>0, <1>3, ContinueMoves, KillThenMoves DEF Contradict, EngageKill, Quiet
  <2> QED BY <2>1, QuietKeeps
<1>4. CASE AppendEvent(w)
  <2>1. CASE ~call[w].first
    <3>1. Quiet(w)
      BY <1>0, <1>4, <2>1, ContinueMoves DEF AppendEvent, Quiet
    <3> QED BY <3>1, QuietKeeps
  <2>2. CASE call[w].first
    <3>1. /\ Moves(w, "claim_fill")
          /\ call[w].pc = "append"
          /\ call'[w].src \in Sources
          /\ UNCHANGED << firstFill, revalidations, restarts, killed >>
      BY <1>0, <1>2, <1>4, <2>2 DEF AppendEvent
    <3>2. FirstFillDecided'
      BY <3>1 DEF Moves, FillInv, FirstFillDecided
    <3> QED BY <3>1, <3>2 DEF Moves, FillInv, OneRevalidation
  <2> QED BY <2>1, <2>2
<1>5. CASE ClaimFirstFill(w)
  <2> DEFINE i == call[w].intent
  <2>1. CASE firstFill[i] # "none"
    <3>1. Quiet(w)
      BY <1>0, <1>2, <1>5, <2>1, ContinueMoves DEF ClaimFirstFill, Quiet
    <3> QED BY <3>1, QuietKeeps
  <2>2. CASE firstFill[i] = "none"
    <3>1. /\ Moves(w, "revalidate")
          /\ call[w].pc = "claim_fill"
          /\ call'[w].intent = i
          /\ firstFill' = [ firstFill EXCEPT ![i] = call[w].src ]
          /\ UNCHANGED << revalidations, restarts, killed >>
      BY <1>2, <1>5, <2>2 DEF ClaimFirstFill
    <3>2. /\ call[w].src # "none"
          /\ i \in Intents
          /\ revalidations[i] = 0
          /\ \A v \in Workers : call[v].pc = "revalidate" => call[v].intent # i
      BY <1>0, <1>1, <2>2, <3>1 DEF FillInv
    <3>3. /\ firstFill'[i] # "none"
          /\ \A j \in Intents \ { i } : firstFill'[j] = firstFill[j]
      BY <1>0, <3>1, <3>2
    <3>4. FirstFillDecided'
      BY <3>1, <3>3 DEF Moves, FillInv, FirstFillDecided
    <3>5. \A v \in Workers :
            call'[v].pc = "revalidate" /\ v # w =>
              call[v].pc = "revalidate" /\ call'[v] = call[v]
      BY <3>1 DEF Moves
    <3>6. \A v \in Workers :
            call'[v].pc = "revalidate" =>
              firstFill'[call'[v].intent] # "none" /\ revalidations'[call'[v].intent] = 0
      <4> SUFFICES ASSUME NEW v \in Workers, call'[v].pc = "revalidate"
                   PROVE  /\ firstFill'[call'[v].intent] # "none"
                          /\ revalidations'[call'[v].intent] = 0
        OBVIOUS
      <4>1. CASE v = w
        BY <3>1, <3>2, <3>3, <4>1
      <4>2. CASE v # w
        <5>1. /\ call'[v] = call[v] /\ call[v].pc = "revalidate"
              /\ call[v].intent \in Intents \ { i }
          BY <3>2, <3>5, <4>2 DEF TypeInv, CallsComplete, CompleteCall
        <5> QED BY <3>1, <3>3, <5>1 DEF FillInv
      <4> QED BY <4>1, <4>2
    <3>7. \A v \in Workers : call'[v].pc = "claim_fill" => call'[v].src \in Sources
      BY <3>1 DEF Moves, FillInv
    <3>8. \A u, v \in Workers :
            /\ call'[u].pc = "revalidate"
            /\ call'[v].pc = "revalidate"
            /\ call'[u].intent = call'[v].intent
            => u = v
      BY <3>1, <3>2, <3>5 DEF FillInv
    <3>9. \A j \in Intents : firstFill'[j] = "none" => revalidations'[j] = 0
      BY <3>1, <3>3 DEF FillInv
    <3> QED BY <3>1, <3>4, <3>6, <3>7, <3>8, <3>9 DEF FillInv, OneRevalidation
  <2> QED BY <2>1, <2>2
<1>6. CASE Revalidate(w)
  <2> DEFINE i == call[w].intent
  <2>1. /\ call[w].pc = "revalidate"
        /\ i \in Intents
        /\ revalidations[i] = 0
        /\ firstFill[i] # "none"
        /\ UNCHANGED << firstFill, restarts, killed >>
    BY <1>0, <1>6 DEF Revalidate, FillInv
  <2>2. \E pc \in PCs \ Deciding : Moves(w, pc)
    BY <1>0, <1>6, ContinueMoves, KillThenMoves DEF Revalidate
  <2>3. \A v \in Workers : call'[v].pc \in Deciding =>
          /\ call'[v] = call[v]
          /\ v # w
          /\ call[v].pc = "revalidate" => call[v].intent \in Intents \ { i }
    BY <2>1, <2>2 DEF Moves, FillInv, TypeInv, CallsComplete, CompleteCall
  <2>4. /\ \A j \in Intents \ { i } : revalidations'[j] = revalidations[j]
        /\ \/ revalidations'[i] = 1
           \/ /\ revalidations'[i] = 0
              /\ call'[w].pc = "kill"
              /\ call'[w].intent = i
    <3>1. CASE i \in prepared[Home[w]]
      BY <1>0, <1>6, <2>1, <3>1 DEF Revalidate
    <3>2. CASE i \notin prepared[Home[w]]
      <4>1. KillThen(w, call[w].ok) /\ UNCHANGED revalidations
        BY <1>6, <3>2 DEF Revalidate
      <4> DEFINE r == [ call[w] EXCEPT !.pc = "kill", !.fail = call[w].ok ]
      <4>2. call'[w] = r
        BY <4>1, BecomeMoves DEF KillThen
      <4>3. r.pc = "kill" /\ r.intent = i
        BY <1>0 DEF Calls
      <4> QED BY <2>1, <4>1, <4>2, <4>3
    <3> QED BY <3>1, <3>2
  <2>5. FirstFillDecided'
    <3> SUFFICES ASSUME restarts' = 0, NEW j \in Intents,
                        firstFill'[j] # "none", revalidations'[j] = 0, ~killed'
                 PROVE  \E v \in Workers :
                          call'[v].intent = j /\ call'[v].pc \in { "revalidate", "kill" }
      BY DEF FirstFillDecided
    <3>1. CASE j = i
      BY <2>4, <3>1
    <3>2. CASE j # i
      <4>1. PICK v \in Workers :
              call[v].intent = j /\ call[v].pc \in { "revalidate", "kill" }
        BY <2>1, <2>4, <3>2 DEF FillInv, FirstFillDecided
      <4>2. call'[v] = call[v]
        BY <2>2, <3>2, <4>1 DEF Moves
      <4> QED BY <4>1, <4>2
    <3> QED BY <3>1, <3>2
  <2>6. \A j \in Intents : firstFill'[j] = "none" => revalidations'[j] = 0
    BY <2>1, <2>4 DEF FillInv
  <2>7. OneRevalidation'
    BY <2>4 DEF FillInv, OneRevalidation
  <2>8. \A v \in Workers : call'[v].pc = "revalidate" =>
          /\ firstFill'[call'[v].intent] # "none"
          /\ revalidations'[call'[v].intent] = 0
    BY <2>1, <2>3, <2>4 DEF FillInv
  <2> QED BY <2>3, <2>5, <2>6, <2>7, <2>8 DEF FillInv
<1> QED BY <1>3, <1>4, <1>5, <1>6 DEF ApplyStep

LEMMA FillInvInit == Init => FillInv
BY DEF Init, Idle, FillInv, OneRevalidation, FirstFillDecided

LEMMA FillInvNext == TypeInv /\ FillInv /\ [Next]_vars => FillInv'
<1> SUFFICES ASSUME TypeInv, FillInv, [Next]_vars PROVE FillInv'
  OBVIOUS
<1> USE DEF ledger, database, memory, ports
<1>1. ASSUME NEW w \in Workers, Begin(w) \/ Step(w) PROVE FillInv'
  BY <1>1, SubmitStepQuiet, RecoveryStepQuiet, BeginQuiet, QuietKeeps,
     ApplyStepKeepsFill DEF Step
<1>2. CASE Reconcile \/ UNCHANGED vars
  BY <1>2 DEF Reconcile, vars, FillInv, OneRevalidation, FirstFillDecided
<1>3. CASE Restart
  <2>1. \A w \in Workers : call'[w].pc = "idle"
    BY <1>3 DEF Restart, Idle
  <2>2. restarts' # 0
    BY <1>3 DEF Restart, TypeInv, TypeOK
  <2> QED BY <1>3, <2>1, <2>2 DEF Restart, FillInv, OneRevalidation, FirstFillDecided
<1> QED BY <1>1, <1>2, <1>3 DEF Next

\* revalidate_after_fill runs at most once for an intent, however many fills
\* are applied, in whatever order, by stream and by recovery.
THEOREM FirstFillRevalidatedOnce == Spec => []OneRevalidation
<1>1. FillInv => OneRevalidation
  BY DEF FillInv
<1> QED BY <1>1, TypeInvInit, TypeInvNext, FillInvInit, FillInvNext, PTL DEF Spec

\* While the process lives, a first fill that holds the claim is being decided,
\* was decided, or ends in a kill.
THEOREM FirstFillNotForgotten == Spec => []FirstFillDecided
<1>1. FillInv => FirstFillDecided
  BY DEF FillInv
<1> QED BY <1>1, TypeInvInit, TypeInvNext, FillInvInit, FillInvNext, PTL DEF Spec

-----------------------------------------------------------------------------
(* No UNKNOWN without a kill *)

Unknown(h) == HasState(h, { "UNKNOWN" })

\* A history becomes unknown by an append of UNKNOWN.
LEMMA AppendUnknown ==
  ASSUME NEW h \in Seq(Event), NEW e \in Event, Unknown(Append(h, e))
  PROVE  Unknown(h) \/ e.state = "UNKNOWN"
<1> DEFINE n == Len(h)
           g == Append(h, e)
<1>1. /\ n \in Nat
      /\ Len(g) = n + 1
      /\ \A k \in 1..n : g[k] = h[k]
      /\ g[n + 1] = e
  OBVIOUS
<1>2. PICK k \in 1..Len(g) : g[k].state = "UNKNOWN"
  BY DEF Unknown, HasState
<1>3. k \in 1..n \/ k = n + 1
  BY <1>1, <1>2
<1> HIDE DEF g
<1> QED BY <1>1, <1>2, <1>3 DEF Unknown, HasState

LEMMA AppendToUnknown ==
  ASSUME TypeInv, NEW i \in Intents, NEW state \in OrderStates, NEW ref \in Refs,
         NEW src \in Sources, NEW raw \in Raws, AppendTo(i, state, ref, src, raw)
  PROVE  \A j \in Intents :
           Unknown(history'[j]) => Unknown(history[j]) \/ (j = i /\ state = "UNKNOWN")
<1> DEFINE e == [ state |-> state, ref |-> ref, src |-> src, raw |-> raw ]
<1>1. e \in Event /\ e.state = state
  BY DEF Event
<1>2. /\ history \in [ Intents -> Seq(Event) ]
      /\ history' = [ history EXCEPT ![i] = Append(history[i], e) ]
  BY DEF TypeInv, TypeOK, AppendTo
<1> HIDE DEF e
<1>3. \A j \in Intents : history'[j] = IF j = i THEN Append(history[i], e)
                                       ELSE history[j]
  BY <1>2
<1>4. \A j \in Intents : history[j] \in Seq(Event)
  BY <1>2
<1> QED BY <1>1, <1>3, <1>4, AppendUnknown

\* The stream parser yields no UNKNOWN, so no event waits to be appended as one.
UnknownInv ==
  /\ UnknownIsKilled
  /\ \A w \in Workers : call[w].pc = "append" => call[w].state # "UNKNOWN"

\* A step of w after which every new UNKNOWN is w's to kill for.
Accounted(w) ==
  /\ \E pc \in PCs : Moves(w, pc)
  /\ UNCHANGED restarts
  /\ killed => killed'
  /\ call[w].pc = "kill" => killed'
  /\ \A i \in Intents :
       Unknown(history'[i]) =>
         \/ Unknown(history[i])
         \/ call'[w].pc = "kill" /\ call'[w].intent = i
  /\ call'[w].pc = "append" => call'[w].state # "UNKNOWN"

LEMMA AccountedKeeps ==
  ASSUME UnknownInv, NEW w \in Workers, Accounted(w)
  PROVE  UnknownInv'
<1>1. PICK pc \in PCs : Moves(w, pc)
  BY DEF Accounted
<1>2. \A v \in Workers \ { w } : call'[v] = call[v]
  BY <1>1 DEF Moves
<1>3. UnknownIsKilled'
  <2> SUFFICES ASSUME restarts' = 0, NEW i \in Intents, Unknown(history'[i]), ~killed'
               PROVE  \E v \in Workers : call'[v].pc = "kill" /\ call'[v].intent = i
    BY DEF UnknownIsKilled, Unknown
  <2>1. CASE call'[w].pc = "kill" /\ call'[w].intent = i
    BY <2>1
  <2>2. CASE Unknown(history[i])
    <3>1. PICK v \in Workers : call[v].pc = "kill" /\ call[v].intent = i
      BY <2>2 DEF Accounted, UnknownInv, UnknownIsKilled, Unknown
    <3>2. v # w
      BY <3>1 DEF Accounted
    <3> QED BY <1>2, <3>1, <3>2
  <2> QED BY <2>1, <2>2 DEF Accounted
<1> QED BY <1>2, <1>3 DEF Accounted, UnknownInv

LEMMA KillThenKeepsIntent ==
  ASSUME TypeInv, NEW w \in Workers, NEW then, KillThen(w, then)
  PROVE  call'[w].pc = "kill" /\ call'[w].intent = call[w].intent
<1> DEFINE r == [ call[w] EXCEPT !.pc = "kill", !.fail = then ]
<1>1. call'[w] = r
  BY BecomeMoves DEF KillThen
<1>2. r.pc = "kill" /\ r.intent = call[w].intent
  BY DEF TypeInv, TypeOK, Calls
<1> QED BY <1>1, <1>2

LEMMA StartApplyState ==
  ASSUME TypeInv, NEW w \in Workers, NEW i, NEW state, NEW src, NEW raw,
         NEW inOrder, NEW ok, NEW fail,
         StartApply(w, i, state, src, raw, inOrder, ok, fail)
  PROVE  call'[w].state = state
<1> DEFINE pc    == IF Acceptable(i, state, inOrder) THEN "append" ELSE "contradict"
           first == state \in FillStates /\ ~HasState(history[i], FillStates)
           r == [ Idle EXCEPT !.pc = pc, !.intent = i, !.state = state,
                    !.src = src, !.raw = raw, !.first = first, !.ok = ok, !.fail = fail ]
<1>1. call'[w] = r
  BY BecomeMoves DEF StartApply
<1>2. r.state = state
  BY DEF Idle
<1> QED BY <1>1, <1>2

LEMMA SubmitStepAccounted ==
  ASSUME TypeInv, NEW w \in Workers, SubmitStep(w)
  PROVE  Accounted(w)
<1> USE DEF PCs, NoIntentPCs, ledger, database, memory, ports
<1>0. /\ call[w] \in Calls
      /\ call[w].pc \notin NoIntentPCs \cup { "kill" } => call[w].intent \in Intents
      /\ \E pc \in PCs : Moves(w, pc)
      /\ UNCHANGED restarts
      /\ killed => killed'
      /\ call[w].pc = "kill" => killed'
  <2>1. /\ call[w] \in Calls
        /\ call[w].pc \notin NoIntentPCs \cup { "kill" } => call[w].intent \in Intents
    BY DEF TypeInv, TypeOK, CallsComplete, CompleteCall
  <2>2. Quiet(w)
    BY SubmitStepQuiet
  <2> QED BY <2>1, <2>2 DEF Quiet
<1>1. call'[w].pc # "append"
  <2>1. CASE Post(w)
    <3>1. PICK code \in SubmitCodes :
            Become(w, [ call[w] EXCEPT !.pc = "classify", !.code = code ])
      BY <2>1 DEF Post
    <3>2. call'[w] = [ call[w] EXCEPT !.pc = "classify", !.code = code ]
      BY <3>1, BecomeMoves
    <3> QED BY <1>0, <3>2 DEF Calls
  <2>2. CASE ~Post(w)
    BY <2>2, ContinueMoves, KillThenMoves
    DEF SubmitStep, DuplicateSubmission, StartClaimed, PrepareRefused, PrepareCollision,
        PrepareCommit, SignBoundary, SubmitBoundary, Boundary, Sign, PersistBoundary,
        Classify, UnknownAfterSign, Moves
  <2> QED BY <2>1, <2>2
<1>2. ASSUME UNCHANGED history PROVE Accounted(w)
  BY <1>0, <1>1, <1>2 DEF Accounted
<1>3. CASE PersistBoundary(w)
  <2>1. CASE call[w].intent \in envelopes
    BY <1>2, <1>3, <2>1 DEF PersistBoundary
  <2>2. CASE call[w].intent \notin envelopes
    <3>1. \A j \in Intents : Unknown(history'[j]) => Unknown(history[j])
      BY <1>0, <1>3, <2>2, AppendToUnknown, NoBodyRaw
      DEF PersistBoundary, OrderStates, Refs, Sources, Origins
    <3> QED BY <1>0, <1>1, <3>1 DEF Accounted
  <2> QED BY <2>1, <2>2
<1>4. CASE Classify(w)
  <2>1. /\ call[w].intent \in Intents
        /\ SubmittedState(call[w].code) \in OrderStates
        /\ "UNKNOWN" \in OrderStates
        /\ { "rest", "coordinator" } \subseteq Sources
    BY <1>0, <1>4 DEF Classify, SubmittedState, OrderStates, Sources, Origins
  <2>2. CASE KillRequired(call[w].code)
    <3>1. \A j \in Intents :
            Unknown(history'[j]) => Unknown(history[j]) \/ j = call[w].intent
      BY <1>4, <2>1, AppendToUnknown, NoBodyRaw DEF Classify, Refs
    <3>2. call'[w].pc = "kill" /\ call'[w].intent = call[w].intent
      BY <1>4, <2>2, KillThenKeepsIntent DEF Classify
    <3> QED BY <1>0, <1>1, <3>1, <3>2 DEF Accounted
  <2>3. CASE ~KillRequired(call[w].code)
    <3>1. call[w].code = "ORDER_ACK_MATCHED"
      BY <2>3 DEF KillRequired
    <3>2. AppendTo(call[w].intent, "ACK_MATCHED", "venue", "rest", NoBody)
      BY <1>4, <3>1 DEF Classify, SubmittedState, Acks
    <3>3. \A j \in Intents : Unknown(history'[j]) => Unknown(history[j])
      BY <2>1, <3>2, AppendToUnknown, NoBodyRaw DEF OrderStates, Refs
    <3> QED BY <1>0, <1>1, <3>3 DEF Accounted
  <2> QED BY <2>2, <2>3
<1>5. CASE UnknownAfterSign(w)
  <2>1. \A j \in Intents :
          Unknown(history'[j]) => Unknown(history[j]) \/ j = call[w].intent
    BY <1>0, <1>5, AppendToUnknown, NoBodyRaw
    DEF UnknownAfterSign, OrderStates, Refs, Sources, Origins
  <2>2. call'[w].pc = "kill" /\ call'[w].intent = call[w].intent
    BY <1>5, KillThenKeepsIntent DEF UnknownAfterSign
  <2> QED BY <1>0, <1>1, <2>1, <2>2 DEF Accounted
<1>6. CASE ~PersistBoundary(w) /\ ~Classify(w) /\ ~UnknownAfterSign(w)
  <2>1. UNCHANGED history
    BY <1>6 DEF SubmitStep, DuplicateSubmission, StartClaimed, PrepareRefused,
                PrepareCollision, PrepareCommit, SignBoundary, Sign, SubmitBoundary, Post
  <2> QED BY <1>2, <2>1
<1> QED BY <1>3, <1>4, <1>5, <1>6

LEMMA ApplyStepAccounted ==
  ASSUME TypeInv, UnknownInv, NEW w \in Workers, ApplyStep(w) \/ EngageKill(w)
  PROVE  Accounted(w)
<1> USE DEF PCs, NoIntentPCs, ledger, database, memory, ports
<1>0. /\ call[w] \in Calls
      /\ call[w].ok \in OkReturns
      /\ call[w].fail \in FailReturns
      /\ call[w].raw \in Raws
      /\ call[w].pc \notin NoIntentPCs \cup { "kill" } => call[w].intent \in Intents
      /\ call[w].pc = "append" => call[w].state \in OrderStates \ { "UNKNOWN" }
      /\ call[w].pc = "append" => call[w].src \in Sources
  BY DEF TypeInv, TypeOK, CallsComplete, CompleteCall, Calls, UnknownInv
<1>1. CASE AppendEvent(w)
  <2>1. \E pc \in PCs \ { "append" } : Moves(w, pc)
    BY <1>0, <1>1, ContinueMoves, GotoMoves DEF AppendEvent
  <2>2. \A j \in Intents : Unknown(history'[j]) => Unknown(history[j])
    BY <1>0, <1>1, AppendToUnknown DEF AppendEvent, Refs
  <2> QED BY <1>1, <2>1, <2>2 DEF AppendEvent, Moves, Accounted
<1>2. CASE ClaimFirstFill(w)
  <2>1. \E pc \in PCs \ { "append" } : Moves(w, pc)
    BY <1>0, <1>2, ContinueMoves, GotoMoves DEF ClaimFirstFill
  <2> QED BY <1>2, <2>1 DEF ClaimFirstFill, Moves, Accounted
<1>3. CASE Revalidate(w)
  <2>1. \E pc \in PCs \ { "append" } : Moves(w, pc)
    BY <1>0, <1>3, ContinueMoves, KillThenMoves DEF Revalidate
  <2> QED BY <1>3, <2>1 DEF Revalidate, Moves, Accounted
<1>4. CASE Contradict(w)
  <2>1. \A j \in Intents :
          Unknown(history'[j]) => Unknown(history[j]) \/ j = call[w].intent
    BY <1>0, <1>4, AppendToUnknown DEF Contradict, OrderStates, Refs, Sources, Origins
  <2>2. call'[w].pc = "kill" /\ call'[w].intent = call[w].intent
    BY <1>4, KillThenKeepsIntent DEF Contradict
  <2> QED BY <1>4, <2>1, <2>2, KillThenMoves DEF Contradict, Accounted
<1>5. CASE EngageKill(w)
  <2>1. \E pc \in PCs \ { "append" } : Moves(w, pc)
    BY <1>0, <1>5, ContinueMoves DEF EngageKill
  <2> QED BY <1>5, <2>1 DEF EngageKill, Moves, Accounted
<1> QED BY <1>1, <1>2, <1>3, <1>4, <1>5 DEF ApplyStep

LEMMA RecoveryStepAccounted ==
  ASSUME TypeInv, NEW w \in Workers, RecoveryStep(w)
  PROVE  Accounted(w)
<1> USE DEF PCs, NoIntentPCs, ledger, database, memory, ports
<1>0. /\ call[w] \in Calls
      /\ \E pc \in PCs : Moves(w, pc)
      /\ UNCHANGED restarts
      /\ killed => killed'
      /\ call[w].pc = "kill" => killed'
  BY RecoveryStepQuiet DEF Quiet, TypeInv, TypeOK
<1>1. CASE CancelResult(w)
  <2>1. call[w].intent \in Intents
    BY <1>1 DEF CancelResult, TypeInv, CallsComplete, CompleteCall
  <2>2. \A j \in Intents : Unknown(history'[j]) => Unknown(history[j])
    BY <1>1, <2>1, AppendToUnknown, NoBodyRaw
    DEF CancelResult, OrderStates, Refs, Sources, Origins
  <2>3. call'[w].pc # "append"
    BY <1>1, ContinueMoves DEF CancelResult, Moves
  <2> QED BY <1>0, <2>2, <2>3 DEF Accounted
<1>2. CASE OrderRead(w) \/ TradeRead(w) \/ Confirm(w)
  <2>1. call'[w].pc = "append" => call'[w].state # "UNKNOWN"
    BY <1>2, StartApplyState, ContinueMoves
    DEF OrderRead, TradeRead, Confirm, FillStates, Moves
  <2> QED BY <1>0, <1>2, <2>1 DEF OrderRead, TradeRead, Confirm, Accounted
<1>3. CASE Scan(w) \/ CloseRecovery(w) \/ Cancel(w) \/ Unresolved(w) \/ Report(w)
  <2>1. call'[w].pc # "append"
    BY <1>3, ContinueMoves, GotoMoves, KillThenMoves
    DEF Scan, CloseRecovery, Cancel, Unresolved, Report, Moves
  <2> QED BY <1>0, <1>3, <2>1 DEF Scan, CloseRecovery, Cancel, Unresolved, Report, Accounted
<1>4. CASE \E i \in Intents : ResolveByRead(w, i) \/ ResolveByCancel(w, i)
  <2>1. PICK i \in Intents, pc \in { "order_read", "cancel" } :
          Become(w, [ Idle EXCEPT !.pc = pc, !.intent = i ])
    BY <1>4 DEF ResolveByRead, ResolveByCancel
  <2>2. call'[w] = [ Idle EXCEPT !.pc = pc, !.intent = i ]
    BY <2>1, BecomeMoves
  <2>3. call'[w].pc # "append"
    BY <2>1, <2>2 DEF Idle
  <2> QED BY <1>0, <1>4, <2>3 DEF ResolveByRead, ResolveByCancel, Accounted
<1>5. CASE SendCancel(w)
  <2>1. PICK code \in CancelCodes :
          Become(w, [ call[w] EXCEPT !.pc = "cancel_result", !.code = code ])
    BY <1>5 DEF SendCancel
  <2>2. call'[w] = [ call[w] EXCEPT !.pc = "cancel_result", !.code = code ]
    BY <2>1, BecomeMoves
  <2>3. call'[w].pc # "append"
    BY <1>0, <2>2 DEF Calls
  <2> QED BY <1>0, <1>5, <2>3 DEF SendCancel, Accounted
<1> QED BY <1>1, <1>2, <1>3, <1>4, <1>5 DEF RecoveryStep

LEMMA BeginAccounted ==
  ASSUME TypeInv, "UNKNOWN" \notin FeedStates, NEW w \in Workers, Begin(w)
  PROVE  Accounted(w)
<1> USE DEF PCs, ledger, database, memory, ports
<1>0. /\ \E pc \in PCs : Moves(w, pc)
      /\ UNCHANGED restarts
      /\ killed => killed'
      /\ call[w].pc = "kill" => killed'
  BY BeginQuiet DEF Quiet
<1>1. UNCHANGED history
  BY DEF Begin, PrepareCall, ClaimSubmission, SubmissionTaken, DeliverEvent, StartRecovery
<1>2. call'[w].pc = "append" => call'[w].state # "UNKNOWN"
  <2>1. ASSUME NEW i \in Intents,
               PrepareCall(w, i) \/ ClaimSubmission(w, i) \/ SubmissionTaken(w, i)
        PROVE  call'[w].pc # "append"
    <3>1. PICK pc \in { "prepare_only", "claimed", "duplicate" } :
            Become(w, [ Idle EXCEPT !.pc = pc, !.intent = i ])
      BY <2>1 DEF PrepareCall, ClaimSubmission, SubmissionTaken
    <3>2. call'[w] = [ Idle EXCEPT !.pc = pc, !.intent = i ]
      BY <3>1, BecomeMoves
    <3> QED BY <3>1, <3>2 DEF Idle
  <2>2. ASSUME NEW i \in Intents, NEW e \in EventIds, DeliverEvent(w, i, e)
        PROVE  call'[w].state # "UNKNOWN"
    BY <2>2, StartApplyState DEF DeliverEvent
  <2>3. ASSUME NEW startup \in BOOLEAN, NEW uncertain \in BOOLEAN,
               StartRecovery(w, startup, uncertain)
        PROVE  call'[w].pc # "append"
    <3>1. call'[w] = [ Idle EXCEPT !.pc = "scan" ]
      BY <2>3, BecomeMoves DEF StartRecovery
    <3> QED BY <3>1 DEF Idle
  <2> QED BY <2>1, <2>2, <2>3 DEF Begin
<1> QED BY <1>0, <1>1, <1>2 DEF Accounted

LEMMA UnknownInvInit == Init => UnknownInv
<1> SUFFICES ASSUME Init PROVE UnknownInv
  OBVIOUS
<1>1. \A i \in Intents : Len(history[i]) = 0
  BY DEF Init
<1> QED BY <1>1 DEF Init, Idle, UnknownInv, UnknownIsKilled, HasState

LEMMA UnknownInvNext ==
  ASSUME "UNKNOWN" \notin FeedStates
  PROVE  TypeInv /\ UnknownInv /\ [Next]_vars => UnknownInv'
<1> SUFFICES ASSUME TypeInv, UnknownInv, [Next]_vars PROVE UnknownInv'
  OBVIOUS
<1> USE DEF ledger, database, memory, ports
<1>1. ASSUME NEW w \in Workers, Begin(w) \/ Step(w) PROVE UnknownInv'
  BY <1>1, SubmitStepAccounted, ApplyStepAccounted, RecoveryStepAccounted,
     BeginAccounted, AccountedKeeps DEF Step
<1>2. CASE Reconcile \/ UNCHANGED vars
  BY <1>2 DEF Reconcile, vars, UnknownInv, UnknownIsKilled
<1>3. CASE Restart
  <2>1. \A w \in Workers : call'[w].pc = "idle"
    BY <1>3 DEF Restart, Idle
  <2>2. restarts' # 0
    BY <1>3 DEF Restart, TypeInv, TypeOK
  <2> QED BY <2>1, <2>2 DEF UnknownInv, UnknownIsKilled
<1> QED BY <1>1, <1>2, <1>3 DEF Next

\* Every UNKNOWN in a history goes with a kill, or with the call that is about
\* to engage it, as long as the stream itself never says UNKNOWN (_order_state
\* of user_stream.py does not).
THEOREM UnknownKills ==
  ASSUME "UNKNOWN" \notin FeedStates
  PROVE  Spec => []UnknownIsKilled
<1>1. UnknownInv => UnknownIsKilled
  BY DEF UnknownInv
<1> QED BY <1>1, TypeInvInit, TypeInvNext, UnknownInvInit, UnknownInvNext, PTL DEF Spec
=============================================================================
