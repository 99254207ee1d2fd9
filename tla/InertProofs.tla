----------------------------- MODULE InertProofs -----------------------------
(***************************************************************************)
(* Proof that a coordinator with the kill state of the default constructor *)
(* does nothing a venue could see.                                         *)
(***************************************************************************)
EXTENDS ExecutionCoordinatorProofs

USE DEF FailReturns, OkReturns

\* The places that only a call which was admitted can reach.
Admitted == { "prepare", "prepare_only", "envelope", "sign", "boundary",
              "send_check", "send", "send_cancel" }

\* Nothing is stored that a signature or a cancel could start from.
Inert ==
  StartsKilled =>
    /\ persisted = {}
    /\ envelopes = {}
    /\ \A c \in Coordinators : prepared[c] = {}
    /\ \A i \in Intents : posts[i] = 0 /\ cancels[i] = 0
    /\ \A w \in Workers : call[w].pc \notin Admitted

\* A step of w that leaves it so.
Still(w) ==
  /\ \E pc \in PCs \ Admitted : Moves(w, pc)
  /\ UNCHANGED << persisted, envelopes, posts, cancels >>
  /\ \A c \in Coordinators : prepared'[c] = {}

LEMMA StillKeeps ==
  ASSUME Inert, NEW w \in Workers, StartsKilled => Still(w)
  PROVE  Inert'
BY DEF Inert, Still, Moves

LEMMA SubmitStepStill ==
  ASSUME TypeInv, Inert, StartsKilled, NEW w \in Workers, SubmitStep(w)
  PROVE  Still(w)
<1> USE DEF PCs, Admitted, ledger, database, memory, ports
<1>0. /\ Home[w] \in Coordinators
      /\ Killed
      /\ call[w].pc \notin Admitted
      /\ \A c \in Coordinators : prepared[c] = {}
  BY ConstantsAssumption DEF Inert, Killed
<1>1. CASE DuplicateSubmission(w) \/ StartClaimed(w)
  BY <1>0, <1>1, ContinueMoves, KillThenMoves
  DEF DuplicateSubmission, StartClaimed, Admissible, Still
<1>2. CASE Classify(w) \/ UnknownAfterSign(w)
  BY <1>0, <1>2, ContinueMoves, KillThenMoves DEF Classify, UnknownAfterSign, Still
<1>3. CASE ~(DuplicateSubmission(w) \/ StartClaimed(w) \/ Classify(w) \/ UnknownAfterSign(w))
  BY <1>0, <1>3 DEF SubmitStep, PrepareRefused, PrepareCollision, PrepareCommit,
                    SignBoundary, Sign, PersistBoundary, SubmitBoundary, Post
<1> QED BY <1>1, <1>2, <1>3

LEMMA ApplyStepStill ==
  ASSUME TypeInv, Inert, StartsKilled, NEW w \in Workers, ApplyStep(w) \/ EngageKill(w)
  PROVE  Still(w)
<1> USE DEF PCs, Admitted, ledger, database, memory, ports
<1>0. /\ call[w].ok \in OkReturns
      /\ call[w].fail \in FailReturns
      /\ \A c \in Coordinators : prepared[c] = {}
  BY DEF TypeInv, TypeOK, Calls, Inert
<1>1. CASE AppendEvent(w) \/ ClaimFirstFill(w)
  BY <1>0, <1>1, ContinueMoves, GotoMoves DEF AppendEvent, ClaimFirstFill, Still
<1>2. CASE Revalidate(w) \/ Contradict(w) \/ EngageKill(w)
  BY <1>0, <1>2, ContinueMoves, KillThenMoves DEF Revalidate, Contradict, EngageKill, Still
<1> QED BY <1>1, <1>2 DEF ApplyStep

LEMMA RecoveryStepStill ==
  ASSUME TypeInv, Inert, StartsKilled, NEW w \in Workers, RecoveryStep(w)
  PROVE  Still(w)
<1> USE DEF PCs, Admitted, ledger, database, memory, ports
<1>0. /\ \A c \in Coordinators : prepared[c] = {}
      /\ envelopes = {}
      /\ call[w].pc # "send_cancel"
  BY DEF Inert
<1>1. CASE Scan(w) \/ CloseRecovery(w) \/ Unresolved(w) \/ Report(w)
  BY <1>0, <1>1, ContinueMoves, GotoMoves, KillThenMoves
  DEF Scan, CloseRecovery, Unresolved, Report, Still
<1>2. CASE \E i \in Intents : ResolveByRead(w, i) \/ ResolveByCancel(w, i)
  <2>1. PICK i \in Intents, pc \in { "order_read", "cancel" } :
          Become(w, [ Idle EXCEPT !.pc = pc, !.intent = i ])
    BY <1>2 DEF ResolveByRead, ResolveByCancel
  <2>2. [ Idle EXCEPT !.pc = pc, !.intent = i ].pc = pc
    BY DEF Idle
  <2>3. Moves(w, [ Idle EXCEPT !.pc = pc, !.intent = i ].pc)
    BY <2>1, BecomeMoves
  <2>4. \E q \in PCs \ Admitted : Moves(w, q)
    BY <2>1, <2>2, <2>3
  <2> QED BY <1>0, <1>2, <2>4 DEF ResolveByRead, ResolveByCancel, Still
<1>3. CASE OrderRead(w)
  BY <1>0, <1>3, ContinueMoves DEF OrderRead, Still
<1>4. CASE TradeRead(w)
  BY <1>0, <1>4, ContinueMoves DEF TradeRead, Still
<1>5. CASE Cancel(w) \/ CancelResult(w)
  BY <1>0, <1>5, ContinueMoves DEF Cancel, CancelResult, Still
<1>6. CASE Confirm(w)
  BY <1>0, <1>6, ContinueMoves, StartApplyMoves DEF Confirm, Still
<1> QED BY <1>0, <1>1, <1>2, <1>3, <1>4, <1>5, <1>6 DEF RecoveryStep, SendCancel

LEMMA BeginStill ==
  ASSUME TypeInv, Inert, StartsKilled, NEW w \in Workers, Begin(w)
  PROVE  Still(w)
<1> USE DEF PCs, Admitted, ledger, database, memory, ports
<1>0. (\A c \in Coordinators : prepared[c] = {}) /\ Killed
  BY DEF Inert, Killed
<1>1. ASSUME NEW i \in Intents,
             PrepareCall(w, i) \/ ClaimSubmission(w, i) \/ SubmissionTaken(w, i)
      PROVE  Still(w)
  <2>1. PICK pc \in { "claimed", "duplicate" } :
          Become(w, [ Idle EXCEPT !.pc = pc, !.intent = i ])
    BY <1>0, <1>1 DEF PrepareCall, Admissible, ClaimSubmission, SubmissionTaken
  <2>2. [ Idle EXCEPT !.pc = pc, !.intent = i ].pc = pc
    BY DEF Idle
  <2>3. Moves(w, [ Idle EXCEPT !.pc = pc, !.intent = i ].pc)
    BY <2>1, BecomeMoves
  <2>4. \E q \in PCs \ Admitted : Moves(w, q)
    BY <2>1, <2>2, <2>3
  <2> QED BY <1>0, <1>1, <2>4
          DEF PrepareCall, Admissible, ClaimSubmission, SubmissionTaken, Still
<1>2. ASSUME NEW i \in Intents, NEW e \in EventIds, DeliverEvent(w, i, e)
      PROVE  Still(w)
  BY <1>0, <1>2, StartApplyMoves DEF DeliverEvent, Still
<1>3. ASSUME NEW startup \in BOOLEAN, NEW uncertain \in BOOLEAN,
             StartRecovery(w, startup, uncertain)
      PROVE  Still(w)
  <2>1. [ Idle EXCEPT !.pc = "scan" ].pc = "scan"
    BY DEF Idle
  <2>2. Moves(w, [ Idle EXCEPT !.pc = "scan" ].pc)
    BY <1>3, BecomeMoves DEF StartRecovery
  <2>3. Moves(w, "scan")
    BY <2>1, <2>2
  <2> QED BY <1>0, <1>3, <2>3 DEF StartRecovery, Still
<1> QED BY <1>1, <1>2, <1>3 DEF Begin

LEMMA InertNext == TypeInv /\ Inert /\ [Next]_vars => Inert'
<1> SUFFICES ASSUME TypeInv, Inert, [Next]_vars PROVE Inert'
  OBVIOUS
<1> USE DEF ledger, database, memory, ports
<1>1. ASSUME NEW w \in Workers, Begin(w) \/ Step(w) PROVE Inert'
  BY <1>1, SubmitStepStill, ApplyStepStill, RecoveryStepStill, BeginStill, StillKeeps
  DEF Step
<1>2. CASE Reconcile \/ UNCHANGED vars
  BY <1>2 DEF Reconcile, vars, Inert
<1>3. CASE Restart
  BY <1>3 DEF Restart, Idle, Admitted, Inert
<1> QED BY <1>1, <1>2, <1>3 DEF Next

\* With the kill state of the default constructor no intent is ever stored, and
\* no call gets to a signature, a submission or a cancel.
THEOREM NothingStarts == Spec => []StartsInert
<1>1. Init => Inert
  BY DEF Init, Idle, Admitted, Inert
<1>2. Inert => StartsInert
  BY DEF Inert, Admitted, InWindow, StartsInert
<1> QED BY <1>1, <1>2, InertNext, TypeInvInit, TypeInvNext, PTL DEF Spec
=============================================================================
