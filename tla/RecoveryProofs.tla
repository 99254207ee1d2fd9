---------------------------- MODULE RecoveryProofs ----------------------------
(***************************************************************************)
(* Proof that an order the venue may hold under an id nobody stored is     *)
(* never forgotten: the call that posted it stores the answer or engages   *)
(* the kill, and after a crash the startup recovery does.                  *)
(***************************************************************************)
EXTENDS StreamProofs, SequenceTheorems

USE DEF FailReturns, OkReturns

-----------------------------------------------------------------------------
(* Whose recovery it is *)

RecoveryPCs == { "scan", "resolve", "order_read", "trade_read", "cancel",
                 "send_cancel", "cancel_result", "confirm", "unresolved", "report" }

ApplyPCs == { "append", "claim_fill", "revalidate", "contradict" }

\* A call is part of a recovery: at a place of its own, or in an application or
\* a kill that it will continue after.
Owns(r) ==
  \/ r.pc \in RecoveryPCs
  \/ r.pc \in ApplyPCs /\ r.ok = "resolve"
  \/ r.pc = "kill" /\ r.fail # "idle"

\* The two ways an application can end belong to the same caller.
Paired(r) == r.pc \in ApplyPCs => (r.ok = "resolve" <=> r.fail # "idle")

\* _recovering admits one recovery at a time to a coordinator.
OwnerInv ==
  /\ \A w \in Workers : Paired(call[w])
  /\ \A w \in Workers : Owns(call[w]) => recovering[Home[w]]
  /\ \A v, w \in Workers :
       Owns(call[v]) /\ Owns(call[w]) /\ Home[v] = Home[w] => v = w

\* What a step of w does to the recovery of its coordinator: nothing, begin
\* it, carry it on, or end it.
Bystands(w) ==
  /\ ~Owns(call[w]) /\ ~Owns(call'[w])
  /\ UNCHANGED << rec, recovering, scanned >>

Enters(w) ==
  /\ call'[w].pc = "scan"
  /\ ~recovering[Home[w]]
  /\ recovering' = [ recovering EXCEPT ![Home[w]] = TRUE ]
  /\ \A c \in Coordinators \ { Home[w] } : rec'[c] = rec[c]
  /\ UNCHANGED scanned

Proceeds(w) ==
  /\ Owns(call[w]) /\ Owns(call'[w])
  /\ call'[w].pc # "scan"
  /\ \A c \in Coordinators \ { Home[w] } : rec'[c] = rec[c]
  /\ UNCHANGED << recovering, scanned >>
  /\ call'[w].pc = "report" => killed' \/ rec[Home[w]].blocked = {}
  /\ \/ Scan(w)
     \/ /\ call[w].pc # "scan"
        /\ rec[Home[w]].blocked \subseteq rec'[Home[w]].blocked

Leaves(w) ==
  /\ call[w].pc = "report"
  /\ ~Owns(call'[w])
  /\ Report(w)

Owner(w) ==
  /\ Paired(call'[w])
  /\ Bystands(w) \/ Enters(w) \/ Proceeds(w) \/ Leaves(w)

\* The calls that Continue, Goto, KillThen and StartApply leave behind.
LEMMA ContinueCall ==
  ASSUME TypeInv, NEW w \in Workers, NEW pc, Continue(w, pc)
  PROVE  /\ call'[w].pc = pc
         /\ Owns(call'[w]) <=> pc \in RecoveryPCs
         /\ Paired(call'[w]) \/ pc \in ApplyPCs
<1> DEFINE r == [ Idle EXCEPT !.pc = pc,
                    !.intent = IF pc \in { "idle", "resolve", "report" }
                               THEN NoIntent ELSE call[w].intent ]
<1>1. call'[w] = r
  BY BecomeMoves DEF Continue
<1>2. r.pc = pc /\ r.ok = "idle" /\ r.fail = "idle"
  BY DEF Idle
<1> QED BY <1>1, <1>2 DEF Owns, Paired

LEMMA GotoCall ==
  ASSUME TypeInv, NEW w \in Workers, NEW pc, Goto(w, pc)
  PROVE  /\ call'[w].pc = pc
         /\ call'[w].ok = call[w].ok
         /\ call'[w].fail = call[w].fail
<1>1. call'[w] = [ call[w] EXCEPT !.pc = pc ]
  BY BecomeMoves DEF Goto
<1> QED BY <1>1 DEF TypeInv, TypeOK, Calls

LEMMA KillThenCall ==
  ASSUME TypeInv, NEW w \in Workers, NEW then, KillThen(w, then)
  PROVE  /\ call'[w].pc = "kill"
         /\ call'[w].intent = call[w].intent
         /\ Owns(call'[w]) <=> then # "idle"
         /\ Paired(call'[w])
<1> DEFINE r == [ call[w] EXCEPT !.pc = "kill", !.fail = then ]
<1>1. call'[w] = r
  BY BecomeMoves DEF KillThen
<1>2. r.pc = "kill" /\ r.fail = then /\ r.intent = call[w].intent
  BY DEF TypeInv, TypeOK, Calls
<1> QED BY <1>1, <1>2 DEF Owns, Paired, RecoveryPCs, ApplyPCs

LEMMA StartApplyCall ==
  ASSUME TypeInv, NEW w \in Workers, NEW i, NEW state, NEW src, NEW raw,
         NEW inOrder, NEW ok, NEW fail,
         StartApply(w, i, state, src, raw, inOrder, ok, fail),
         ok = "resolve" <=> fail # "idle"
  PROVE  /\ call'[w].pc \in { "append", "contradict" }
         /\ Owns(call'[w]) <=> ok = "resolve"
         /\ Paired(call'[w])
<1> DEFINE pc    == IF Acceptable(i, state, inOrder) THEN "append" ELSE "contradict"
           first == state \in FillStates /\ ~HasState(history[i], FillStates)
           r == [ Idle EXCEPT !.pc = pc, !.intent = i, !.state = state,
                    !.src = src, !.raw = raw, !.first = first, !.ok = ok, !.fail = fail ]
<1>1. call'[w] = r
  BY BecomeMoves DEF StartApply
<1>2. r.pc \in { "append", "contradict" } /\ r.ok = ok /\ r.fail = fail
  BY DEF Idle
<1> QED BY <1>1, <1>2 DEF Owns, Paired, RecoveryPCs, ApplyPCs

LEMMA SubmitStepOwner ==
  ASSUME TypeInv, NEW w \in Workers, SubmitStep(w)
  PROVE  Owner(w)
<1> USE DEF RecoveryPCs, ApplyPCs, memory, ports
<1>1. ~Owns(call[w]) /\ UNCHANGED << rec, recovering, scanned >>
  BY DEF SubmitStep, DuplicateSubmission, StartClaimed, PrepareRefused, PrepareCollision,
         PrepareCommit, SignBoundary, Sign, PersistBoundary, SubmitBoundary, Post,
         Classify, UnknownAfterSign, Owns
<1>2. CASE Post(w)
  <2>1. PICK code \in SubmitCodes :
          Become(w, [ call[w] EXCEPT !.pc = "classify", !.code = code ])
    BY <1>2 DEF Post
  <2>2. call'[w] = [ call[w] EXCEPT !.pc = "classify", !.code = code ]
    BY <2>1, BecomeMoves
  <2>3. call'[w].pc = "classify"
    BY <2>2 DEF TypeInv, TypeOK, Calls
  <2> QED BY <1>1, <2>3 DEF Owns, Paired, Bystands, Owner
<1>3. CASE ~Post(w)
  <2>1. ~Owns(call'[w]) /\ Paired(call'[w])
    BY <1>3, ContinueCall, KillThenCall
    DEF SubmitStep, DuplicateSubmission, StartClaimed, PrepareRefused, PrepareCollision,
        PrepareCommit, SignBoundary, SubmitBoundary, Boundary, Sign, PersistBoundary,
        Classify, UnknownAfterSign
  <2> QED BY <1>1, <2>1 DEF Bystands, Owner
<1> QED BY <1>2, <1>3

LEMMA BeginOwner ==
  ASSUME TypeInv, NEW w \in Workers, Begin(w)
  PROVE  Owner(w)
<1> USE DEF RecoveryPCs, ApplyPCs, memory, ports
<1>0. call[w].pc = "idle" /\ Home[w] \in Coordinators
  BY ConstantsAssumption
  DEF Begin, PrepareCall, ClaimSubmission, SubmissionTaken, DeliverEvent, StartRecovery
<1>1. ASSUME NEW i \in Intents,
             PrepareCall(w, i) \/ ClaimSubmission(w, i) \/ SubmissionTaken(w, i)
      PROVE  Owner(w)
  <2>1. PICK pc \in { "prepare_only", "claimed", "duplicate" } :
          Become(w, [ Idle EXCEPT !.pc = pc, !.intent = i ])
    BY <1>1 DEF PrepareCall, ClaimSubmission, SubmissionTaken
  <2>2. call'[w] = [ Idle EXCEPT !.pc = pc, !.intent = i ]
    BY <2>1, BecomeMoves
  <2>3. call'[w].pc = pc
    BY <2>2 DEF Idle
  <2> QED BY <1>0, <1>1, <2>1, <2>3 DEF PrepareCall, ClaimSubmission, SubmissionTaken,
                                        Owns, Paired, Bystands, Owner
<1>2. ASSUME NEW i \in Intents, NEW e \in EventIds, DeliverEvent(w, i, e)
      PROVE  Owner(w)
  <2>1. ~Owns(call'[w]) /\ Paired(call'[w])
    BY <1>2, StartApplyCall DEF DeliverEvent
  <2> QED BY <1>0, <1>2, <2>1 DEF DeliverEvent, Owns, Bystands, Owner
<1>3. ASSUME NEW startup \in BOOLEAN, NEW uncertain \in BOOLEAN,
             StartRecovery(w, startup, uncertain)
      PROVE  Owner(w)
  <2>1. call'[w] = [ Idle EXCEPT !.pc = "scan" ]
    BY <1>3, BecomeMoves DEF StartRecovery
  <2>2. call'[w].pc = "scan"
    BY <2>1 DEF Idle
  <2>3. \A c \in Coordinators \ { Home[w] } : rec'[c] = rec[c]
    BY <1>3 DEF StartRecovery, TypeInv, TypeOK
  <2> QED BY <1>3, <2>2, <2>3 DEF StartRecovery, Paired, Enters, Owner
<1> QED BY <1>1, <1>2, <1>3 DEF Begin

LEMMA ApplyStepOwner ==
  ASSUME TypeInv, OwnerInv, NEW w \in Workers, ApplyStep(w) \/ EngageKill(w)
  PROVE  Owner(w)
<1> USE DEF RecoveryPCs, ApplyPCs, memory, ports
<1>0. /\ call[w] \in Calls
      /\ call[w].ok \in OkReturns
      /\ call[w].fail \in FailReturns
      /\ Paired(call[w])
      /\ UNCHANGED << rec, recovering, scanned >>
  BY DEF TypeInv, TypeOK, Calls, OwnerInv, ApplyStep, AppendEvent, ClaimFirstFill,
         Revalidate, Contradict, EngageKill
<1>1. ASSUME Owns(call[w]) <=> Owns(call'[w]), Paired(call'[w]), call[w].pc # "scan",
             call'[w].pc # "scan", call'[w].pc = "report" => killed'
      PROVE  Owner(w)
  BY <1>0, <1>1 DEF Bystands, Proceeds, Owner
<1>2. CASE AppendEvent(w) \/ ClaimFirstFill(w)
  <2>1. call[w].pc \in ApplyPCs
    BY <1>2 DEF AppendEvent, ClaimFirstFill
  <2>2. \/ \E pc \in ApplyPCs : Goto(w, pc)
        \/ Continue(w, call[w].ok)
    BY <1>2 DEF AppendEvent, ClaimFirstFill
  <2>3. CASE \E pc \in ApplyPCs : Goto(w, pc)
    BY <1>0, <1>1, <2>1, <2>3, GotoCall DEF Owns, Paired
  <2>4. CASE Continue(w, call[w].ok)
    BY <1>0, <1>1, <2>1, <2>4, ContinueCall DEF Owns, Paired
  <2> QED BY <2>2, <2>3, <2>4
<1>3. CASE Revalidate(w)
  BY <1>0, <1>1, <1>3, ContinueCall, KillThenCall DEF Revalidate, Owns, Paired
<1>4. CASE Contradict(w)
  BY <1>0, <1>1, <1>4, KillThenCall DEF Contradict, Owns, Paired
<1>5. CASE EngageKill(w)
  BY <1>0, <1>1, <1>5, ContinueCall DEF EngageKill, Owns, Paired
<1> QED BY <1>2, <1>3, <1>4, <1>5 DEF ApplyStep

LEMMA RecoveryStepOwner ==
  ASSUME TypeInv, NEW w \in Workers, RecoveryStep(w)
  PROVE  Owner(w)
<1> USE DEF RecoveryPCs, ApplyPCs, memory, ports
<1>0. /\ Home[w] \in Coordinators
      /\ rec \in [ Coordinators -> Recoveries ]
      /\ rec[Home[w]] \in Recoveries
      /\ call[w] \in Calls
  BY ConstantsAssumption DEF TypeInv, TypeOK
<1>1. ASSUME call[w].pc \in RecoveryPCs \ { "scan", "report" },
             Owns(call'[w]), Paired(call'[w]), call'[w].pc \notin { "scan", "report" },
             UNCHANGED << recovering, scanned >>,
             \/ UNCHANGED rec
             \/ \E S : rec' = [ rec EXCEPT ![Home[w]].reads = S ]
             \/ \E S : rec' = [ rec EXCEPT ![Home[w]].cancels = S ]
             \/ \E body : rec' = [ rec EXCEPT ![Home[w]].orders = body ]
             \/ \E body : rec' = [ rec EXCEPT ![Home[w]].trades = body ]
             \/ \E f : rec' = [ rec EXCEPT ![Home[w]].seen = f ]
             \/ \E i : rec' = [ rec EXCEPT ![Home[w]].blocked =
                                               rec[Home[w]].blocked \cup { i } ]
      PROVE  Owner(w)
  <2> DEFINE c == Home[w]
             Kept == /\ \A d \in Coordinators \ { c } : rec'[d] = rec[d]
                     /\ rec[c].blocked \subseteq rec'[c].blocked
  <2>1. Kept
    <3>1. CASE UNCHANGED rec
      BY <3>1
    <3>2. CASE \E S : rec' = [ rec EXCEPT ![c].reads = S ]
      BY <1>0, <3>2 DEF Recoveries
    <3>3. CASE \E S : rec' = [ rec EXCEPT ![c].cancels = S ]
      BY <1>0, <3>3 DEF Recoveries
    <3>4. CASE \E body : rec' = [ rec EXCEPT ![c].orders = body ]
      BY <1>0, <3>4 DEF Recoveries
    <3>5. CASE \E body : rec' = [ rec EXCEPT ![c].trades = body ]
      BY <1>0, <3>5 DEF Recoveries
    <3>6. CASE \E f : rec' = [ rec EXCEPT ![c].seen = f ]
      BY <1>0, <3>6 DEF Recoveries
    <3>7. CASE \E i : rec' = [ rec EXCEPT ![c].blocked = rec[c].blocked \cup { i } ]
      BY <1>0, <3>7 DEF Recoveries
    <3> QED BY <1>1, <3>1, <3>2, <3>3, <3>4, <3>5, <3>6, <3>7
  <2> QED BY <1>1, <2>1 DEF Owns, Proceeds, Owner
<1>2. CASE Scan(w)
  <2>1. /\ call'[w].pc \in { "kill", "resolve" }
        /\ Owns(call'[w])
        /\ Paired(call'[w])
    BY <1>2, GotoCall, KillThenCall DEF Scan, Owns, Paired
  <2>2. \A c \in Coordinators \ { Home[w] } : rec'[c] = rec[c]
    BY <1>0, <1>2 DEF Scan
  <2> QED BY <1>2, <2>1, <2>2 DEF Scan, Owns, Proceeds, Owner
<1>3. CASE \E i \in Intents : ResolveByRead(w, i) \/ ResolveByCancel(w, i)
  <2>1. PICK i \in Intents, pc \in { "order_read", "cancel" } :
          /\ Become(w, [ Idle EXCEPT !.pc = pc, !.intent = i ])
          /\ ResolveByRead(w, i) \/ ResolveByCancel(w, i)
    BY <1>3 DEF ResolveByRead, ResolveByCancel
  <2>2. call'[w] = [ Idle EXCEPT !.pc = pc, !.intent = i ]
    BY <2>1, BecomeMoves
  <2>3. call'[w].pc = pc
    BY <2>2 DEF Idle
  <2> QED BY <1>1, <2>1, <2>3 DEF ResolveByRead, ResolveByCancel, Owns, Paired
<1>4. CASE OrderRead(w)
  <2>1. Owns(call'[w]) /\ Paired(call'[w]) /\ call'[w].pc \notin { "scan", "report" }
    <3>1. CASE Continue(w, "trade_read")
      BY <3>1, ContinueCall
    <3>2. CASE ~Continue(w, "trade_read")
      <4>1. PICK state, body, inOrder :
              StartApply(w, call[w].intent, state, "recovery", body, inOrder,
                         "resolve", "trade_read")
        BY <1>4, <3>2 DEF OrderRead
      <4> QED BY <4>1, StartApplyCall
    <3> QED BY <3>1, <3>2
  <2>2. UNCHANGED rec \/ \E body : rec' = [ rec EXCEPT ![Home[w]].orders = body ]
    <3>1. CASE UNCHANGED rec
      BY <3>1
    <3>2. CASE ~UNCHANGED rec
      <4>1. PICK body \in BodyOf(rec[Home[w]].orders, OrderBodies) :
              rec' = [ rec EXCEPT ![Home[w]].orders = body ]
        BY <1>4, <3>2 DEF OrderRead
      <4> QED BY <4>1
    <3> QED BY <3>1, <3>2
  <2> QED BY <1>1, <1>4, <2>1, <2>2 DEF OrderRead
<1>5. CASE TradeRead(w)
  <2>1. Owns(call'[w]) /\ Paired(call'[w]) /\ call'[w].pc \notin { "scan", "report" }
    <3>1. CASE Continue(w, "unresolved")
      BY <3>1, ContinueCall
    <3>2. CASE ~Continue(w, "unresolved")
      <4>1. PICK state, body, inOrder :
              StartApply(w, call[w].intent, state, "recovery", body, inOrder,
                         "resolve", "unresolved")
        BY <1>5, <3>2 DEF TradeRead
      <4> QED BY <4>1, StartApplyCall
    <3> QED BY <3>1, <3>2
  <2>2. UNCHANGED rec \/ \E body : rec' = [ rec EXCEPT ![Home[w]].trades = body ]
    <3>1. CASE UNCHANGED rec
      BY <3>1
    <3>2. CASE ~UNCHANGED rec
      <4>1. PICK body \in BodyOf(rec[Home[w]].trades, TradeBodies) :
              rec' = [ rec EXCEPT ![Home[w]].trades = body ]
        BY <1>5, <3>2 DEF TradeRead
      <4> QED BY <4>1
    <3> QED BY <3>1, <3>2
  <2> QED BY <1>1, <1>5, <2>1, <2>2 DEF TradeRead
<1>6. CASE Cancel(w) \/ Confirm(w)
  <2>1. Owns(call'[w]) /\ Paired(call'[w]) /\ call'[w].pc \notin { "scan", "report" }
    BY <1>6, ContinueCall, StartApplyCall DEF Cancel, Confirm
  <2> QED BY <1>1, <1>6, <2>1 DEF Cancel, Confirm
<1>7. CASE SendCancel(w)
  <2>1. PICK code \in CancelCodes :
          Become(w, [ call[w] EXCEPT !.pc = "cancel_result", !.code = code ])
    BY <1>7 DEF SendCancel
  <2>2. call'[w] = [ call[w] EXCEPT !.pc = "cancel_result", !.code = code ]
    BY <2>1, BecomeMoves
  <2>3. call'[w].pc = "cancel_result"
    BY <1>0, <2>2 DEF Calls
  <2> QED BY <1>1, <1>7, <2>3 DEF SendCancel, Owns, Paired
<1>8. CASE CancelResult(w)
  <2>1. Owns(call'[w]) /\ Paired(call'[w]) /\ call'[w].pc \notin { "scan", "report" }
    BY <1>8, ContinueCall DEF CancelResult
  <2>2. UNCHANGED rec \/ \E f : rec' = [ rec EXCEPT ![Home[w]].seen = f ]
    <3> DEFINE f == [ rec[Home[w]].seen EXCEPT ![call[w].intent] =
                        Len(history[call[w].intent]) + 1 ]
    <3>1. UNCHANGED rec \/ rec' = [ rec EXCEPT ![Home[w]].seen = f ]
      BY <1>8 DEF CancelResult
    <3> QED BY <3>1
  <2> QED BY <1>1, <1>8, <2>1, <2>2 DEF CancelResult
<1>9. CASE Unresolved(w)
  <2>1. Owns(call'[w]) /\ Paired(call'[w]) /\ call'[w].pc \notin { "scan", "report" }
    BY <1>9, ContinueCall DEF Unresolved
  <2>2. call[w].intent \in Intents
    BY <1>9 DEF Unresolved, TypeInv, CallsComplete, CompleteCall
  <2> QED BY <1>1, <1>9, <2>1, <2>2 DEF Unresolved
<1>10. CASE CloseRecovery(w)
  <2>1. /\ Owns(call'[w]) /\ Paired(call'[w]) /\ call'[w].pc # "scan"
        /\ call'[w].pc = "report" => rec[Home[w]].blocked = {}
    BY <1>10, GotoCall, KillThenCall DEF CloseRecovery, Owns, Paired
  <2> QED BY <1>10, <2>1 DEF CloseRecovery, Owns, Proceeds, Owner
<1>11. CASE Report(w)
  <2>1. ~Owns(call'[w]) /\ Paired(call'[w])
    BY <1>11, ContinueCall DEF Report
  <2> QED BY <1>11, <2>1 DEF Report, Leaves, Owner
<1> QED BY <1>2, <1>3, <1>4, <1>5, <1>6, <1>7, <1>8, <1>9, <1>10, <1>11 DEF RecoveryStep

\* Every step of a worker is one of the four.
LEMMA StepOwner ==
  ASSUME TypeInv, OwnerInv, NEW w \in Workers, Begin(w) \/ Step(w)
  PROVE  Owner(w)
BY SubmitStepOwner, BeginOwner, ApplyStepOwner, RecoveryStepOwner DEF Step

LEMMA OthersStay ==
  ASSUME IInv, NEW w \in Workers, Begin(w) \/ Step(w)
  PROVE  \A v \in Workers \ { w } : call'[v] = call[v]
BY StepEntry DEF Entry, Moves

LEMMA OwnerKeeps ==
  ASSUME TypeInv, OwnerInv, NEW w \in Workers, Owner(w),
         \A v \in Workers \ { w } : call'[v] = call[v]
  PROVE  OwnerInv'
<1>0. /\ recovering \in [ Coordinators -> BOOLEAN ]
      /\ Home \in [ Workers -> Coordinators ]
  BY ConstantsAssumption DEF TypeInv, TypeOK
<1>1. \A v \in Workers : Paired(call'[v])
  BY DEF Owner, OwnerInv
<1>2. \A v \in Workers : v # w /\ Owns(call'[v]) => Owns(call[v])
  OBVIOUS
<1>3. CASE Bystands(w)
  BY <1>1, <1>2, <1>3 DEF Bystands, OwnerInv
<1>4. CASE Enters(w)
  <2>1. \A v \in Workers : v # w /\ Owns(call'[v]) => Home[v] # Home[w]
    BY <1>2, <1>4 DEF Enters, OwnerInv
  <2>2. recovering'[Home[w]] /\ \A v \in Workers :
          Home[v] # Home[w] => recovering'[Home[v]] = recovering[Home[v]]
    BY <1>0, <1>4 DEF Enters
  <2> QED BY <1>1, <1>2, <2>1, <2>2 DEF OwnerInv
<1>5. CASE Proceeds(w)
  BY <1>1, <1>2, <1>5 DEF Proceeds, OwnerInv
<1>6. CASE Leaves(w)
  <2>1. Owns(call[w]) /\ ~Owns(call'[w])
    BY <1>6 DEF Leaves, Owns, RecoveryPCs
  <2>2. \A v \in Workers : Owns(call'[v]) => v # w /\ Home[v] # Home[w]
    BY <1>2, <2>1 DEF OwnerInv
  <2>3. \A v \in Workers :
          Home[v] # Home[w] => recovering'[Home[v]] = recovering[Home[v]]
    BY <1>0, <1>6 DEF Leaves, Report
  <2> QED BY <1>1, <1>2, <2>2, <2>3 DEF OwnerInv
<1> QED BY <1>3, <1>4, <1>5, <1>6 DEF Owner

-----------------------------------------------------------------------------
(* What becomes of the histories *)

\* Before the venue's id is stored, a history says no more than that the order
\* was sent, that nothing is known, or that the request was never built.
SyntheticStates == { "SUBMITTING", "UNKNOWN", "REJECTED" }

Shaped(h) ==
  \A k \in 1..Len(h) : h[k].ref = "venue" \/ h[k].state \in SyntheticStates

ShapeInv == \A i \in Intents : Shaped(history[i])

\* What is stored stays where it is stored, an id or a REJECTED among it.
Continues(h, g) == Len(h) <= Len(g) /\ \A k \in 1..Len(h) : g[k] = h[k]

Extends(h, g) ==
  /\ Continues(h, g)
  /\ VenueIdKnown(h) => VenueIdKnown(g)
  /\ HasState(h, { "REJECTED" }) => HasState(g, { "REJECTED" })

LEMMA AppendExtends ==
  ASSUME NEW h \in Seq(Event), NEW e \in Event
  PROVE  /\ Extends(h, Append(h, e))
         /\ e.ref = "venue" => VenueIdKnown(Append(h, e))
         /\ e.state = "REJECTED" => HasState(Append(h, e), { "REJECTED" })
         /\ Shaped(h) /\ (e.ref = "venue" \/ e.state \in SyntheticStates) =>
              Shaped(Append(h, e))
<1> DEFINE n == Len(h)
           g == Append(h, e)
<1>1. /\ n \in Nat
      /\ Len(g) = n + 1
      /\ \A k \in 1..n : g[k] = h[k] /\ k \in 1..Len(g)
      /\ g[n + 1] = e
      /\ n + 1 \in 1..Len(g)
      /\ \A k \in 1..Len(g) : k \in 1..n \/ k = n + 1
  OBVIOUS
<1> HIDE DEF g
<1> QED BY <1>1 DEF Extends, Continues, VenueIdKnown, HasState, Shaped

\* What an append does to the history of i, and to the others.
Appended(i, state, ref) ==
  /\ \A j \in Intents : Extends(history[j], history'[j])
  /\ ref = "venue" => VenueIdKnown(history'[i])
  /\ state = "REJECTED" => HasState(history'[i], { "REJECTED" })
  /\ ref = "venue" \/ state \in SyntheticStates => ShapeInv'

LEMMA AppendToAppended ==
  ASSUME TypeInv, ShapeInv, NEW i \in Intents, NEW state \in OrderStates,
         NEW ref \in Refs, NEW src \in Sources, NEW raw \in Raws,
         AppendTo(i, state, ref, src, raw)
  PROVE  Appended(i, state, ref)
<1> DEFINE e == [ state |-> state, ref |-> ref, src |-> src, raw |-> raw ]
<1>1. e \in Event /\ e.state = state /\ e.ref = ref
  BY DEF Event
<1>2. /\ history \in [ Intents -> Seq(Event) ]
      /\ history' = [ history EXCEPT ![i] = Append(history[i], e) ]
  BY DEF TypeInv, TypeOK, AppendTo
<1> HIDE DEF e
<1>3. \A j \in Intents : history'[j] = IF j = i THEN Append(history[i], e)
                                       ELSE history[j]
  BY <1>2
<1>4. \A j \in Intents : history[j] \in Seq(Event)
  BY <1>2
<1>5. \A j \in Intents \ { i } : Extends(history[j], history'[j])
  BY <1>3, <1>4 DEF Extends, Continues
<1> QED BY <1>1, <1>3, <1>4, <1>5, AppendExtends DEF Appended, ShapeInv

\* A step never takes an id or a REJECTED back, and keeps the shape.
Recorded ==
  /\ \A j \in Intents : Extends(history[j], history'[j])
  /\ ShapeInv'

\* A worker that was to store an answer has stored it or goes on to the kill.
Answers(w) ==
  call[w].pc = "classify" =>
    \/ VenueIdKnown(history'[call[w].intent])
    \/ HasState(history'[call[w].intent], { "REJECTED" })
    \/ call'[w].pc = "kill" /\ call'[w].intent = call[w].intent

LEMMA HistoryStep ==
  ASSUME TypeInv, ShapeInv, NEW w \in Workers, Begin(w) \/ Step(w)
  PROVE  Recorded /\ Answers(w)
<1> USE DEF NoIntentPCs, ledger, database, memory, ports
<1>0. /\ call[w].pc \notin NoIntentPCs \cup { "kill" } => call[w].intent \in Intents
      /\ call[w].pc = "append" => call[w].state \in OrderStates /\ call[w].src \in Sources
      /\ call[w].raw \in Raws
      /\ NoBody \in Raws
      /\ { "rest", "coordinator", "cancel_ack" } \subseteq Sources
  BY DEF TypeInv, TypeOK, CallsComplete, CompleteCall, Calls, Raws, Sources, Origins
<1>1. CASE UNCHANGED history /\ call[w].pc # "classify"
  BY <1>1 DEF Recorded, Answers, Extends, Continues, ShapeInv, TypeInv, TypeOK
<1>2. CASE Classify(w)
  <2> DEFINE i == call[w].intent
             code == call[w].code
  <2>0. i \in Intents /\ code \in SubmitCodes \cup CancelCodes \cup { "none" }
    BY <1>0, <1>2 DEF Classify, TypeInv, TypeOK, Calls
  <2>1. CASE KillRequired(code)
    <3>1. call'[w].pc = "kill" /\ call'[w].intent = i
      BY <1>2, <2>1, KillThenCall DEF Classify
    <3>2. \/ AppendTo(i, "UNKNOWN", "synthetic", "coordinator", NoBody)
          \/ code \in Acks /\ AppendTo(i, SubmittedState(code), "venue", "rest", NoBody)
          \/ code \notin Acks /\ AppendTo(i, SubmittedState(code), "synthetic", "rest", NoBody)
      BY <1>2 DEF Classify
    <3>3. /\ SubmittedState(code) \in OrderStates
          /\ code \notin Acks => SubmittedState(code) \in SyntheticStates
          /\ "UNKNOWN" \in OrderStates \cap SyntheticStates
      BY DEF SubmittedState, OrderStates, SyntheticStates, Acks
    <3>4. Recorded
      BY <1>0, <2>0, <3>2, <3>3, AppendToAppended DEF Appended, Refs, Recorded
    <3> QED BY <3>1, <3>4 DEF Answers
  <2>2. CASE ~KillRequired(code)
    <3>1. code = "ORDER_ACK_MATCHED"
      BY <2>2 DEF KillRequired
    <3>2. AppendTo(i, "ACK_MATCHED", "venue", "rest", NoBody)
      BY <1>2, <3>1 DEF Classify, SubmittedState, Acks
    <3>3. Appended(i, "ACK_MATCHED", "venue")
      BY <1>0, <2>0, <3>2, AppendToAppended DEF OrderStates, Refs
    <3> QED BY <3>3 DEF Appended, Recorded, Answers
  <2> QED BY <2>1, <2>2
<1>3. CASE PersistBoundary(w) \/ UnknownAfterSign(w) \/ Contradict(w)
  <2>0. call[w].intent \in Intents /\ call[w].pc # "classify"
    BY <1>0, <1>3 DEF PersistBoundary, UnknownAfterSign, Contradict
  <2>1. UNCHANGED history \/ \E state \in { "SUBMITTING", "UNKNOWN" },
           ref \in Refs, raw \in { NoBody, call[w].raw } :
             AppendTo(call[w].intent, state, ref, "coordinator", raw)
    BY <1>3 DEF PersistBoundary, UnknownAfterSign, Contradict, Refs
  <2>2. CASE UNCHANGED history
    BY <1>1, <2>0, <2>2
  <2>3. CASE ~UNCHANGED history
    <3>1. PICK state \in { "SUBMITTING", "UNKNOWN" }, ref \in Refs,
               raw \in { NoBody, call[w].raw } :
            AppendTo(call[w].intent, state, ref, "coordinator", raw)
      BY <2>1, <2>3
    <3>2. state \in OrderStates /\ state \in SyntheticStates
      BY DEF OrderStates, SyntheticStates
    <3>3. Appended(call[w].intent, state, ref)
      BY <1>0, <2>0, <3>1, <3>2, AppendToAppended
    <3> QED BY <2>0, <3>2, <3>3 DEF Appended, Recorded, Answers
  <2> QED BY <2>2, <2>3
<1>4. CASE AppendEvent(w) \/ CancelResult(w)
  <2>0. call[w].intent \in Intents /\ call[w].pc # "classify"
    BY <1>0, <1>4 DEF AppendEvent, CancelResult
  <2>1. UNCHANGED history \/ \E state \in OrderStates, src \in Sources, raw \in Raws :
             AppendTo(call[w].intent, state, "venue", src, raw)
    BY <1>0, <1>4 DEF AppendEvent, CancelResult, OrderStates
  <2>2. CASE UNCHANGED history
    BY <1>1, <2>0, <2>2
  <2>3. CASE ~UNCHANGED history
    <3>1. PICK state \in OrderStates, src \in Sources, raw \in Raws :
            AppendTo(call[w].intent, state, "venue", src, raw)
      BY <2>1, <2>3
    <3>2. Appended(call[w].intent, state, "venue")
      BY <2>0, <3>1, AppendToAppended DEF Refs
    <3> QED BY <2>0, <3>2 DEF Appended, Recorded, Answers
  <2> QED BY <2>2, <2>3
<1>5. CASE SubmitStep(w) /\ ~Classify(w) /\ ~PersistBoundary(w) /\ ~UnknownAfterSign(w)
  BY <1>1, <1>5
  DEF SubmitStep, DuplicateSubmission, StartClaimed, PrepareRefused, PrepareCollision,
      PrepareCommit, SignBoundary, Sign, SubmitBoundary, Post
<1>6. CASE (ApplyStep(w) \/ EngageKill(w)) /\ ~AppendEvent(w) /\ ~Contradict(w)
  BY <1>1, <1>6 DEF ApplyStep, ClaimFirstFill, Revalidate, EngageKill
<1>7. CASE RecoveryStep(w) /\ ~CancelResult(w)
  BY <1>1, <1>7
  DEF RecoveryStep, Scan, ResolveByRead, ResolveByCancel, OrderRead, TradeRead, Cancel,
      SendCancel, Confirm, Unresolved, CloseRecovery, Report
<1>8. CASE Begin(w)
  BY <1>1, <1>8
  DEF Begin, PrepareCall, ClaimSubmission, SubmissionTaken, DeliverEvent, StartRecovery
<1> QED BY <1>2, <1>3, <1>4, <1>5, <1>6, <1>7, <1>8 DEF Step

-----------------------------------------------------------------------------
(* Lost orders *)

Covered(i) == killed \/ AnswerPending(i)

\* A recovery that has scanned will kill for every lost order it met, and has
\* done so when it reports.
LostInv ==
  /\ LostOrderIsKilled
  /\ \A w \in Workers :
       Owns(call[w]) /\ call[w].pc # "scan" =>
         \A i \in Intents :
           Lost(i) => \/ Covered(i)
                      \/ call[w].pc # "report" /\ rec[Home[w]].blocked # {}

LEMMA KillStays ==
  ASSUME TypeInv, NEW w \in Workers, Begin(w) \/ Step(w)
  PROVE  /\ killed => killed'
         /\ call[w].pc = "kill" => killed'
         /\ UNCHANGED restarts
<1> USE DEF ledger, database, memory, ports
<1>1. CASE ApplyStep(w) \/ EngageKill(w)
  BY <1>1 DEF ApplyStep, AppendEvent, ClaimFirstFill, Revalidate, Contradict, EngageKill
<1> QED BY <1>1, SubmitStepQuiet, RecoveryStepQuiet, BeginQuiet DEF Step, Quiet

\* An order is posted by a call that is about to look at the answer.
LEMMA PostStep ==
  ASSUME TypeInv, NEW w \in Workers, Begin(w) \/ Step(w), NEW i \in Intents
  PROVE  \/ posts'[i] = posts[i]
         \/ call'[w].pc = "classify" /\ call'[w].intent = i
<1> USE DEF ledger, database, memory, ports
<1>1. CASE Post(w)
  <2>1. PICK code \in SubmitCodes :
          Become(w, [ call[w] EXCEPT !.pc = "classify", !.code = code ])
    BY <1>1 DEF Post
  <2>2. call'[w] = [ call[w] EXCEPT !.pc = "classify", !.code = code ]
    BY <2>1, BecomeMoves
  <2>3. call'[w].pc = "classify" /\ call'[w].intent = call[w].intent
    BY <2>2 DEF TypeInv, TypeOK, Calls
  <2>4. call[w].intent # i => posts'[i] = posts[i]
    BY <1>1 DEF Post, TypeInv, TypeOK
  <2> QED BY <2>3, <2>4
<1>2. CASE ~Post(w) /\ SubmitStep(w)
  BY <1>2 DEF SubmitStep, DuplicateSubmission, StartClaimed, PrepareRefused,
              PrepareCollision, PrepareCommit, SignBoundary, Sign, PersistBoundary,
              SubmitBoundary, Classify, UnknownAfterSign
<1>3. CASE ApplyStep(w) \/ EngageKill(w)
  BY <1>3 DEF ApplyStep, AppendEvent, ClaimFirstFill, Revalidate, Contradict, EngageKill
<1>4. CASE RecoveryStep(w)
  BY <1>4 DEF RecoveryStep, Scan, ResolveByRead, ResolveByCancel, OrderRead, TradeRead,
              Cancel, SendCancel, CancelResult, Confirm, Unresolved, CloseRecovery, Report
<1>5. CASE Begin(w)
  BY <1>5 DEF Begin, PrepareCall, ClaimSubmission, SubmissionTaken, DeliverEvent,
              StartRecovery
<1> QED BY <1>1, <1>2, <1>3, <1>4, <1>5 DEF Step

\* No step of a worker leaves an order lost and uncovered that was not so before.
LEMMA LostStep ==
  ASSUME IInv, ShapeInv, NEW w \in Workers, Begin(w) \/ Step(w), NEW i \in Intents,
         Lost(i)', ~Covered(i)'
  PROVE  Lost(i) /\ ~Covered(i)
<1>0. TypeInv /\ posts[i] \in Nat
  BY DEF IInv, TypeInv, TypeOK
<1>1. Recorded /\ Answers(w)
  BY <1>0, HistoryStep
<1>2. \A v \in Workers \ { w } : call'[v] = call[v]
  BY OthersStay
<1>3. /\ ~killed'
      /\ ~ \E v \in Workers : call'[v].intent = i /\ call'[v].pc \in { "classify", "kill" }
  BY DEF Covered, AnswerPending
<1>4. /\ posts'[i] > 0
      /\ ~VenueIdKnown(history'[i])
      /\ ~HasState(history'[i], { "REJECTED" })
  BY DEF Lost
<1>5. Lost(i)
  <2>1. posts'[i] = posts[i]
    BY <1>0, <1>3, PostStep
  <2> QED BY <1>1, <1>4, <2>1 DEF Recorded, Extends, Lost
<1>6. ~AnswerPending(i)
  <2> SUFFICES ASSUME NEW v \in Workers, call[v].intent = i,
                      call[v].pc \in { "classify", "kill" }
               PROVE  FALSE
    BY DEF AnswerPending
  <2>1. CASE v # w
    BY <1>2, <1>3, <2>1
  <2>2. CASE v = w /\ call[w].pc = "classify"
    BY <1>1, <1>3, <1>4, <2>2 DEF Answers
  <2>3. CASE v = w /\ call[w].pc = "kill"
    BY <1>0, <1>3, <2>3, KillStays
  <2> QED BY <2>1, <2>2, <2>3
<1>7. ~killed
  BY <1>0, <1>3, KillStays
<1> QED BY <1>5, <1>6, <1>7 DEF Covered

\* The scan blocks every lost order: it has a history, which ends in a state
\* that has to be resolved, and no id to resolve it by.
LEMMA ScanBlocks ==
  ASSUME IInv, ShapeInv, NEW w \in Workers, Scan(w), NEW i \in Intents, Lost(i)
  PROVE  rec'[Home[w]].blocked # {} /\ call'[w].pc # "report"
<1> DEFINE c == Home[w]
           h == history[i]
<1>0. /\ TypeInv
      /\ c \in Coordinators
      /\ rec \in [ Coordinators -> Recoveries ]
      /\ rec[c] \in Recoveries
      /\ h \in Seq(Event)
      /\ i \in persisted
      /\ HasState(h, { "SUBMITTING" })
  BY ConstantsAssumption DEF IInv, TypeInv, TypeOK, BoundaryBeforeVenue, Lost
<1>1. h # << >> /\ LatestState(h) \in UnresolvedStates /\ ~VenueIdKnown(h)
  <2>1. Len(h) \in Nat /\ Len(h) # 0
    BY <1>0 DEF HasState
  <2>2. Len(h) \in 1..Len(h)
    BY <2>1
  <2>3. /\ h[Len(h)].ref # "venue"
        /\ h[Len(h)].state # "REJECTED"
        /\ Shaped(h)
    BY <2>2 DEF Lost, VenueIdKnown, HasState, ShapeInv
  <2>4. LatestState(h) \in { "SUBMITTING", "UNKNOWN" }
    BY <2>2, <2>3 DEF Shaped, SyntheticStates, LatestState
  <2> QED BY <2>1, <2>4 DEF UnresolvedStates, Lost
<1>2. PICK valid \in BOOLEAN, closed \in BOOLEAN, unsettled \in SUBSET persisted :
        rec' = [ rec EXCEPT ![c] = Triage(rec[c], valid, closed, unsettled) ]
  BY DEF Scan
<1>3. rec'[c] = Triage(rec[c], valid, closed, unsettled)
  BY <1>0, <1>2
<1>4. i \in Triage(rec[c], valid, closed, unsettled).blocked
  <2> DEFINE forced == Forced(rec[c].startup, rec[c].uncertain, unsettled, closed)
             open   == { j \in persisted \ forced :
                           /\ history[j] # << >>
                           /\ LatestState(history[j]) \in UnresolvedStates }
             usable == { j \in open : valid /\ VenueIdKnown(history[j]) }
  <2>1. i \in forced \cup (open \ usable)
    BY <1>0, <1>1
  <2>2. Triage(rec[c], valid, closed, unsettled).blocked = forced \cup (open \ usable)
    BY <1>0 DEF Triage, Recoveries
  <2> QED BY <2>1, <2>2
<1>5. call'[w].pc # "report"
  BY <1>0, GotoCall, KillThenCall DEF Scan
<1> QED BY <1>3, <1>4, <1>5

\* A recovery is nobody's but its owner's.
LEMMA OthersKeepRec ==
  ASSUME IInv, OwnerInv, NEW w \in Workers, Begin(w) \/ Step(w),
         NEW v \in Workers \ { w }, Owns(call[v])
  PROVE  rec'[Home[v]] = rec[Home[v]]
<1>0. /\ TypeInv
      /\ Home \in [ Workers -> Coordinators ]
      /\ rec \in [ Coordinators -> Recoveries ]
      /\ Owner(w)
  BY ConstantsAssumption, StepOwner DEF IInv, TypeInv, TypeOK
<1>1. CASE Bystands(w)
  BY <1>1 DEF Bystands
<1>2. CASE Enters(w)
  <2>1. Home[v] # Home[w]
    BY <1>2 DEF Enters, OwnerInv
  <2> QED BY <1>0, <1>2, <2>1 DEF Enters
<1>3. CASE Proceeds(w)
  <2>1. Home[v] # Home[w]
    BY <1>3 DEF Proceeds, OwnerInv
  <2> QED BY <1>0, <1>3, <2>1 DEF Proceeds
<1>4. CASE Leaves(w)
  <2>1. Owns(call[w])
    BY <1>4 DEF Leaves, Owns, RecoveryPCs
  <2>2. Home[v] # Home[w]
    BY <2>1 DEF OwnerInv
  <2> QED BY <1>0, <1>4, <2>2 DEF Leaves, Report
<1> QED BY <1>0, <1>1, <1>2, <1>3, <1>4 DEF Owner

LEMMA LostKeeps ==
  ASSUME IInv, ShapeInv, OwnerInv, LostInv, NEW w \in Workers, Begin(w) \/ Step(w)
  PROVE  LostInv'
<1>0. /\ TypeInv
      /\ Home \in [ Workers -> Coordinators ]
      /\ rec \in [ Coordinators -> Recoveries ]
  BY ConstantsAssumption DEF IInv, TypeInv, TypeOK
<1>1. Owner(w)
  BY <1>0, StepOwner
<1>2. \A v \in Workers \ { w } : call'[v] = call[v]
  BY OthersStay
<1>3. ASSUME NEW i \in Intents, Lost(i)', ~Covered(i)'
      PROVE  /\ Lost(i) /\ ~Covered(i)
             /\ restarts' > 0 /\ scanned' = {}
  <2>1. Lost(i) /\ ~Covered(i)
    BY <1>3, LostStep
  <2>2. restarts > 0 /\ scanned = {} /\ UNCHANGED restarts
    BY <1>0, <2>1, KillStays DEF LostInv, LostOrderIsKilled, Covered
  <2>3. ~Leaves(w)
    <3>1. call[w].pc = "report" => Owns(call[w])
      BY DEF Owns, RecoveryPCs
    <3> QED BY <2>1, <3>1 DEF Leaves, LostInv
  <2>4. UNCHANGED scanned
    BY <1>1, <2>3 DEF Owner, Bystands, Enters, Proceeds
  <2> QED BY <2>1, <2>2, <2>4
<1>4. ASSUME NEW v \in Workers, Owns(call'[v]), call'[v].pc # "scan",
             NEW i \in Intents, Lost(i)', ~Covered(i)'
      PROVE  call'[v].pc # "report" /\ rec'[Home[v]].blocked # {}
  <2>1. Lost(i) /\ ~Covered(i)
    BY <1>3, <1>4
  <2>2. CASE v # w
    <3>1. /\ call'[v] = call[v]
          /\ call[v].pc # "report"
          /\ rec[Home[v]].blocked # {}
      BY <1>2, <1>4, <2>1, <2>2 DEF LostInv
    <3>2. rec'[Home[v]] = rec[Home[v]]
      BY <1>4, <2>2, <3>1, OthersKeepRec
    <3> QED BY <3>1, <3>2
  <2>3. CASE v = w
    <3>1. Proceeds(w)
      BY <1>1, <1>4, <2>3 DEF Owner, Bystands, Enters, Leaves
    <3>2. CASE Scan(w)
      BY <2>1, <2>3, <3>2, ScanBlocks
    <3>3. CASE ~Scan(w)
      <4>1. /\ Owns(call[w])
            /\ call[w].pc # "scan"
            /\ rec[Home[w]].blocked \subseteq rec'[Home[w]].blocked
            /\ call'[w].pc = "report" => killed' \/ rec[Home[w]].blocked = {}
        BY <3>1, <3>3 DEF Proceeds
      <4>2. rec[Home[w]].blocked # {}
        BY <2>1, <4>1 DEF LostInv
      <4>3. ~killed'
        BY <1>4 DEF Covered
      <4> QED BY <2>3, <4>1, <4>2, <4>3
    <3> QED BY <3>2, <3>3
  <2> QED BY <2>2, <2>3
<1>5. LostOrderIsKilled'
  BY <1>3 DEF LostOrderIsKilled, Covered
<1> QED BY <1>4, <1>5 DEF LostInv

RecoveryInv == IInv /\ ShapeInv /\ OwnerInv /\ LostInv

LEMMA RecoveryInvInit == Init => RecoveryInv
<1> SUFFICES ASSUME Init PROVE RecoveryInv
  OBVIOUS
<1>1. \A w \in Workers : call[w] = Idle /\ Idle.pc = "idle"
  BY DEF Init, Idle
<1>2. OwnerInv
  BY <1>1 DEF OwnerInv, Owns, Paired, RecoveryPCs, ApplyPCs
<1>3. \A i \in Intents : Len(history[i]) = 0 /\ posts[i] = 0
  BY DEF Init
<1>4. ShapeInv
  BY <1>3 DEF ShapeInv, Shaped
<1>5. LostInv
  BY <1>3 DEF LostInv, LostOrderIsKilled, Lost
<1> QED BY <1>2, <1>4, <1>5, IInvInit DEF RecoveryInv

LEMMA RecoveryInvNext == RecoveryInv /\ [Next]_vars => RecoveryInv'
<1> SUFFICES ASSUME RecoveryInv, [Next]_vars PROVE RecoveryInv'
  OBVIOUS
<1> USE DEF ledger, database, memory, ports
<1>0. IInv /\ TypeInv /\ ShapeInv /\ OwnerInv /\ LostInv /\ IInv'
  BY IInvNext DEF RecoveryInv, IInv
<1>1. ASSUME NEW w \in Workers, Begin(w) \/ Step(w) PROVE RecoveryInv'
  <2>1. ShapeInv'
    BY <1>0, <1>1, HistoryStep DEF Recorded
  <2>2. OwnerInv'
    BY <1>0, <1>1, StepOwner, OthersStay, OwnerKeeps
  <2>3. LostInv'
    BY <1>0, <1>1, LostKeeps
  <2> QED BY <1>0, <2>1, <2>2, <2>3 DEF RecoveryInv
<1>2. CASE Reconcile \/ UNCHANGED vars
  <2>1. UNCHANGED << history, posts, killed, call, rec, recovering, scanned, restarts >>
    BY <1>2 DEF Reconcile, vars
  <2> QED BY <1>0, <2>1 DEF RecoveryInv, ShapeInv, OwnerInv, LostInv, LostOrderIsKilled,
                            Lost, Covered, AnswerPending
<1>3. CASE Restart
  <2>1. /\ UNCHANGED << history, posts >>
        /\ restarts' > 0 /\ scanned' = {}
        /\ \A w \in Workers : call'[w] = Idle /\ Idle.pc = "idle"
    BY <1>0, <1>3 DEF Restart, Idle, TypeInv, TypeOK
  <2>2. \A w \in Workers : ~Owns(call'[w]) /\ Paired(call'[w])
    BY <2>1 DEF Owns, Paired, RecoveryPCs, ApplyPCs
  <2> QED BY <1>0, <2>1, <2>2 DEF RecoveryInv, ShapeInv, OwnerInv, LostInv,
                                  LostOrderIsKilled
<1> QED BY <1>1, <1>2, <1>3 DEF Next

\* An order that was posted and whose id nobody stored is in the hands of the
\* call that posted it, or the account is killed, or the process has restarted
\* and its startup recovery, which will kill, has not ended.
THEOREM LostOrdersKill == Spec => []LostOrderIsKilled
<1>1. RecoveryInv => LostOrderIsKilled
  BY DEF RecoveryInv, LostInv
<1> QED BY <1>1, RecoveryInvInit, RecoveryInvNext, PTL DEF Spec

-----------------------------------------------------------------------------
(* What a complete recovery has resolved *)

\* The intents a recovery met in a state it has to resolve, and those for which
\* a read has given a new state since.
Pending(c, i) ==
  /\ i \in rec[c].intents
  /\ Read(c, i) # << >>
  /\ LatestState(Read(c, i)) \in UnresolvedStates

Resolved(c, i) ==
  \E k \in (rec[c].read[i] + 1)..Len(history[i]) : history[i][k].src = "recovery"

\* A call is at work on i, and will apply an event of a read or block i.
Resolving == { "order_read", "trade_read", "cancel", "send_cancel", "cancel_result",
               "confirm", "unresolved" }

Works(r, i) ==
  /\ r.intent = i
  /\ \/ r.pc \in Resolving
     \/ r.pc = "append" /\ r.src = "recovery"
     \/ r.pc \in { "contradict", "kill" } /\ r.fail \in { "trade_read", "unresolved" }

\* A call has nothing left to resolve.
Finishes(r) ==
  r.pc = "report" \/ (r.pc \in ApplyPCs \cup { "kill" } /\ r.fail = "report")

\* What the scan did not block is legal, has an id if it is to be resolved, and
\* exposes nothing at a startup or after an uncertainty.
Vetted(c) ==
  rec[c].blocked = {} =>
    \A i \in rec[c].intents :
      /\ rec[c].startup => Read(c, i) # << >> /\ ~HasState(Read(c, i), FillStates)
      /\ rec[c].uncertain =>
           Read(c, i) = << >> \/ LatestState(Read(c, i)) \in TerminalStates
      /\ Read(c, i) # << >> => LegalHistory(Read(c, i))
      /\ Pending(c, i) => VenueIdKnown(Read(c, i))

Attended(w) ==
  \A i \in Intents :
    Pending(Home[w], i) =>
      \/ i \in rec[Home[w]].blocked \cup rec[Home[w]].reads \cup rec[Home[w]].cancels
      \/ Works(call[w], i)
      \/ Resolved(Home[w], i)

Scanned(w) ==
  /\ \A i \in Intents : rec[Home[w]].read[i] <= Len(history[i])
  /\ Vetted(Home[w])
  /\ Attended(w)
  /\ Finishes(call[w]) => rec[Home[w]].reads \cup rec[Home[w]].cancels = {}
  /\ call[w].pc = "report" => killed \/ rec[Home[w]].blocked = {}

ResolveInv ==
  \A w \in Workers : Owns(call[w]) /\ call[w].pc # "scan" => Scanned(w)

\* What has been read of a history does not change when it grows.
LEMMA ReadStays ==
  ASSUME NEW h \in Seq(Event), NEW g \in Seq(Event), Continues(h, g),
         NEW n \in 0..Len(h)
  PROVE  SubSeq(g, 1, n) = SubSeq(h, 1, n)
<1>1. \A k \in 1..n : h[k] \in Event /\ g[k] \in Event /\ g[k] = h[k]
  BY DEF Continues
<1>2. /\ SubSeq(h, 1, n) \in Seq(Event) /\ Len(SubSeq(h, 1, n)) = n
      /\ \A k \in 1..n : SubSeq(h, 1, n)[k] = h[k]
  BY <1>1, SubSeqProperties
<1>3. /\ SubSeq(g, 1, n) \in Seq(Event) /\ Len(SubSeq(g, 1, n)) = n
      /\ \A k \in 1..n : SubSeq(g, 1, n)[k] = g[k]
  BY <1>1, SubSeqProperties
<1>4. \A k \in 1..n : SubSeq(g, 1, n)[k] = SubSeq(h, 1, n)[k]
  BY <1>1, <1>2, <1>3
<1> QED BY <1>2, <1>3, <1>4, SeqEqual

\* The records that Continue, Goto, KillThen and StartApply leave behind.
LEMMA CallAfter ==
  ASSUME TypeInv, NEW w \in Workers
  PROVE  /\ \A pc : Continue(w, pc) =>
              /\ call'[w].pc = pc
              /\ call'[w].fail = "idle"
              /\ pc \notin { "idle", "resolve", "report" } =>
                   call'[w].intent = call[w].intent
         /\ \A pc : Goto(w, pc) =>
              /\ call'[w].pc = pc
              /\ call'[w].fail = call[w].fail
         /\ \A then : KillThen(w, then) =>
              /\ call'[w].pc = "kill"
              /\ call'[w].intent = call[w].intent
              /\ call'[w].fail = then
<1>1. ASSUME NEW pc, Continue(w, pc)
      PROVE  /\ call'[w].pc = pc
             /\ call'[w].fail = "idle"
             /\ pc \notin { "idle", "resolve", "report" } =>
                  call'[w].intent = call[w].intent
  <2> DEFINE r == [ Idle EXCEPT !.pc = pc,
                      !.intent = IF pc \in { "idle", "resolve", "report" }
                                 THEN NoIntent ELSE call[w].intent ]
  <2>1. call'[w] = r
    BY <1>1, BecomeMoves DEF Continue
  <2>2. /\ r.pc = pc /\ r.fail = "idle"
        /\ pc \notin { "idle", "resolve", "report" } => r.intent = call[w].intent
    BY DEF Idle
  <2> QED BY <2>1, <2>2
<1>2. ASSUME NEW then, KillThen(w, then)
      PROVE  call'[w].pc = "kill" /\ call'[w].intent = call[w].intent /\ call'[w].fail = then
  <2> DEFINE r == [ call[w] EXCEPT !.pc = "kill", !.fail = then ]
  <2>1. call'[w] = r
    BY <1>2, BecomeMoves DEF KillThen
  <2>2. r.pc = "kill" /\ r.intent = call[w].intent /\ r.fail = then
    BY DEF TypeInv, TypeOK, Calls
  <2> QED BY <2>1, <2>2
<1> QED BY <1>1, <1>2, GotoCall

LEMMA ApplyAfter ==
  ASSUME TypeInv, NEW w \in Workers, NEW i, NEW state, NEW src, NEW raw,
         NEW inOrder, NEW ok, NEW fail,
         StartApply(w, i, state, src, raw, inOrder, ok, fail)
  PROVE  /\ call'[w].pc \in { "append", "contradict" }
         /\ call'[w].intent = i
         /\ call'[w].src = src
         /\ call'[w].fail = fail
<1> DEFINE pc    == IF Acceptable(i, state, inOrder) THEN "append" ELSE "contradict"
           first == state \in FillStates /\ ~HasState(history[i], FillStates)
           r == [ Idle EXCEPT !.pc = pc, !.intent = i, !.state = state,
                    !.src = src, !.raw = raw, !.first = first, !.ok = ok, !.fail = fail ]
<1>1. call'[w] = r
  BY BecomeMoves DEF StartApply
<1>2. /\ r.pc \in { "append", "contradict" }
      /\ r.intent = i /\ r.src = src /\ r.fail = fail
  BY DEF Idle
<1> QED BY <1>1, <1>2

\* The running recovery keeps what it has read and what it has blocked.
Keeps(c) ==
  /\ rec'[c].startup = rec[c].startup
  /\ rec'[c].uncertain = rec[c].uncertain
  /\ rec'[c].intents = rec[c].intents
  /\ rec'[c].read = rec[c].read
  /\ rec[c].blocked \subseteq rec'[c].blocked
  /\ rec'[c].reads \subseteq rec[c].reads
  /\ rec'[c].cancels \subseteq rec[c].cancels

Found(i) ==
  \E k \in (Len(history[i]) + 1)..Len(history'[i]) : history'[i][k].src = "recovery"

\* It loses sight of no intent: one that is no longer waiting is worked on, one
\* that is no longer worked on is blocked or has a new event.
Carries(w) ==
  /\ Keeps(Home[w])
  /\ \A i \in Intents :
       i \in rec[Home[w]].reads \cup rec[Home[w]].cancels =>
         i \in rec'[Home[w]].reads \cup rec'[Home[w]].cancels \/ Works(call'[w], i)
  /\ \A i \in Intents :
       Works(call[w], i) =>
         Works(call'[w], i) \/ i \in rec'[Home[w]].blocked \/ Found(i)
  /\ Finishes(call'[w]) =>
       Finishes(call[w]) \/ rec[Home[w]].reads \cup rec[Home[w]].cancels = {}
  /\ call'[w].pc = "report" => UNCHANGED rec

LEMMA ApplyStepCarries ==
  ASSUME TypeInv, NEW w \in Workers, ApplyStep(w) \/ EngageKill(w)
  PROVE  Carries(w)
<1> USE DEF ApplyPCs, memory
<1>0. /\ call[w] \in Calls
      /\ call[w].ok \in OkReturns
      /\ call[w].fail \in FailReturns
      /\ UNCHANGED rec
  BY DEF TypeInv, TypeOK, Calls, ApplyStep, AppendEvent, ClaimFirstFill, Revalidate,
         Contradict, EngageKill
<1>1. ASSUME \A i \in Intents : Works(call[w], i) => Works(call'[w], i) \/ Found(i),
             Finishes(call'[w]) => Finishes(call[w])
      PROVE  Carries(w)
  BY <1>0, <1>1 DEF Carries, Keeps
<1>2. CASE AppendEvent(w)
  <2>1. ASSUME NEW i \in Intents, Works(call[w], i) PROVE Found(i)
    <3> DEFINE e == [ state |-> call[w].state, ref |-> "venue", src |-> call[w].src,
                      raw |-> call[w].raw ]
               h == history[i]
    <3>1. call[w].intent = i /\ call[w].src = "recovery"
      BY <1>2, <2>1 DEF AppendEvent, Works, Resolving
    <3>2. history' = [ history EXCEPT ![i] = Append(h, e) ]
      BY <1>2, <3>1, ConstantsAssumption DEF AppendEvent, AppendTo
    <3>3. e \in Event
      BY <1>0, <1>2, <3>1
      DEF AppendEvent, Event, Refs, Sources, Origins, Calls, TypeInv, CallsComplete,
          CompleteCall
    <3>4. h \in Seq(Event) /\ history'[i] = Append(h, e)
      BY <3>2 DEF TypeInv, TypeOK
    <3>5. /\ Len(h) \in Nat
          /\ Len(history'[i]) = Len(h) + 1
          /\ history'[i][Len(h) + 1] = e
      BY <3>3, <3>4
    <3> QED BY <3>1, <3>5 DEF Found
  <2>2. Finishes(call'[w]) => Finishes(call[w])
    BY <1>0, <1>2, CallAfter DEF AppendEvent, Finishes
  <2> QED BY <1>1, <2>1, <2>2
<1>3. CASE ClaimFirstFill(w) \/ Revalidate(w)
  <2>1. \A i \in Intents : ~Works(call[w], i)
    BY <1>3 DEF ClaimFirstFill, Revalidate, Works, Resolving
  <2>2. Finishes(call'[w]) => Finishes(call[w])
    BY <1>0, <1>3, CallAfter DEF ClaimFirstFill, Revalidate, Finishes
  <2> QED BY <1>1, <2>1, <2>2
<1>4. CASE Contradict(w) \/ EngageKill(w)
  <2>1. \A i \in Intents : Works(call[w], i) => Works(call'[w], i)
    BY <1>0, <1>4, CallAfter DEF Contradict, EngageKill, Works, Resolving
  <2>2. Finishes(call'[w]) => Finishes(call[w])
    BY <1>0, <1>4, CallAfter DEF Contradict, EngageKill, Finishes
  <2> QED BY <1>1, <2>1, <2>2
<1> QED BY <1>2, <1>3, <1>4 DEF ApplyStep

LEMMA RecoveryStepCarries ==
  ASSUME TypeInv, NEW w \in Workers, RecoveryStep(w), call[w].pc \notin { "scan", "report" }
  PROVE  Carries(w)
<1> USE DEF ApplyPCs, memory, ports
<1> DEFINE c == Home[w]
<1>0. /\ c \in Coordinators
      /\ rec \in [ Coordinators -> Recoveries ]
      /\ rec[c] \in Recoveries
      /\ call[w] \in Calls
  BY ConstantsAssumption DEF TypeInv, TypeOK
<1>1. ASSUME UNCHANGED rec
             \/ (\E body : rec' = [ rec EXCEPT ![c].orders = body ])
             \/ (\E body : rec' = [ rec EXCEPT ![c].trades = body ])
             \/ (\E f : rec' = [ rec EXCEPT ![c].seen = f ])
      PROVE  /\ Keeps(c)
             /\ rec'[c].reads = rec[c].reads
             /\ rec'[c].cancels = rec[c].cancels
  <2>1. CASE UNCHANGED rec
    BY <2>1 DEF Keeps
  <2>2. CASE \E body : rec' = [ rec EXCEPT ![c].orders = body ]
    BY <1>0, <2>2 DEF Keeps, Recoveries
  <2>3. CASE \E body : rec' = [ rec EXCEPT ![c].trades = body ]
    BY <1>0, <2>3 DEF Keeps, Recoveries
  <2>4. CASE \E f : rec' = [ rec EXCEPT ![c].seen = f ]
    BY <1>0, <2>4 DEF Keeps, Recoveries
  <2> QED BY <1>1, <2>1, <2>2, <2>3, <2>4
<1>2. ASSUME Keeps(c), rec'[c].reads = rec[c].reads, rec'[c].cancels = rec[c].cancels,
             call'[w].intent = call[w].intent,
             \/ call'[w].pc \in Resolving
             \/ /\ call'[w].pc \in { "append", "contradict" }
                /\ call'[w].src = "recovery"
                /\ call'[w].fail \in { "trade_read", "unresolved" }
      PROVE  Carries(w)
  BY <1>2 DEF Carries, Works, Finishes, Resolving
<1>3. CASE \E i \in Intents : ResolveByRead(w, i) \/ ResolveByCancel(w, i)
  <2>1. PICK i \in Intents, pc \in { "order_read", "cancel" } :
          /\ Become(w, [ Idle EXCEPT !.pc = pc, !.intent = i ])
          /\ ResolveByRead(w, i) \/ ResolveByCancel(w, i)
    BY <1>3 DEF ResolveByRead, ResolveByCancel
  <2>2. call'[w] = [ Idle EXCEPT !.pc = pc, !.intent = i ]
    BY <2>1, BecomeMoves
  <2>3. call'[w].pc = pc /\ call'[w].intent = i
    BY <2>2 DEF Idle
  <2>4. \/ /\ rec' = [ rec EXCEPT ![c].reads = rec[c].reads \ { i } ]
        \/ /\ rec' = [ rec EXCEPT ![c].cancels = rec[c].cancels \ { i } ]
    BY <2>1 DEF ResolveByRead, ResolveByCancel
  <2>5. /\ Keeps(c)
        /\ \A j \in Intents : j \in rec[c].reads \cup rec[c].cancels =>
             j \in rec'[c].reads \cup rec'[c].cancels \/ j = i
    <3>1. CASE rec' = [ rec EXCEPT ![c].reads = rec[c].reads \ { i } ]
      BY <1>0, <3>1 DEF Keeps, Recoveries
    <3>2. CASE rec' = [ rec EXCEPT ![c].cancels = rec[c].cancels \ { i } ]
      BY <1>0, <3>2 DEF Keeps, Recoveries
    <3> QED BY <2>4, <3>1, <3>2
  <2>6. call[w].pc = "resolve"
    BY <2>1 DEF ResolveByRead, ResolveByCancel
  <2> QED BY <2>3, <2>5, <2>6 DEF Carries, Works, Finishes, Resolving
<1>4. CASE OrderRead(w)
  <2>1. UNCHANGED rec \/ \E body : rec' = [ rec EXCEPT ![c].orders = body ]
    <3>1. CASE ~UNCHANGED rec
      <4>1. PICK body \in BodyOf(rec[c].orders, OrderBodies) :
              rec' = [ rec EXCEPT ![c].orders = body ]
        BY <1>4, <3>1 DEF OrderRead
      <4> QED BY <4>1
    <3> QED BY <3>1
  <2>2. CASE Continue(w, "trade_read")
    <3>1. call'[w].pc = "trade_read" /\ call'[w].intent = call[w].intent
      BY <2>2, CallAfter
    <3> QED BY <1>1, <1>2, <2>1, <3>1 DEF Resolving
  <2>3. CASE ~Continue(w, "trade_read")
    <3>1. PICK state, body, inOrder :
            StartApply(w, call[w].intent, state, "recovery", body, inOrder,
                       "resolve", "trade_read")
      BY <1>4, <2>3 DEF OrderRead
    <3>2. /\ call'[w].pc \in { "append", "contradict" }
          /\ call'[w].intent = call[w].intent
          /\ call'[w].src = "recovery"
          /\ call'[w].fail = "trade_read"
      BY <3>1, ApplyAfter
    <3> QED BY <1>1, <1>2, <2>1, <3>2
  <2> QED BY <2>2, <2>3
<1>5. CASE TradeRead(w)
  <2>1. UNCHANGED rec \/ \E body : rec' = [ rec EXCEPT ![c].trades = body ]
    <3>1. CASE ~UNCHANGED rec
      <4>1. PICK body \in BodyOf(rec[c].trades, TradeBodies) :
              rec' = [ rec EXCEPT ![c].trades = body ]
        BY <1>5, <3>1 DEF TradeRead
      <4> QED BY <4>1
    <3> QED BY <3>1
  <2>2. CASE Continue(w, "unresolved")
    <3>1. call'[w].pc = "unresolved" /\ call'[w].intent = call[w].intent
      BY <2>2, CallAfter
    <3> QED BY <1>1, <1>2, <2>1, <3>1 DEF Resolving
  <2>3. CASE ~Continue(w, "unresolved")
    <3>1. PICK state, body, inOrder :
            StartApply(w, call[w].intent, state, "recovery", body, inOrder,
                       "resolve", "unresolved")
      BY <1>5, <2>3 DEF TradeRead
    <3>2. /\ call'[w].pc \in { "append", "contradict" }
          /\ call'[w].intent = call[w].intent
          /\ call'[w].src = "recovery"
          /\ call'[w].fail = "unresolved"
      BY <3>1, ApplyAfter
    <3> QED BY <1>1, <1>2, <2>1, <3>2
  <2> QED BY <2>2, <2>3
<1>6. CASE Cancel(w)
  <2>1. \E pc \in { "confirm", "unresolved", "send_cancel" } : Continue(w, pc)
    BY <1>6 DEF Cancel
  <2> QED BY <1>1, <1>2, <1>6, <2>1, CallAfter DEF Cancel, Resolving
<1>7. CASE SendCancel(w)
  <2>1. PICK code \in CancelCodes :
          Become(w, [ call[w] EXCEPT !.pc = "cancel_result", !.code = code ])
    BY <1>7 DEF SendCancel
  <2>2. call'[w] = [ call[w] EXCEPT !.pc = "cancel_result", !.code = code ]
    BY <2>1, BecomeMoves
  <2>3. call'[w].pc = "cancel_result" /\ call'[w].intent = call[w].intent
    BY <1>0, <2>2 DEF Calls
  <2> QED BY <1>1, <1>2, <1>7, <2>3 DEF SendCancel, Resolving
<1>8. CASE CancelResult(w)
  <2>1. UNCHANGED rec \/ \E f : rec' = [ rec EXCEPT ![c].seen = f ]
    <3> DEFINE f == [ rec[c].seen EXCEPT ![call[w].intent] =
                        Len(history[call[w].intent]) + 1 ]
    <3>1. UNCHANGED rec \/ rec' = [ rec EXCEPT ![c].seen = f ]
      BY <1>8 DEF CancelResult
    <3> QED BY <3>1
  <2>2. \E pc \in { "confirm", "unresolved" } : Continue(w, pc)
    BY <1>8 DEF CancelResult
  <2> QED BY <1>1, <1>2, <2>1, <2>2, CallAfter DEF Resolving
<1>9. CASE Confirm(w)
  <2>1. CASE Continue(w, "unresolved")
    BY <1>1, <1>2, <1>9, <2>1, CallAfter DEF Confirm, Resolving
  <2>2. CASE ~Continue(w, "unresolved")
    <3>1. PICK inOrder :
            StartApply(w, call[w].intent, "CANCELLED", "recovery", NoBody, inOrder,
                       "resolve", "unresolved")
      BY <1>9, <2>2 DEF Confirm
    <3>2. /\ call'[w].pc \in { "append", "contradict" }
          /\ call'[w].intent = call[w].intent
          /\ call'[w].src = "recovery"
          /\ call'[w].fail = "unresolved"
      BY <3>1, ApplyAfter
    <3> QED BY <1>1, <1>2, <1>9, <3>2 DEF Confirm
  <2> QED BY <2>1, <2>2
<1>10. CASE Unresolved(w)
  <2>1. /\ rec'[c].blocked = rec[c].blocked \cup { call[w].intent }
        /\ Keeps(c)
        /\ rec'[c].reads = rec[c].reads
        /\ rec'[c].cancels = rec[c].cancels
    BY <1>0, <1>10 DEF Unresolved, Keeps, Recoveries
  <2>2. call'[w].pc = "resolve" /\ call'[w].fail = "idle"
    BY <1>10, CallAfter DEF Unresolved
  <2> QED BY <2>1, <2>2 DEF Carries, Works, Finishes
<1>11. CASE CloseRecovery(w)
  <2>1. \A i \in Intents : ~Works(call[w], i)
    BY <1>11 DEF CloseRecovery, Works, Resolving
  <2> QED BY <1>1, <1>11, <2>1 DEF CloseRecovery, Carries
<1> QED BY <1>3, <1>4, <1>5, <1>6, <1>7, <1>8, <1>9, <1>10, <1>11
        DEF RecoveryStep, Scan, Report

\* What a running recovery knows of the histories survives any step that keeps
\* it and only extends them.
LEMMA KnowledgeStays ==
  ASSUME TypeInv, TypeInv', Recorded, NEW c \in Coordinators, Keeps(c),
         \A i \in Intents : rec[c].read[i] <= Len(history[i])
  PROVE  /\ \A i \in Intents :
              /\ rec'[c].read[i] <= Len(history'[i])
              /\ Pending(c, i)' <=> Pending(c, i)
              /\ Resolved(c, i) \/ Found(i) => Resolved(c, i)'
         /\ Vetted(c) => Vetted(c)'
<1>0. /\ rec[c].read \in [ Intents -> Nat ]
      /\ rec'[c].read = rec[c].read
      /\ history \in [ Intents -> Seq(Event) ]
      /\ history' \in [ Intents -> Seq(Event) ]
  BY DEF TypeInv, TypeOK, Recoveries, Keeps
<1>1. ASSUME NEW i \in Intents
      PROVE  /\ rec'[c].read[i] <= Len(history'[i])
             /\ Read(c, i)' = Read(c, i)
             /\ Resolved(c, i) \/ Found(i) => Resolved(c, i)'
  <2> DEFINE n == rec[c].read[i]
             h == history[i]
             g == history'[i]
  <2>1. /\ h \in Seq(Event) /\ g \in Seq(Event)
        /\ n \in Nat /\ n <= Len(h)
        /\ Continues(h, g)
        /\ rec'[c].read[i] = n
    BY <1>0 DEF Recorded, Extends
  <2>2. Len(h) \in Nat /\ Len(g) \in Nat /\ Len(h) <= Len(g) /\ n \in 0..Len(h)
    BY <2>1 DEF Continues
  <2>3. SubSeq(g, 1, n) = SubSeq(h, 1, n)
    <3> HIDE DEF n, h, g
    <3> QED BY <2>1, <2>2, ReadStays
  <2>4. ASSUME NEW k \in (n + 1)..Len(h), h[k].src = "recovery"
        PROVE  k \in (n + 1)..Len(g) /\ g[k].src = "recovery"
    BY <2>1, <2>2, <2>4 DEF Continues
  <2>5. ASSUME NEW k \in (Len(h) + 1)..Len(g) PROVE k \in (n + 1)..Len(g)
    BY <2>1, <2>2
  <2>6. Resolved(c, i) \/ Found(i) => Resolved(c, i)'
    BY <2>1, <2>4, <2>5 DEF Resolved, Found
  <2> QED BY <2>1, <2>2, <2>3, <2>6 DEF Read
<1>2. /\ rec'[c].intents = rec[c].intents
      /\ rec'[c].startup = rec[c].startup
      /\ rec'[c].uncertain = rec[c].uncertain
      /\ rec[c].blocked \subseteq rec'[c].blocked
      /\ rec[c].intents \subseteq Intents
  BY DEF Keeps, TypeInv, TypeOK, Recoveries
<1>3. \A i \in Intents : Pending(c, i)' <=> Pending(c, i)
  BY <1>1, <1>2 DEF Pending
<1>4. Vetted(c) => Vetted(c)'
  BY <1>1, <1>2, <1>3 DEF Vetted
<1> QED BY <1>1, <1>3, <1>4

LEMMA ScanVets ==
  ASSUME TypeInv, NEW w \in Workers, Scan(w)
  PROVE  Scanned(w)'
<1> DEFINE c == Home[w]
           r == rec[c]
<1>0. /\ c \in Coordinators
      /\ rec \in [ Coordinators -> Recoveries ]
      /\ r \in Recoveries
      /\ history \in [ Intents -> Seq(Event) ]
      /\ history' = history
      /\ persisted \subseteq Intents
  BY ConstantsAssumption DEF TypeInv, TypeOK, Scan, database
<1>1. PICK valid \in BOOLEAN, closed \in BOOLEAN, unsettled \in SUBSET persisted :
        rec' = [ rec EXCEPT ![c] = Triage(r, valid, closed, unsettled) ]
  BY DEF Scan
<1> DEFINE forced == Forced(r.startup, r.uncertain, unsettled, closed)
           open   == { i \in persisted \ forced :
                         /\ history[i] # << >>
                         /\ LatestState(history[i]) \in UnresolvedStates }
           usable == { i \in open : valid /\ VenueIdKnown(history[i]) }
           cancel == { i \in usable : LatestState(history[i]) = "CANCEL_PENDING" }
<1>2. /\ rec'[c].startup = r.startup
      /\ rec'[c].uncertain = r.uncertain
      /\ rec'[c].intents = persisted
      /\ rec'[c].cancels = cancel
      /\ rec'[c].reads = usable \ cancel
      /\ rec'[c].blocked = forced \cup (open \ usable)
      /\ rec'[c].read = [ i \in Intents |-> Len(history[i]) ]
  <2>1. rec'[c] = Triage(r, valid, closed, unsettled)
    BY <1>0, <1>1
  <2> QED BY <1>0, <2>1 DEF Triage, Recoveries
<1>3. \A i \in Intents : Read(c, i)' = history[i] /\ rec'[c].read[i] = Len(history[i])
  BY <1>0, <1>2, SubSeqFull DEF Read
<1>4. ASSUME NEW i \in persisted, i \notin forced
      PROVE  /\ LegalHistory(history[i])
             /\ r.startup => history[i] # << >> /\ ~HasState(history[i], FillStates)
             /\ r.uncertain =>
                  history[i] = << >> \/ LatestState(history[i]) \in TerminalStates
  BY <1>4 DEF Forced, LegalAccount
<1>5. ASSUME NEW i \in Intents, Pending(c, i)'
      PROVE  i \in persisted /\ (i \in forced \/ i \in open)
  BY <1>2, <1>3, <1>5 DEF Pending
<1>6. Vetted(c)'
  BY <1>0, <1>2, <1>3, <1>4, <1>5 DEF Vetted
<1>7. Attended(w)'
  BY <1>2, <1>5 DEF Attended
<1>8. ~Finishes(call'[w]) /\ call'[w].pc # "report"
  <2>1. KillThen(w, "resolve") \/ Goto(w, "resolve")
    BY DEF Scan
  <2>2. call'[w].pc = "resolve" \/ (call'[w].pc = "kill" /\ call'[w].fail = "resolve")
    BY <2>1, CallAfter
  <2> QED BY <2>2 DEF Finishes, ApplyPCs
<1> QED BY <1>0, <1>3, <1>6, <1>7, <1>8 DEF Scanned

\* An owner is in no submission, and gives the recovery up when it reports.
LEMMA OwnersDoNotBegin ==
  ASSUME NEW w \in Workers, Owns(call[w])
  PROVE  ~SubmitStep(w) /\ ~Begin(w)
BY DEF Owns, RecoveryPCs, ApplyPCs, SubmitStep, DuplicateSubmission, StartClaimed,
       PrepareRefused, PrepareCollision, PrepareCommit, SignBoundary, Sign,
       PersistBoundary, SubmitBoundary, Post, Classify, UnknownAfterSign, Begin,
       PrepareCall, ClaimSubmission, SubmissionTaken, DeliverEvent, StartRecovery

LEMMA ReportLeaves ==
  ASSUME TypeInv, NEW w \in Workers, Begin(w) \/ Step(w), call[w].pc = "report"
  PROVE  ~Owns(call'[w])
<1>1. Report(w)
  BY OwnersDoNotBegin
  DEF Step, Owns, RecoveryPCs, ApplyStep, AppendEvent, ClaimFirstFill, Revalidate,
      Contradict, EngageKill, RecoveryStep, Scan, ResolveByRead, ResolveByCancel,
      OrderRead, TradeRead, Cancel, SendCancel, CancelResult, Confirm, Unresolved,
      CloseRecovery
<1> QED BY <1>1, ContinueCall DEF Report, RecoveryPCs

LEMMA ResolveKeeps ==
  ASSUME IInv, ShapeInv, OwnerInv, ResolveInv, TypeInv', NEW w \in Workers,
         Begin(w) \/ Step(w)
  PROVE  ResolveInv'
<1>0. /\ TypeInv
      /\ Home \in [ Workers -> Coordinators ]
      /\ Recorded
      /\ killed => killed'
      /\ Owner(w)
      /\ \A v \in Workers \ { w } : call'[v] = call[v]
  BY ConstantsAssumption, HistoryStep, KillStays, StepOwner, OthersStay DEF IInv
<1>1. ASSUME NEW v \in Workers \ { w }, Owns(call'[v]), call'[v].pc # "scan"
      PROVE  Scanned(v)'
  <2>1. /\ call'[v] = call[v]
        /\ Home[v] \in Coordinators
        /\ Owns(call[v])
        /\ Scanned(v)
    BY <1>0, <1>1 DEF ResolveInv
  <2>2. rec'[Home[v]] = rec[Home[v]]
    BY <2>1, OthersKeepRec
  <2>3. Keeps(Home[v])
    BY <2>2 DEF Keeps
  <2>4. /\ \A i \in Intents :
             /\ rec'[Home[v]].read[i] <= Len(history'[i])
             /\ Pending(Home[v], i)' <=> Pending(Home[v], i)
             /\ Resolved(Home[v], i) => Resolved(Home[v], i)'
        /\ Vetted(Home[v])'
    BY <1>0, <2>1, <2>3, KnowledgeStays DEF Scanned
  <2>5. Attended(v)'
    BY <2>1, <2>2, <2>4 DEF Scanned, Attended
  <2> QED BY <1>0, <2>1, <2>2, <2>4, <2>5 DEF Scanned
<1>2. ASSUME Owns(call'[w]), call'[w].pc # "scan"
      PROVE  Scanned(w)'
  <2>0. Home[w] \in Coordinators
    BY <1>0
  <2>1. Proceeds(w)
    BY <1>0, <1>2 DEF Owner, Bystands, Enters, Leaves
  <2>2. CASE Scan(w)
    BY <1>0, <2>2, ScanVets
  <2>3. CASE ~Scan(w)
    <3>1. /\ Owns(call[w])
          /\ call[w].pc # "scan"
          /\ Scanned(w)
          /\ call'[w].pc = "report" => killed' \/ rec[Home[w]].blocked = {}
      BY <2>1, <2>3 DEF Proceeds, ResolveInv
    <3>2. call[w].pc # "report"
      BY <1>0, <1>2, <3>1, ReportLeaves
    <3>3. Carries(w)
      <4>1. ~SubmitStep(w) /\ ~Begin(w)
        BY <3>1, OwnersDoNotBegin
      <4> QED BY <1>0, <3>1, <3>2, <4>1, ApplyStepCarries, RecoveryStepCarries DEF Step
    <3>4. /\ \A i \in Intents :
               /\ rec'[Home[w]].read[i] <= Len(history'[i])
               /\ Pending(Home[w], i)' <=> Pending(Home[w], i)
               /\ Resolved(Home[w], i) \/ Found(i) => Resolved(Home[w], i)'
          /\ Vetted(Home[w])'
      BY <1>0, <2>0, <3>1, <3>3, KnowledgeStays DEF Scanned, Carries
    <3>5. Attended(w)'
      <4> SUFFICES ASSUME NEW i \in Intents, Pending(Home[w], i)'
                   PROVE  \/ i \in rec'[Home[w]].blocked \cup rec'[Home[w]].reads
                                     \cup rec'[Home[w]].cancels
                          \/ Works(call'[w], i)
                          \/ Resolved(Home[w], i)'
        BY DEF Attended
      <4>1. \/ i \in rec[Home[w]].blocked
            \/ i \in rec[Home[w]].reads \cup rec[Home[w]].cancels
            \/ Works(call[w], i)
            \/ Resolved(Home[w], i)
        BY <3>1, <3>4 DEF Scanned, Attended
      <4> QED BY <3>3, <3>4, <4>1 DEF Carries, Keeps
    <3>6. Finishes(call'[w]) => rec'[Home[w]].reads \cup rec'[Home[w]].cancels = {}
      BY <3>1, <3>3 DEF Carries, Keeps, Scanned
    <3>7. call'[w].pc = "report" => killed' \/ rec'[Home[w]].blocked = {}
      BY <3>1, <3>3 DEF Carries
    <3> QED BY <3>4, <3>5, <3>6, <3>7 DEF Scanned
  <2> QED BY <2>2, <2>3
<1> QED BY <1>1, <1>2 DEF ResolveInv

CompleteInv == RecoveryInv /\ ResolveInv

LEMMA CompleteInvInit == Init => CompleteInv
<1> SUFFICES ASSUME Init PROVE CompleteInv
  OBVIOUS
<1>1. \A w \in Workers : call[w] = Idle /\ Idle.pc = "idle"
  BY DEF Init, Idle
<1>2. ResolveInv
  BY <1>1 DEF ResolveInv, Owns, RecoveryPCs, ApplyPCs
<1> QED BY <1>2, RecoveryInvInit DEF CompleteInv

LEMMA CompleteInvNext == CompleteInv /\ [Next]_vars => CompleteInv'
<1> SUFFICES ASSUME CompleteInv, [Next]_vars PROVE CompleteInv'
  OBVIOUS
<1> USE DEF ledger, database, memory, ports
<1>0. /\ IInv /\ TypeInv /\ ShapeInv /\ OwnerInv /\ ResolveInv
      /\ RecoveryInv' /\ TypeInv'
  BY RecoveryInvNext DEF CompleteInv, RecoveryInv, IInv
<1>1. CASE \E w \in Workers : Begin(w) \/ Step(w)
  BY <1>0, <1>1, ResolveKeeps DEF CompleteInv
<1>2. CASE Reconcile \/ UNCHANGED vars
  <2>1. UNCHANGED << history, killed, call, rec >>
    BY <1>2 DEF Reconcile, vars
  <2> QED BY <1>0, <2>1 DEF CompleteInv, ResolveInv, Scanned, Vetted, Attended, Pending,
                            Resolved, Read
<1>3. CASE Restart
  <2>1. \A w \in Workers : call'[w] = Idle /\ Idle.pc = "idle"
    BY <1>0, <1>3 DEF Restart, Idle, TypeInv, TypeOK
  <2> QED BY <1>0, <2>1 DEF CompleteInv, ResolveInv, Owns, RecoveryPCs, ApplyPCs
<1> QED BY <1>1, <1>2, <1>3 DEF Next

\* RECOVERY_COMPLETE is reported only by a recovery that read legal histories and
\* gave every order it met unresolved a state an authoritative read had shown,
\* whatever other threads and coordinators stored meanwhile.
THEOREM CompleteResolves == Spec => []CompleteMeansResolved
<1>1. CompleteInv => CompleteMeansResolved
  <2> SUFFICES ASSUME CompleteInv, NEW w \in Workers,
                      call[w].pc = "report", Complete(Home[w]),
                      NEW i \in rec[Home[w]].intents, Read(Home[w], i) # << >>
               PROVE  /\ LegalHistory(Read(Home[w], i))
                      /\ LatestState(Read(Home[w], i)) \in UnresolvedStates =>
                           VenueIdKnown(Read(Home[w], i)) /\ Resolved(Home[w], i)
    BY DEF CompleteMeansResolved, Resolved
  <2>1. /\ Scanned(w)
        /\ rec[Home[w]].blocked = {}
        /\ ~Works(call[w], i)
        /\ i \in Intents
    BY ConstantsAssumption
    DEF CompleteInv, RecoveryInv, IInv, TypeInv, TypeOK, Recoveries, ResolveInv, Owns,
        RecoveryPCs, Complete, Works, Resolving
  <2> QED BY <2>1 DEF Scanned, Vetted, Attended, Finishes, Pending
<1> QED BY <1>1, CompleteInvInit, CompleteInvNext, PTL DEF Spec

\* A recovery that ends without a kill has met no exposure: a startup, no fill
\* and no stored intent without a history; a stream gap or an uncertain
\* heartbeat, no history that is not over.
THEOREM ExposureStops == Spec => []ExposureKills
<1>1. CompleteInv => ExposureKills
  <2> SUFFICES ASSUME CompleteInv, NEW w \in Workers,
                      call[w].pc = "report", ~killed,
                      NEW i \in rec[Home[w]].intents
               PROVE  /\ rec[Home[w]].startup =>
                           Read(Home[w], i) # << >> /\ ~HasState(Read(Home[w], i), FillStates)
                      /\ rec[Home[w]].uncertain =>
                           \/ Read(Home[w], i) = << >>
                           \/ LatestState(Read(Home[w], i)) \in TerminalStates
    BY DEF ExposureKills
  <2>1. Scanned(w)
    BY DEF CompleteInv, ResolveInv, Owns, RecoveryPCs
  <2> QED BY <2>1 DEF Scanned, Vetted
<1> QED BY <1>1, CompleteInvInit, CompleteInvNext, PTL DEF Spec


-----------------------------------------------------------------------------
(* One recovery at a time sends no acknowledged cancel again *)

\* The part of a recovery that may send a cancel.
Cancelling == { "cancel", "send_cancel", "cancel_result" }

\* Between the scan and its own cancel of an intent a recovery knows every stored
\* acknowledgement of it.
AcksKnown(w) ==
  /\ \A i \in rec[Home[w]].cancels : CancelAcks(i) = AcksRead(Home[w], i)
  /\ call[w].pc \in Cancelling =>
       /\ call[w].intent \notin rec[Home[w]].cancels
       /\ CancelAcks(call[w].intent) = AcksRead(Home[w], call[w].intent)
  /\ call[w].pc \in { "send_cancel", "cancel_result" } => CancelAcks(call[w].intent) = {}

AckInv ==
  /\ \A w \in Workers : call[w].pc = "append" => call[w].src # "cancel_ack"
  /\ \A w \in Workers : Owns(call[w]) /\ call[w].pc # "scan" => AcksKnown(w)

LEMMA AppendAcks ==
  ASSUME TypeInv, NEW i \in Intents, NEW state \in OrderStates, NEW ref \in Refs,
         NEW src \in Sources, NEW raw \in Raws, AppendTo(i, state, ref, src, raw)
  PROVE  \A j \in Intents :
           j # i \/ src # "cancel_ack" => CancelAcks(j)' = CancelAcks(j)
<1> DEFINE e == [ state |-> state, ref |-> ref, src |-> src, raw |-> raw ]
<1>1. e \in Event /\ e.src = src
  BY DEF Event
<1>2. /\ history \in [ Intents -> Seq(Event) ]
      /\ history' = [ history EXCEPT ![i] = Append(history[i], e) ]
  BY DEF TypeInv, TypeOK, AppendTo
<1> HIDE DEF e
<1>3. \A j \in Intents \ { i } : history'[j] = history[j]
  BY <1>2
<1>4. ASSUME src # "cancel_ack" PROVE CancelAcks(i)' = CancelAcks(i)
  <2> DEFINE h == history[i]
             g == history'[i]
  <2>1. /\ Len(h) \in Nat
        /\ Len(g) = Len(h) + 1
        /\ \A k \in 1..Len(h) : g[k] = h[k]
        /\ g[Len(h) + 1] = e
    BY <1>1, <1>2
  <2>2. \A k : k \in 1..Len(g) /\ g[k].src = "cancel_ack" <=>
               k \in 1..Len(h) /\ h[k].src = "cancel_ack"
    BY <1>1, <1>4, <2>1
  <2> QED BY <2>2 DEF CancelAcks
<1> QED BY <1>3, <1>4 DEF CancelAcks

\* Acknowledgements are stored where a cancel was answered, and nowhere else.
LEMMA AcksAfter ==
  ASSUME TypeInv, AckInv, NEW w \in Workers, Begin(w) \/ Step(w), NEW j \in Intents,
         CancelResult(w) => j # call[w].intent
  PROVE  CancelAcks(j)' = CancelAcks(j)
<1> USE DEF NoIntentPCs, ledger, database, memory, ports
<1>0. /\ call[w].pc \notin NoIntentPCs \cup { "kill" } => call[w].intent \in Intents
      /\ call[w].pc = "append" =>
           /\ call[w].state \in OrderStates
           /\ call[w].src \in Sources \ { "cancel_ack" }
      /\ call[w].raw \in Raws
      /\ NoBody \in Raws
      /\ { "rest", "coordinator", "cancel_ack" } \subseteq Sources
  BY DEF AckInv, TypeInv, TypeOK, CallsComplete, CompleteCall, Calls, Raws, Sources, Origins
<1>1. CASE UNCHANGED history
  BY <1>1 DEF CancelAcks
<1>2. ASSUME NEW src \in Sources, NEW state \in OrderStates, NEW ref \in Refs,
             NEW raw \in Raws, AppendTo(call[w].intent, state, ref, src, raw),
             call[w].intent \in Intents, src # "cancel_ack" \/ CancelResult(w)
      PROVE  CancelAcks(j)' = CancelAcks(j)
  BY <1>2, AppendAcks
<1>3. CASE Classify(w)
  <2>0. call[w].intent \in Intents
    BY <1>0, <1>3 DEF Classify
  <2>1. SubmittedState(call[w].code) \in OrderStates /\ "UNKNOWN" \in OrderStates
    BY DEF SubmittedState, OrderStates
  <2>2. \E state \in OrderStates, ref \in Refs, src \in { "rest", "coordinator" } :
          AppendTo(call[w].intent, state, ref, src, NoBody)
    BY <1>3, <2>1 DEF Classify, Refs
  <2> QED BY <1>0, <1>2, <2>0, <2>2
<1>4. CASE PersistBoundary(w) \/ UnknownAfterSign(w) \/ Contradict(w)
  <2>0. call[w].intent \in Intents
    BY <1>0, <1>4 DEF PersistBoundary, UnknownAfterSign, Contradict
  <2>1. UNCHANGED history \/ \E state \in { "SUBMITTING", "UNKNOWN" },
           ref \in Refs, raw \in { NoBody, call[w].raw } :
             AppendTo(call[w].intent, state, ref, "coordinator", raw)
    BY <1>4 DEF PersistBoundary, UnknownAfterSign, Contradict, Refs
  <2>2. { "SUBMITTING", "UNKNOWN" } \subseteq OrderStates
    BY DEF OrderStates
  <2> QED BY <1>0, <1>1, <1>2, <2>0, <2>1, <2>2
<1>5. CASE AppendEvent(w) \/ CancelResult(w)
  <2>0. call[w].intent \in Intents
    BY <1>0, <1>5 DEF AppendEvent, CancelResult
  <2>1. \/ UNCHANGED history
        \/ \E state \in OrderStates, src \in Sources, raw \in Raws :
             /\ AppendTo(call[w].intent, state, "venue", src, raw)
             /\ src # "cancel_ack" \/ CancelResult(w)
    BY <1>0, <1>5 DEF AppendEvent, CancelResult, OrderStates
  <2> QED BY <1>1, <1>2, <2>0, <2>1 DEF Refs
<1>6. CASE SubmitStep(w) /\ ~Classify(w) /\ ~PersistBoundary(w) /\ ~UnknownAfterSign(w)
  BY <1>1, <1>6
  DEF SubmitStep, DuplicateSubmission, StartClaimed, PrepareRefused, PrepareCollision,
      PrepareCommit, SignBoundary, Sign, SubmitBoundary, Post
<1>7. CASE (ApplyStep(w) \/ EngageKill(w)) /\ ~AppendEvent(w) /\ ~Contradict(w)
  BY <1>1, <1>7 DEF ApplyStep, ClaimFirstFill, Revalidate, EngageKill
<1>8. CASE RecoveryStep(w) /\ ~CancelResult(w)
  BY <1>1, <1>8
  DEF RecoveryStep, Scan, ResolveByRead, ResolveByCancel, OrderRead, TradeRead, Cancel,
      SendCancel, Confirm, Unresolved, CloseRecovery, Report
<1>9. CASE Begin(w)
  BY <1>1, <1>9
  DEF Begin, PrepareCall, ClaimSubmission, SubmissionTaken, DeliverEvent, StartRecovery
<1> QED BY <1>3, <1>4, <1>5, <1>6, <1>7, <1>8, <1>9 DEF Step

\* The reads of a recovery end in an application or go on to the next read.
LEMMA ReadsAfter ==
  ASSUME TypeInv, NEW w \in Workers, OrderRead(w) \/ TradeRead(w) \/ Confirm(w)
  PROVE  /\ call'[w].pc \in { "append", "contradict", "trade_read", "unresolved" }
         /\ call'[w].pc = "append" => call'[w].src = "recovery"
<1>1. CASE \E pc \in { "trade_read", "unresolved" } : Continue(w, pc)
  BY <1>1, CallAfter
<1>2. CASE ~ \E pc \in { "trade_read", "unresolved" } : Continue(w, pc)
  <2>1. PICK state, raw, inOrder, fail :
          StartApply(w, call[w].intent, state, "recovery", raw, inOrder, "resolve", fail)
    BY <1>2 DEF OrderRead, TradeRead, Confirm
  <2> QED BY <2>1, ApplyAfter
<1> QED BY <1>1, <1>2

\* Only streams and reads make events that are applied.
LEMMA AppliesNoAck ==
  ASSUME TypeInv, NEW w \in Workers, Begin(w) \/ Step(w), call'[w].pc = "append"
  PROVE  call'[w].src # "cancel_ack"
<1> USE DEF memory, ports
<1>0. call[w] \in Calls /\ call[w].ok \in OkReturns /\ call[w].fail \in FailReturns
  BY DEF TypeInv, TypeOK, Calls
<1>1. ASSUME NEW i, NEW state, NEW src \in EventIds \cup { "recovery" }, NEW raw,
             NEW inOrder, NEW ok, NEW fail,
             StartApply(w, i, state, src, raw, inOrder, ok, fail)
      PROVE  call'[w].src # "cancel_ack"
  BY <1>1, ApplyAfter, ConstantsAssumption
<1>2. CASE SubmitStep(w)
  <2>1. CASE Post(w)
    <3>1. PICK code \in SubmitCodes :
            Become(w, [ call[w] EXCEPT !.pc = "classify", !.code = code ])
      BY <2>1 DEF Post
    <3>2. call'[w] = [ call[w] EXCEPT !.pc = "classify", !.code = code ]
      BY <3>1, BecomeMoves
    <3> QED BY <1>0, <3>2 DEF Calls
  <2>2. CASE ~Post(w)
    BY <1>2, <2>2, CallAfter
    DEF SubmitStep, DuplicateSubmission, StartClaimed, PrepareRefused, PrepareCollision,
        PrepareCommit, SignBoundary, SubmitBoundary, Boundary, Sign, PersistBoundary,
        Classify, UnknownAfterSign
  <2> QED BY <2>1, <2>2
<1>3. CASE ApplyStep(w) \/ EngageKill(w)
  BY <1>0, <1>3, CallAfter
  DEF ApplyStep, AppendEvent, ClaimFirstFill, Revalidate, Contradict, EngageKill
<1>4. CASE RecoveryStep(w)
  <2>1. CASE OrderRead(w) \/ TradeRead(w) \/ Confirm(w)
    BY <2>1, ReadsAfter
  <2>2. CASE \E i \in Intents : ResolveByRead(w, i) \/ ResolveByCancel(w, i)
    <3>1. PICK i \in Intents, pc \in { "order_read", "cancel" } :
            Become(w, [ Idle EXCEPT !.pc = pc, !.intent = i ])
      BY <2>2 DEF ResolveByRead, ResolveByCancel
    <3>2. call'[w] = [ Idle EXCEPT !.pc = pc, !.intent = i ]
      BY <3>1, BecomeMoves
    <3> QED BY <3>2 DEF Idle
  <2>3. CASE SendCancel(w)
    <3>1. PICK code \in CancelCodes :
            Become(w, [ call[w] EXCEPT !.pc = "cancel_result", !.code = code ])
      BY <2>3 DEF SendCancel
    <3>2. call'[w] = [ call[w] EXCEPT !.pc = "cancel_result", !.code = code ]
      BY <3>1, BecomeMoves
    <3> QED BY <1>0, <3>2 DEF Calls
  <2>4. CASE Scan(w) \/ Cancel(w) \/ CancelResult(w) \/ Unresolved(w) \/ CloseRecovery(w)
             \/ Report(w)
    BY <2>4, CallAfter DEF Scan, Cancel, CancelResult, Unresolved, CloseRecovery, Report
  <2> QED BY <1>4, <2>1, <2>2, <2>3, <2>4 DEF RecoveryStep
<1>5. CASE Begin(w)
  <2>1. CASE \E i \in Intents :
               PrepareCall(w, i) \/ ClaimSubmission(w, i) \/ SubmissionTaken(w, i)
    <3>1. PICK i \in Intents, pc \in { "prepare_only", "claimed", "duplicate" } :
            Become(w, [ Idle EXCEPT !.pc = pc, !.intent = i ])
      BY <2>1 DEF PrepareCall, ClaimSubmission, SubmissionTaken
    <3>2. call'[w] = [ Idle EXCEPT !.pc = pc, !.intent = i ]
      BY <3>1, BecomeMoves
    <3> QED BY <3>2 DEF Idle
  <2>2. CASE \E i \in Intents, e \in EventIds : DeliverEvent(w, i, e)
    BY <1>1, <2>2 DEF DeliverEvent
  <2>3. CASE \E startup, uncertain \in BOOLEAN : StartRecovery(w, startup, uncertain)
    <3>1. call'[w] = [ Idle EXCEPT !.pc = "scan" ]
      BY <2>3, BecomeMoves DEF StartRecovery
    <3> QED BY <3>1 DEF Idle
  <2> QED BY <1>5, <2>1, <2>2, <2>3 DEF Begin
<1> QED BY <1>2, <1>3, <1>4, <1>5 DEF Step

\* A recovery comes to its cancel by three steps.
LEMMA CancellingFrom ==
  ASSUME TypeInv, NEW w \in Workers, Owns(call[w]), Begin(w) \/ Step(w),
         call'[w].pc \in Cancelling
  PROVE  \/ \E i \in Intents :
              ResolveByCancel(w, i) /\ call'[w].pc = "cancel" /\ call'[w].intent = i
         \/ /\ Cancel(w) /\ Continue(w, "send_cancel")
            /\ call'[w].pc = "send_cancel" /\ call'[w].intent = call[w].intent
         \/ /\ SendCancel(w)
            /\ call'[w].pc = "cancel_result" /\ call'[w].intent = call[w].intent
<1> USE DEF Cancelling, memory, ports
<1>0. call[w] \in Calls /\ call[w].ok \in OkReturns /\ call[w].fail \in FailReturns
  BY DEF TypeInv, TypeOK, Calls
<1>1. ~SubmitStep(w) /\ ~Begin(w)
  BY OwnersDoNotBegin
<1>2. ~(ApplyStep(w) \/ EngageKill(w))
  BY <1>0, CallAfter
  DEF ApplyStep, AppendEvent, ClaimFirstFill, Revalidate, Contradict, EngageKill
<1>3. ~(OrderRead(w) \/ TradeRead(w) \/ Confirm(w))
  BY ReadsAfter
<1>4. ~(Scan(w) \/ CancelResult(w) \/ Unresolved(w) \/ CloseRecovery(w) \/ Report(w))
  BY CallAfter DEF Scan, CancelResult, Unresolved, CloseRecovery, Report
<1>5. ASSUME NEW i \in Intents, ResolveByRead(w, i)
      PROVE  FALSE
  <2>1. call'[w] = [ Idle EXCEPT !.pc = "order_read", !.intent = i ]
    BY <1>5, BecomeMoves DEF ResolveByRead
  <2> QED BY <2>1 DEF Idle
<1>6. ASSUME NEW i \in Intents, ResolveByCancel(w, i)
      PROVE  call'[w].pc = "cancel" /\ call'[w].intent = i
  <2>1. call'[w] = [ Idle EXCEPT !.pc = "cancel", !.intent = i ]
    BY <1>6, BecomeMoves DEF ResolveByCancel
  <2> QED BY <2>1 DEF Idle
<1>7. CASE Cancel(w)
  BY <1>7, CallAfter DEF Cancel
<1>8. CASE SendCancel(w)
  <2>1. PICK code \in CancelCodes :
          Become(w, [ call[w] EXCEPT !.pc = "cancel_result", !.code = code ])
    BY <1>8 DEF SendCancel
  <2>2. call'[w] = [ call[w] EXCEPT !.pc = "cancel_result", !.code = code ]
    BY <2>1, BecomeMoves
  <2> QED BY <1>0, <1>8, <2>2 DEF Calls
<1> QED BY <1>1, <1>2, <1>3, <1>4, <1>5, <1>6, <1>7, <1>8 DEF Step, RecoveryStep

\* What a recovery knows of the acknowledgements of an intent stays true while
\* neither they nor the part of the history it has read change.
LEMMA AcksReadStay ==
  ASSUME NEW c, NEW i, CancelAcks(i)' = CancelAcks(i), rec'[c].read = rec[c].read
  PROVE  AcksRead(c, i)' = AcksRead(c, i)
BY DEF AcksRead

\* After its scan a recovery has read every acknowledgement.
LEMMA ScanReadsAcks ==
  ASSUME TypeInv, NEW w \in Workers, Scan(w)
  PROVE  AcksKnown(w)'
<1> DEFINE c == Home[w]
           r == rec[c]
<1>0. /\ c \in Coordinators
      /\ rec \in [ Coordinators -> Recoveries ]
      /\ r \in Recoveries
      /\ history \in [ Intents -> Seq(Event) ]
      /\ history' = history
      /\ persisted \subseteq Intents
  BY ConstantsAssumption DEF TypeInv, TypeOK, Scan, database
<1>1. PICK valid \in BOOLEAN, closed \in BOOLEAN, unsettled \in SUBSET persisted :
        rec' = [ rec EXCEPT ![c] = Triage(r, valid, closed, unsettled) ]
  BY DEF Scan
<1>2. rec'[c] = Triage(r, valid, closed, unsettled)
  BY <1>0, <1>1
<1>3. /\ rec'[c].read = [ i \in Intents |-> Len(history[i]) ]
      /\ rec'[c].cancels \subseteq persisted
  BY <1>0, <1>2 DEF Triage, Recoveries
<1>4. \A i \in Intents : CancelAcks(i)' = AcksRead(c, i)'
  <2> SUFFICES ASSUME NEW i \in Intents PROVE CancelAcks(i)' = AcksRead(c, i)'
    OBVIOUS
  <2>1. Len(history[i]) \in Nat /\ rec'[c].read[i] = Len(history'[i])
    BY <1>0, <1>3
  <2> QED BY <1>0, <2>1 DEF CancelAcks, AcksRead
<1>5. call'[w].pc \in { "kill", "resolve" }
  <2>1. KillThen(w, "resolve") \/ Goto(w, "resolve")
    BY DEF Scan
  <2> QED BY <2>1, CallAfter
<1> QED BY <1>0, <1>3, <1>4, <1>5 DEF AcksKnown, Cancelling

LEMMA AckKeeps ==
  ASSUME \A v, w \in Workers : Home[v] = Home[w],
         CompleteInv, AckInv, NEW w \in Workers, Begin(w) \/ Step(w)
  PROVE  AckInv'
<1>0. /\ IInv /\ TypeInv /\ OwnerInv
      /\ Home \in [ Workers -> Coordinators ]
      /\ rec \in [ Coordinators -> Recoveries ]
      /\ CallsComplete
      /\ Owner(w)
      /\ \A v \in Workers \ { w } : call'[v] = call[v]
  BY ConstantsAssumption, StepOwner, OthersStay
  DEF CompleteInv, RecoveryInv, IInv, TypeInv, TypeOK
<1>1. ASSUME NEW v \in Workers, call'[v].pc = "append"
      PROVE  call'[v].src # "cancel_ack"
  BY <1>0, <1>1, AppliesNoAck DEF AckInv
<1>2. ASSUME NEW v \in Workers \ { w }, Owns(call'[v]), call'[v].pc # "scan"
      PROVE  AcksKnown(v)'
  <2>1. call'[v] = call[v] /\ Owns(call[v]) /\ AcksKnown(v)
    BY <1>0, <1>2 DEF AckInv
  <2>2. ~Owns(call[w])
    BY <1>0, <2>1 DEF OwnerInv
  <2>3. ~CancelResult(w)
    BY <2>2 DEF CancelResult, Owns, RecoveryPCs
  <2>4. \A i \in Intents : CancelAcks(i)' = CancelAcks(i)
    BY <1>0, <2>3, AcksAfter
  <2>5. rec'[Home[v]] = rec[Home[v]]
    BY <1>0, <2>1, OthersKeepRec
  <2>6. \A i \in Intents : AcksRead(Home[v], i)' = AcksRead(Home[v], i)
    BY <2>4, <2>5, AcksReadStay
  <2>7. /\ rec[Home[v]].cancels \subseteq Intents
        /\ call[v].pc \in Cancelling => call[v].intent \in Intents
    BY <1>0 DEF Recoveries, CallsComplete, CompleteCall, Cancelling
  <2> QED BY <2>1, <2>4, <2>5, <2>6, <2>7 DEF AcksKnown, Cancelling
<1>3. ASSUME Owns(call'[w]), call'[w].pc # "scan", ~Scan(w)
      PROVE  AcksKnown(w)'
  <2> DEFINE c == Home[w]
             i == call[w].intent
  <2>1. Proceeds(w)
    BY <1>0, <1>3 DEF Owner, Bystands, Enters, Leaves
  <2>2. Owns(call[w]) /\ call[w].pc # "scan" /\ AcksKnown(w)
    BY <1>3, <2>1 DEF Proceeds, AckInv
  <2>3. Keeps(c)
    <3>1. call[w].pc # "report"
      BY <1>0, <1>3, ReportLeaves
    <3>2. ~SubmitStep(w) /\ ~Begin(w)
      BY <2>2, OwnersDoNotBegin
    <3> QED BY <1>0, <2>2, <3>1, <3>2, ApplyStepCarries, RecoveryStepCarries
            DEF Step, Carries
  <2>4. /\ rec[c].cancels \subseteq Intents
        /\ rec'[c].cancels \subseteq rec[c].cancels
        /\ call[w].pc \in Cancelling => i \in Intents
    BY <1>0, <2>3 DEF Keeps, Recoveries, CallsComplete, CompleteCall, Cancelling
  <2>5. ASSUME NEW j \in Intents, CancelResult(w) => j # i
        PROVE  /\ CancelAcks(j)' = CancelAcks(j)
               /\ AcksRead(c, j)' = AcksRead(c, j)
    BY <1>0, <2>3, <2>5, AcksAfter, AcksReadStay DEF Keeps
  <2>6. \A j \in rec'[c].cancels : CancelAcks(j)' = AcksRead(c, j)'
    <3> SUFFICES ASSUME NEW j \in rec'[c].cancels PROVE CancelAcks(j)' = AcksRead(c, j)'
      OBVIOUS
    <3>1. CancelResult(w) => j # i
      BY <2>2, <2>4 DEF CancelResult, AcksKnown, Cancelling
    <3> QED BY <2>2, <2>4, <2>5, <3>1 DEF AcksKnown
  <2>7. CASE call'[w].pc \notin Cancelling
    BY <2>6, <2>7 DEF AcksKnown, Cancelling
  <2>8. CASE \E j \in Intents :
               ResolveByCancel(w, j) /\ call'[w].pc = "cancel" /\ call'[w].intent = j
    <3>1. PICK j \in Intents :
            ResolveByCancel(w, j) /\ call'[w].pc = "cancel" /\ call'[w].intent = j
      BY <2>8
    <3>2. ~CancelResult(w) /\ j \in rec[c].cancels
      BY <3>1 DEF ResolveByCancel, CancelResult
    <3>3. j \notin rec'[c].cancels
      BY <1>0, <3>1 DEF ResolveByCancel, Recoveries
    <3> QED BY <2>2, <2>5, <2>6, <3>1, <3>2, <3>3 DEF AcksKnown
  <2>9. CASE /\ Cancel(w) /\ Continue(w, "send_cancel")
             /\ call'[w].pc = "send_cancel" /\ call'[w].intent = i
    <3>1. ~CancelResult(w) /\ call[w].pc = "cancel"
      BY <2>9 DEF Cancel, CancelResult
    <3>2. ~Continue(w, "confirm") /\ ~Continue(w, "unresolved")
      BY <1>0, <2>9, CallAfter
    <3>3. AcksRead(c, i) = {}
      BY <2>9, <3>2 DEF Cancel
    <3> QED BY <2>2, <2>4, <2>5, <2>6, <2>9, <3>1, <3>3 DEF AcksKnown, Cancelling
  <2>10. CASE /\ SendCancel(w)
              /\ call'[w].pc = "cancel_result" /\ call'[w].intent = i
    <3>1. ~CancelResult(w) /\ call[w].pc = "send_cancel"
      BY <2>10 DEF SendCancel, CancelResult
    <3> QED BY <2>2, <2>4, <2>5, <2>6, <2>10, <3>1 DEF AcksKnown, Cancelling
  <2> QED BY <1>0, <2>2, <2>7, <2>8, <2>9, <2>10, CancellingFrom
<1> QED BY <1>0, <1>1, <1>2, <1>3, ScanReadsAcks DEF AckInv

LEMMA AckInvInit == Init => AckInv
<1> SUFFICES ASSUME Init PROVE AckInv
  OBVIOUS
<1>1. \A w \in Workers : call[w] = Idle /\ Idle.pc = "idle"
  BY DEF Init, Idle
<1> QED BY <1>1 DEF AckInv, Owns, RecoveryPCs, ApplyPCs

LEMMA AckInvNext ==
  ASSUME \A v, w \in Workers : Home[v] = Home[w]
  PROVE  CompleteInv /\ AckInv /\ [Next]_vars => AckInv'
<1> SUFFICES ASSUME CompleteInv, AckInv, [Next]_vars PROVE AckInv'
  OBVIOUS
<1> USE DEF ledger, database, memory, ports
<1>1. CASE \E w \in Workers : Begin(w) \/ Step(w)
  BY <1>1, AckKeeps
<1>2. CASE Reconcile \/ UNCHANGED vars
  <2>1. UNCHANGED << history, call, rec >>
    BY <1>2 DEF Reconcile, vars
  <2> QED BY <2>1 DEF AckInv, AcksKnown, AcksRead, CancelAcks
<1>3. CASE Restart
  <2>1. \A w \in Workers : call'[w] = Idle /\ Idle.pc = "idle"
    BY <1>3 DEF Restart, Idle
  <2> QED BY <2>1 DEF AckInv, Owns, RecoveryPCs, ApplyPCs
<1> QED BY <1>1, <1>2, <1>3 DEF Next

\* Only SendCancel sends a cancel, and the intent it is for is the call's.
LEMMA CancelsSent ==
  ASSUME TypeInv, [Next]_vars, NEW i \in Intents, cancels'[i] > cancels[i]
  PROVE  \E w \in Workers : SendCancel(w) /\ call[w].intent = i
<1> USE DEF ledger, database, memory, ports
<1>0. cancels \in [ Intents -> Nat ]
  BY DEF TypeInv, TypeOK
<1>1. cancels' # cancels
  BY <1>0
<1>2. PICK w \in Workers : Begin(w) \/ Step(w)
  BY <1>1 DEF Next, Reconcile, Restart, vars
<1>3. ~Begin(w) /\ ~SubmitStep(w)
  BY <1>1
  DEF Begin, PrepareCall, ClaimSubmission, SubmissionTaken, DeliverEvent, StartRecovery,
      SubmitStep, DuplicateSubmission, StartClaimed, PrepareRefused, PrepareCollision,
      PrepareCommit, SignBoundary, Sign, PersistBoundary, SubmitBoundary, Post, Classify,
      UnknownAfterSign
<1>4. ~(ApplyStep(w) \/ EngageKill(w))
  BY <1>1 DEF ApplyStep, AppendEvent, ClaimFirstFill, Revalidate, Contradict, EngageKill
<1>5. SendCancel(w)
  BY <1>1, <1>2, <1>3, <1>4
  DEF Step, RecoveryStep, Scan, ResolveByRead, ResolveByCancel, OrderRead, TradeRead, Cancel,
      CancelResult, Confirm, Unresolved, CloseRecovery, Report
<1>6. cancels' = [ cancels EXCEPT ![call[w].intent] = cancels[call[w].intent] + 1 ]
  BY <1>5 DEF SendCancel
<1>7. call[w].intent = i
  BY <1>0, <1>6
<1> QED BY <1>5, <1>7

\* Where all threads share one coordinator, no recovery, of this or a later life of
\* the process, sends a cancel whose acknowledgement is stored: the flag keeps
\* other recoveries out between the read of the history and the cancel.
THEOREM AckedCancels ==
  ASSUME \A v, w \in Workers : Home[v] = Home[w]
  PROVE  Spec => AckedCancelNotResent
<1>1. CompleteInv /\ AckInv /\ [Next]_vars =>
        [ \A i \in Intents : cancels'[i] > cancels[i] => CancelAcks(i) = {} ]_vars
  <2> SUFFICES ASSUME CompleteInv, AckInv, [Next]_vars, NEW i \in Intents,
                      cancels'[i] > cancels[i]
               PROVE  CancelAcks(i) = {}
    OBVIOUS
  <2>1. PICK w \in Workers : SendCancel(w) /\ call[w].intent = i
    BY CancelsSent DEF CompleteInv, RecoveryInv, IInv
  <2> QED BY <2>1 DEF SendCancel, AckInv, AcksKnown, Owns, RecoveryPCs
<1>2. Init => CompleteInv /\ AckInv
  BY CompleteInvInit, AckInvInit
<1>3. CompleteInv /\ AckInv /\ [Next]_vars => CompleteInv' /\ AckInv'
  BY CompleteInvNext, AckInvNext
<1> QED BY <1>1, <1>2, <1>3, PTL DEF Spec, AckedCancelNotResent
=============================================================================
