------------------------ MODULE CoordinatorProperties ------------------------
(***************************************************************************)
(* What ExecutionCoordinator promises, across restarts and whatever the    *)
(* order in which threads and coordinators take their steps.               *)
(***************************************************************************)
EXTENDS ExecutionCoordinator

\* The workers that are between signer.submit and the end of the call on i.
AnswerPending(i) ==
  \E w \in Workers : call[w].intent = i /\ call[w].pc \in { "classify", "kill" }

\* The part of i's history the running recovery has read.
Read(c, i) == SubSeq(history[i], 1, rec[c].read[i])

-----------------------------------------------------------------------------
(* The abstract submission *)

\* How far intent i has come.  Only the claims, the envelope and a call that
\* is at signer.submit tell.
PhaseOf(i) ==
  CASE posts[i] > 0 -> "sent"
    [] posts[i] = 0 /\ \E w \in Workers : call[w].pc = "send" /\ call[w].intent = i
         -> "committed"
    [] OTHER -> IF i \in envelopes THEN "ready"
                ELSE IF i \in claims THEN "claimed" ELSE "new"

AtMostOnce == INSTANCE AtMostOnceSubmission
                WITH phase <- [ i \in Intents |-> PhaseOf(i) ], halted <- killed

\* submit_intent carries each intent through claim, durable boundary, last
\* test and venue call once, in this order, never passes the last test after
\* a kill, and a restart only ever leaves an unsent intent behind.
SubmissionRefines == AtMostOnce!Spec

-----------------------------------------------------------------------------
(* Safety *)

\* An intent reaches the venue at most once: not from two threads, two
\* coordinators or two lives of the process (claim_execution_intent_submission
\* and the tests of submit_intent).
AtMostOneSubmission == \A i \in Intents : posts[i] <= 1

\* What recovery needs is stored before the venue is contacted: plan and
\* intent, envelope, and the SUBMITTING event.
BoundaryBeforeVenue ==
  \A i \in Intents :
    posts[i] > 0 => /\ i \in persisted \cap envelopes
                    /\ HasState(history[i], { "SUBMITTING" })

\* The order may be at the venue under an id nobody stored; a request that was
\* never built, and is stored as REJECTED, is not.
Lost(i) == /\ posts[i] > 0
           /\ ~VenueIdKnown(history[i])
           /\ ~HasState(history[i], { "REJECTED" })

\* A lost order is never
\* forgotten: either the call that posted it is still to store the answer or
\* engage the kill, or the account is killed, or the process has restarted and
\* startup recovery has yet to run.  Afterwards the account is killed.
LostOrderIsKilled ==
  \A i \in Intents :
    Lost(i) =>
      \/ killed
      \/ AnswerPending(i)
      \/ restarts > 0 /\ scanned = {}

\* Where no restart cuts a call short, every UNKNOWN in a history goes with a
\* kill that is stored or is the next step of the call that appended it.
UnknownIsKilled ==
  restarts = 0 =>
    \A i \in Intents :
      HasState(history[i], { "UNKNOWN" }) =>
        killed \/ \E w \in Workers : call[w].pc = "kill" /\ call[w].intent = i

\* revalidate_after_fill runs at most once for an intent, even when two fills,
\* or one fill twice, are applied at the same time (claim_execution_first_fill).
OneRevalidation == \A i \in Intents : revalidations[i] <= 1

\* A first fill that was applied without a decision on the remaining legs does
\* not go unnoticed: while the process lives, the event that holds the claim
\* is being decided, was decided by the callback, or the account is killed.
FirstFillDecided ==
  restarts = 0 =>
    \A i \in Intents :
      firstFill[i] # "none" /\ revalidations[i] = 0 =>
        \/ killed
        \/ \E w \in Workers :
             call[w].intent = i /\ call[w].pc \in { "revalidate", "kill" }

\* Once a kill is stored no call enters the window before a venue mutation;
\* only the calls that passed their last test before the kill are still in it.
InWindow(w) == call[w].pc \in { "sign", "send", "send_cancel" }

KillClosesWindow ==
  [][ killed => \A w \in Workers : InWindow(w)' => InWindow(w) ]_vars

\* With one recovery at a time, a cancel whose acknowledgement is stored is not
\* sent again, in this or a later life of the process.
AckedCancelNotResent ==
  [][ \A i \in Intents : cancels'[i] > cancels[i] => CancelAcks(i) = {} ]_vars

\* A recovery that is about to report RECOVERY_COMPLETE has read only legal
\* histories, and each intent it read in an unresolved state has a venue id and
\* got a new state from an authoritative read.
CompleteMeansResolved ==
  \A w \in Workers :
    LET c == Home[w] IN
    call[w].pc = "report" /\ Complete(c) =>
      \A i \in rec[c].intents :
        Read(c, i) # << >> =>
          /\ LegalHistory(Read(c, i))
          /\ LatestState(Read(c, i)) \in UnresolvedStates =>
               /\ VenueIdKnown(Read(c, i))
               /\ \E k \in (rec[c].read[i] + 1)..Len(history[i]) :
                    history[i][k].src = "recovery"

\* A recovery that ends without a kill has met no exposure of the kind it was
\* called for: a startup, no fill and no intent that was stored but never
\* submitted; a stream gap or an uncertain heartbeat, no history that is not
\* over.  Those wait for an operator.
ExposureKills ==
  \A w \in Workers :
    LET c == Home[w] IN
    call[w].pc = "report" /\ ~killed =>
      \A i \in rec[c].intents :
        /\ rec[c].startup => Read(c, i) # << >> /\ ~HasState(Read(c, i), FillStates)
        /\ rec[c].uncertain =>
             Read(c, i) = << >> \/ LatestState(Read(c, i)) \in TerminalStates

\* Without the test-only kill state, or with an engaged one, nothing is ever
\* signed, posted or cancelled.
StartsInert ==
  StartsKilled => /\ \A i \in Intents : posts[i] = 0 /\ cancels[i] = 0
                  /\ \A w \in Workers : ~InWindow(w)
                  /\ persisted = {}

-----------------------------------------------------------------------------
(* Liveness *)

\* While the process lives, an order at the venue gets its venue id stored or
\* the account is killed.
LostOrderEventuallyKilled ==
  \A i \in Intents :
    Lost(i) ~> (~Lost(i) \/ killed)

\* A recovery ends, and with it the RECOVERY_REQUIRED answer of prepare().
RecoveryEnds == \A c \in Coordinators : recovering[c] ~> ~recovering[c]

-----------------------------------------------------------------------------
(* What the documentation says and the code does not do *)

\* polymarket-execution-hardening.md: recovery ends "before considering any state
\* resolved", and order, trade and ledger state have to "agree at one cutoff".  A
\* recovery that reports RECOVERY_COMPLETE leaves events a reconciliation can close.
CompleteIsReconcilable ==
  \A w \in Workers :
    call[w].pc = "report" /\ Complete(Home[w]) => Reconcilable

\* polymarket-execution-hardening.md, "Heartbeat failure": "Stop new intents,
\* engage the kill switch".  A recovery that was told of a stream gap or an
\* uncertain heartbeat does not end with an order on its way and no kill.
UncertaintyKills ==
  \A w \in Workers :
    call[w].pc = "report" /\ rec[Home[w]].uncertain =>
      killed \/ ~ \E v \in Workers : call[v].pc \in { "sign", "send" }

\* polymarket-execution-hardening.md, "Reconciliation mismatch": a contradictory
\* history "keeps the account killed".  Recovery does not report RECOVERY_COMPLETE over
\* an illegal history unless the account is killed, or a call is about to kill it.
CompleteIsLegal ==
  \A w \in Workers :
    call[w].pc = "report" /\ Complete(Home[w]) =>
      killed \/ LegalAccount \/ \E v \in Workers : call[v].pc \in { "contradict", "kill" }

-----------------------------------------------------------------------------
(* The strengthening behind the safety of submission *)

\* The places in submit_intent from which the venue can still be reached.
Pipeline == { "claimed", "prepare", "envelope", "sign", "boundary",
              "send_check", "send" }

Holds(w, i) == call[w].pc \in Pipeline /\ call[w].intent = i

\* A call that is about one intent knows which, and a call that is about to
\* append an event knows the event.
CompleteCall(r) ==
  /\ \/ r.intent \in Intents
     \/ r.pc \in { "idle", "scan", "resolve", "report" }
     \/ r.pc = "kill" /\ r.fail \notin { "trade_read", "unresolved" }
  /\ r.pc = "append" => r.state \in OrderStates /\ r.src \in Sources

CallsComplete == \A w \in Workers : CompleteCall(call[w])

\* The claim admits one worker at a time to the pipeline of an intent, before
\* the venue call, and what a worker has passed is stored.  No single test of
\* submit_intent says so: it takes the permanent claim, the order of the
\* writes, and that a kill or an applied event never leads back into it.
SubmissionInv ==
  /\ \A w \in Workers, i \in Intents :
       Holds(w, i) => i \in claims /\ posts[i] = 0
  /\ \A v, w \in Workers, i \in Intents :
       Holds(v, i) /\ Holds(w, i) => v = w
  /\ \A w \in Workers :
       call[w].pc \in Pipeline \ { "claimed", "prepare" } =>
         call[w].intent \in persisted
  /\ \A w \in Workers :
       call[w].pc \in { "send_check", "send" } =>
         /\ call[w].intent \in envelopes
         /\ HasState(history[call[w].intent], { "SUBMITTING" })
  /\ \A i \in Intents \ claims : posts[i] = 0 /\ i \notin envelopes
  /\ envelopes \subseteq persisted
  /\ \A c \in Coordinators : prepared[c] \subseteq persisted
=============================================================================
