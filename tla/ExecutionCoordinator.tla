------------------------ MODULE ExecutionCoordinator ------------------------
(***************************************************************************)
(* predictions/execution/coordinator.py over the append-only execution     *)
(* tables of predictions/storage/store.py.                                 *)
(*                                                                         *)
(* Workers are the threads that call the public methods of a coordinator   *)
(* (submit_intent, prepare, apply_order_event, recover_account and         *)
(* recover_on_startup); Home says which coordinator object each one calls. *)
(* Coordinators hold no lock and share one database, so a worker can be    *)
(* overtaken between any two store operations or port calls: each is one   *)
(* action here, and the worker's program counter says which comes next.    *)
(* A restart loses what the coordinators hold in memory and keeps the      *)
(* tables.                                                                 *)
(***************************************************************************)
EXTENDS OrderLifecycle, FiniteSets

CONSTANTS
  Intents,        \* execution intents of the one account
  NoIntent,       \* "no intent", for a worker outside a call
  FokIntents,     \* the intents whose order type is FOK (the others are FAK)
  Coordinators,   \* coordinator objects open on the database
  Workers,        \* threads that call them
  Home,           \* the coordinator each worker calls
  Submitters,     \* the workers that prepare and submit
  Deliverers,     \* the workers that deliver stream events
  Recoverers,     \* the workers that run recovery
  EventIds,       \* the stream events the venue may send
  FeedStates,     \* the order states those events may carry
  OrderBodies,    \* response bodies of the open-orders read
  TradeBodies,    \* response bodies of the trades read
  NoBody,         \* "no body of a read or frame": evidence nothing else shares
  StartsKilled,   \* no test-only kill state, or an engaged one: the default
  MaxRestarts,    \* bound: process restarts
  MaxHistory      \* bound: history length from which no new call appends

ASSUME ConstantsAssumption ==
  /\ NoIntent \notin Intents
  /\ FokIntents \subseteq Intents
  /\ Home \in [Workers -> Coordinators]
  /\ Submitters \subseteq Workers
  /\ Deliverers \subseteq Workers
  /\ Recoverers \subseteq Workers
  /\ FeedStates \subseteq OrderStates
  /\ EventIds \cap { "none", "rest", "coordinator", "recovery", "cancel_ack" } = {}
  /\ OrderBodies \cap TradeBodies = {}
  /\ EventIds \cap (OrderBodies \cup TradeBodies) = {}
  /\ NoBody \notin EventIds \cup OrderBodies \cup TradeBodies
  /\ StartsKilled \in BOOLEAN
  /\ MaxRestarts \in Nat
  /\ MaxHistory \in Nat

VARIABLES
  \* the database
  claims,         \* intents whose SUBMIT_INTENT operation is claimed
  persisted,      \* intents stored together with their plan
  envelopes,      \* intents whose signed envelope is stored
  history,        \* order events stored for each intent
  firstFill,      \* the event that holds the FIRST_FILL claim, or "none"
  trades,         \* the body that holds the confirmed trades stored for it
  unreconciled,   \* intents with stored trade events no reconciliation covers
  killed,         \* some kill event is stored for the account
  \* the memory of the coordinators and their callers
  prepared,       \* _prepared: the intents with an evidence snapshot
  recovering,     \* _recovering
  rec,            \* the local state of the running recovery
  scanned,        \* coordinators that have finished a startup recovery
  call,           \* the call each worker is in
  \* what the ports have seen
  feed,           \* the state each stream event carries, once sent
  posts,          \* signer.submit calls for each intent
  cancels,        \* signer.cancel calls for each intent
  revalidations,  \* revalidate_after_fill callbacks for each intent
  restarts

ledger   == << trades, unreconciled >>
database == << claims, persisted, envelopes, history, firstFill, ledger,
               killed >>
memory   == << prepared, recovering, rec, scanned, call >>
ports    == << feed, posts, cancels, revalidations >>
vars     == << database, memory, ports, restarts >>

Origins == { "rest", "coordinator", "recovery", "cancel_ack" }
Sources == Origins \cup EventIds
Raws    == EventIds \cup OrderBodies \cup TradeBodies \cup { NoBody }
Event   == [ state : OrderStates, ref : Refs, src : Sources, raw : Raws ]

\* Outcomes of signer.submit: the codes allowed on the SUBMIT_ORDER route,
\* and FAILED for an exception, a foreign route or an impossible timestamp.
Acks        == { "ORDER_ACK_MATCHED", "ORDER_ACK_DELAYED",
                 "ORDER_ACK_LIVE_UNEXPECTED", "ORDER_ACK_UNMATCHED" }
SubmitCodes == Acks \cup { "ORDER_OUTCOME_UNKNOWN", "AUTH_REJECTED",
                           "AUTH_REQUEST_BUILD_FAILED", "FAILED" }
CancelCodes == { "CANCEL_ACKNOWLEDGED", "CANCEL_FAILED" }

PCs == { "idle",
         "claimed", "duplicate", "prepare", "prepare_only", "envelope",
         "sign", "boundary", "send_check", "send", "classify", "unknown",
         "append", "claim_fill", "revalidate", "contradict", "kill",
         "scan", "resolve", "order_read", "trade_read", "cancel",
         "send_cancel", "cancel_result", "confirm", "unresolved", "report" }

\* Where a call continues after an event was applied, or after a kill.
OkReturns   == { "idle", "resolve" }
FailReturns == { "idle", "resolve", "trade_read", "unresolved", "report" }

Calls == [ pc : PCs, intent : Intents \cup { NoIntent },
           state : OrderStates \cup { "none" }, src : Sources \cup { "none" },
           raw : Raws, first : BOOLEAN, code : SubmitCodes \cup CancelCodes \cup { "none" },
           ok : OkReturns, fail : FailReturns ]

Idle == [ pc |-> "idle", intent |-> NoIntent, state |-> "none",
          src |-> "none", raw |-> NoBody, first |-> FALSE, code |-> "none",
          ok |-> "idle", fail |-> "idle" ]

\* A recovery: how it was called, what the reads and the ledger said, the
\* intents it scanned, those left to resolve by a read or by a cancel, those
\* blocked, how much of each history it has read, how far the times of its own
\* events reach, and the two bodies it resolves from, once it has met an order
\* in them.
Recoveries == [ startup : BOOLEAN, uncertain : BOOLEAN, valid : BOOLEAN,
                closed : BOOLEAN, intents : SUBSET Intents,
                reads : SUBSET Intents, cancels : SUBSET Intents,
                blocked : SUBSET Intents, read : [ Intents -> Nat ],
                seen : [ Intents -> Nat ],
                orders : OrderBodies \cup { NoBody },
                trades : TradeBodies \cup { NoBody } ]

NoRecovery == [ startup |-> FALSE, uncertain |-> FALSE, valid |-> FALSE,
                closed |-> FALSE, intents |-> {}, reads |-> {}, cancels |-> {},
                blocked |-> {}, read |-> [ i \in Intents |-> 0 ],
                seen |-> [ i \in Intents |-> 0 ],
                orders |-> NoBody, trades |-> NoBody ]

TypeOK ==
  /\ claims \in SUBSET Intents
  /\ persisted \in SUBSET Intents
  /\ envelopes \in SUBSET Intents
  /\ history \in [ Intents -> Seq(Event) ]
  /\ firstFill \in [ Intents -> Sources \cup { "none" } ]
  /\ trades \in [ Intents -> TradeBodies \cup { NoBody } ]
  /\ unreconciled \in SUBSET Intents
  /\ killed \in BOOLEAN
  /\ prepared \in [ Coordinators -> SUBSET Intents ]
  /\ recovering \in [ Coordinators -> BOOLEAN ]
  /\ rec \in [ Coordinators -> Recoveries ]
  /\ scanned \in SUBSET Coordinators
  /\ call \in [ Workers -> Calls ]
  /\ feed \in [ EventIds -> OrderStates \cup { "none" } ]
  /\ posts \in [ Intents -> Nat ]
  /\ cancels \in [ Intents -> Nat ]
  /\ revalidations \in [ Intents -> Nat ]
  /\ restarts \in Nat

Init ==
  /\ claims = {}
  /\ persisted = {}
  /\ envelopes = {}
  /\ history = [ i \in Intents |-> << >> ]
  /\ firstFill = [ i \in Intents |-> "none" ]
  /\ trades = [ i \in Intents |-> NoBody ]
  /\ unreconciled = {}
  /\ killed = FALSE
  /\ prepared = [ c \in Coordinators |-> {} ]
  /\ recovering = [ c \in Coordinators |-> FALSE ]
  /\ rec = [ c \in Coordinators |-> NoRecovery ]
  /\ scanned = {}
  /\ call = [ w \in Workers |-> Idle ]
  /\ feed = [ e \in EventIds |-> "none" ]
  /\ posts = [ i \in Intents |-> 0 ]
  /\ cancels = [ i \in Intents |-> 0 ]
  /\ revalidations = [ i \in Intents |-> 0 ]
  /\ restarts = 0

-----------------------------------------------------------------------------
(* Helpers *)

Become(w, r) == call' = [ call EXCEPT ![w] = r ]

\* Control moves to pc; at "idle" the call has returned, and at "resolve" and
\* "report" recovery has done with the intent at hand.
Continue(w, pc) ==
  Become(w, [ Idle EXCEPT
    !.pc = pc,
    !.intent = IF pc \in { "idle", "resolve", "report" } THEN NoIntent
               ELSE call[w].intent ])

Goto(w, pc) == Become(w, [ call[w] EXCEPT !.pc = pc ])

\* _engage_kill is the next thing the call does; it then continues at `then`.
KillThen(w, then) ==
  Become(w, [ call[w] EXCEPT !.pc = "kill", !.fail = then ])

\* Mutant: the constructor's kill state is not consulted.
KilledStored == killed

\* _killed: any stored kill event, or the constructor's kill state.
Killed == killed \/ StartsKilled

\* raw is what the raw_event_hash is the hash of, where two events can share it.
AppendTo(i, state, ref, src, raw) ==
  history' = [ history EXCEPT
    ![i] = Append(@, [ state |-> state, ref |-> ref, src |-> src, raw |-> raw ]) ]

Prepare(c, i) == prepared' = [ prepared EXCEPT ![c] = @ \cup { i } ]

-----------------------------------------------------------------------------
(* prepare and submit_intent *)

\* The tests at the head of prepare() let an intent through to validation.
Admissible(c, i) == ~recovering[c] /\ ~Killed /\ i \notin persisted

\* prepare() called on its own; a call that is refused at once, or finds the
\* intent already prepared, changes nothing.
PrepareCall(w, i) ==
  /\ call[w].pc = "idle"
  /\ i \notin prepared[Home[w]]
  /\ Admissible(Home[w], i)
  /\ Become(w, [ Idle EXCEPT !.pc = "prepare_only", !.intent = i ])
  /\ UNCHANGED << database, prepared, recovering, rec, scanned, ports, restarts >>

\* The preflight and authority callbacks have returned.  A refusal, stale or
\* foreign evidence or a denied authority writes nothing; otherwise plan and
\* intent are stored in one transaction, which is rolled back when the plan id
\* is taken by another plan.  Storing the same intent again is not a conflict,
\* and neither killed nor recovering is tested again here.
PrepareRefused(w) ==
  /\ call[w].pc \in { "prepare", "prepare_only" }
  /\ Continue(w, "idle")
  /\ UNCHANGED << database, prepared, recovering, rec, scanned, ports, restarts >>

PrepareCollision(w) ==
  /\ call[w].pc \in { "prepare", "prepare_only" }
  /\ IF call[w].pc = "prepare" THEN KillThen(w, "idle") ELSE Continue(w, "idle")
  /\ UNCHANGED << database, prepared, recovering, rec, scanned, ports, restarts >>

PrepareCommit(w) ==
  LET i == call[w].intent IN
  /\ call[w].pc \in { "prepare", "prepare_only" }
  /\ persisted' = persisted \cup { i }
  /\ Prepare(Home[w], i)
  /\ Continue(w, IF call[w].pc = "prepare" THEN "envelope" ELSE "idle")
  /\ UNCHANGED << claims, envelopes, history, firstFill, ledger, killed,
                  recovering, rec, scanned, ports, restarts >>

\* Mutant: the claim table has no primary key.
ClaimSubmissionUnchecked(w, i) ==
  /\ call[w].pc = "idle"
  /\ claims' = claims \cup { i }
  /\ Become(w, [ Idle EXCEPT !.pc = "claimed", !.intent = i ])
  /\ UNCHANGED << persisted, envelopes, firstFill, ledger, history,
                  killed, prepared, recovering, rec, scanned, ports, restarts >>

\* claim_execution_intent_submission comes before any other test: the insert
\* either creates the permanent claim or finds it taken.
ClaimSubmission(w, i) ==
  /\ call[w].pc = "idle"
  /\ i \notin claims
  /\ claims' = claims \cup { i }
  /\ Become(w, [ Idle EXCEPT !.pc = "claimed", !.intent = i ])
  /\ UNCHANGED << persisted, envelopes, history, firstFill, ledger,
                  killed, prepared, recovering, rec, scanned, ports, restarts >>

SubmissionTaken(w, i) ==
  /\ call[w].pc = "idle"
  /\ i \in claims
  /\ Become(w, [ Idle EXCEPT !.pc = "duplicate", !.intent = i ])
  /\ UNCHANGED << database, prepared, recovering, rec, scanned, ports, restarts >>

\* The loser kills unless the winner may still be on its way to the venue.
DuplicateSubmission(w) ==
  LET h == history[call[w].intent] IN
  /\ call[w].pc = "duplicate"
  /\ IF h = << >> \/ LatestState(h) = "SUBMITTING"
     THEN Continue(w, "idle")
     ELSE KillThen(w, "idle")
  /\ UNCHANGED << database, prepared, recovering, rec, scanned, ports, restarts >>

\* Head of _submit_claimed_intent: no order event may exist yet, and the
\* intent must be prepared by this coordinator or pass prepare() now.  An
\* intent that is already stored but not prepared here is a duplicate.
StartClaimed(w) ==
  LET i == call[w].intent
      c == Home[w] IN
  /\ call[w].pc = "claimed"
  /\ \/ history[i] # << >> /\ KillThen(w, "idle")
     \/ /\ history[i] = << >>
        /\ \/ i \in prepared[c] /\ Continue(w, "envelope")
           \/ /\ i \notin prepared[c]
              /\ \/ recovering[c] \/ Killed
              /\ Continue(w, "idle")
           \/ /\ i \notin prepared[c] /\ i \in persisted
              /\ ~recovering[c] /\ ~Killed
              /\ KillThen(w, "idle")
           \/ /\ i \notin prepared[c]
              /\ Admissible(c, i)
              /\ Continue(w, "prepare")
  /\ UNCHANGED << database, prepared, recovering, rec, scanned, ports, restarts >>

\* Mutant: killed is only tested by prepare().
BoundaryKillUnchecked(w, next) ==
  \/ Continue(w, "idle")
  \/ /\ call[w].intent \in prepared[Home[w]]
     /\ KillThen(w, "idle") \/ Continue(w, next)

\* _fresh_mutation_evidence, as of its tests after the authority callback:
\* killed, without a snapshot or with stale evidence the call returns; a
\* denied authority kills; otherwise the mutation at `next` may follow.
Boundary(w, next) ==
  \/ Continue(w, "idle")
  \/ /\ ~Killed
     /\ call[w].intent \in prepared[Home[w]]
     /\ \/ KillThen(w, "idle")
        \/ Continue(w, next)

SignBoundary(w) ==
  /\ call[w].pc = "envelope"
  /\ IF call[w].intent \in envelopes
     THEN KillThen(w, "idle")
     ELSE Boundary(w, "sign")
  /\ UNCHANGED << database, prepared, recovering, rec, scanned, ports, restarts >>

\* signer.sign returns an envelope, or fails or returns a foreign one.
Sign(w) ==
  /\ call[w].pc = "sign"
  /\ Continue(w, "boundary") \/ Continue(w, "unknown")
  /\ UNCHANGED << database, prepared, recovering, rec, scanned, ports, restarts >>

\* Mutant: only the envelope is stored before the venue call.
PersistEnvelopeOnly(w) ==
  LET i == call[w].intent IN
  /\ call[w].pc = "boundary"
  /\ IF i \in envelopes
     THEN KillThen(w, "idle") /\ UNCHANGED envelopes
     ELSE envelopes' = envelopes \cup { i } /\ Continue(w, "send_check")
  /\ UNCHANGED << claims, persisted, history, firstFill, ledger, killed,
                  prepared, recovering, rec, scanned, ports, restarts >>

\* Mutant: the envelope is left for after the answer.
PersistEventOnly(w) ==
  /\ call[w].pc = "boundary"
  /\ AppendTo(call[w].intent, "SUBMITTING", "synthetic", "coordinator", NoBody)
  /\ Continue(w, "send_check")
  /\ UNCHANGED << claims, persisted, envelopes, firstFill, ledger, killed,
                  prepared, recovering, rec, scanned, ports, restarts >>

\* Envelope and SUBMITTING event in one transaction, rolled back if there is
\* an envelope already.
PersistBoundary(w) ==
  LET i == call[w].intent IN
  /\ call[w].pc = "boundary"
  /\ IF i \in envelopes
     THEN /\ KillThen(w, "idle")
          /\ UNCHANGED << envelopes, history >>
     ELSE /\ envelopes' = envelopes \cup { i }
          /\ AppendTo(i, "SUBMITTING", "synthetic", "coordinator", NoBody)
          /\ Continue(w, "send_check")
  /\ UNCHANGED << claims, persisted, firstFill, ledger, killed,
                  prepared, recovering, rec, scanned, ports, restarts >>

\* Mutant: the evidence accepted for signing is good for submitting.
SubmitUnchecked(w) ==
  /\ call[w].pc = "send_check"
  /\ Continue(w, "send")
  /\ UNCHANGED << database, prepared, recovering, rec, scanned, ports, restarts >>

SubmitBoundary(w) ==
  /\ call[w].pc = "send_check"
  /\ Boundary(w, "send")
  /\ UNCHANGED << database, prepared, recovering, rec, scanned, ports, restarts >>

\* signer.submit: the order may be at the venue from here on, whatever the
\* answer says and whether or not the process lives to read it.
Post(w) ==
  LET i == call[w].intent IN
  /\ call[w].pc = "send"
  /\ posts' = [ posts EXCEPT ![i] = @ + 1 ]
  /\ \E code \in SubmitCodes :
       Become(w, [ call[w] EXCEPT !.pc = "classify", !.code = code ])
  /\ UNCHANGED << database, prepared, recovering, rec, scanned, feed, cancels,
                  revalidations, restarts >>

SubmittedState(code) ==
  CASE code = "ORDER_ACK_MATCHED"         -> "ACK_MATCHED"
    [] code = "ORDER_ACK_DELAYED"         -> "ACK_DELAYED"
    [] code = "ORDER_ACK_LIVE_UNEXPECTED" -> "ACK_LIVE_UNEXPECTED"
    [] code = "AUTH_REQUEST_BUILD_FAILED" -> "REJECTED"
    [] OTHER                              -> "UNKNOWN"

\* Mutant: an unknown outcome waits for recovery without a kill.
KillRequiredIfRejected(code) ==
  code \in SubmitCodes \ { "ORDER_ACK_MATCHED", "ORDER_OUTCOME_UNKNOWN" }

\* expected_route_result_flags: every outcome but a matched order kills.
KillRequired(code) == code # "ORDER_ACK_MATCHED"

\* Mutant: a transport failure is retried with the same envelope.
ClassifyRetrying(w) ==
  LET i    == call[w].intent
      code == call[w].code IN
  /\ call[w].pc = "classify"
  /\ IF code = "FAILED"
     THEN Continue(w, "send_check") /\ UNCHANGED history
     ELSE /\ AppendTo(i, SubmittedState(code),
                      IF code \in Acks THEN "venue" ELSE "synthetic", "rest", NoBody)
          /\ IF KillRequired(code) THEN KillThen(w, "idle") ELSE Continue(w, "idle")
  /\ UNCHANGED << claims, persisted, envelopes, firstFill, ledger, killed,
                  prepared, recovering, rec, scanned, ports, restarts >>

\* _classify_submit_result, or _unknown_after_port_failure for FAILED.  The
\* event is appended whatever the history holds by now.
Classify(w) ==
  LET i    == call[w].intent
      code == call[w].code IN
  /\ call[w].pc = "classify"
  /\ IF code = "FAILED"
     THEN AppendTo(i, "UNKNOWN", "synthetic", "coordinator", NoBody)
     ELSE AppendTo(i, SubmittedState(code),
                   IF code \in Acks THEN "venue" ELSE "synthetic", "rest", NoBody)
  /\ IF KillRequired(code) THEN KillThen(w, "idle") ELSE Continue(w, "idle")
  /\ UNCHANGED << claims, persisted, envelopes, firstFill, ledger, killed,
                  prepared, recovering, rec, scanned, ports, restarts >>

\* _unknown_after_port_failure for a failed signature.
UnknownAfterSign(w) ==
  /\ call[w].pc = "unknown"
  /\ AppendTo(call[w].intent, "UNKNOWN", "synthetic", "coordinator", NoBody)
  /\ KillThen(w, "idle")
  /\ UNCHANGED << claims, persisted, envelopes, firstFill, ledger, killed,
                  prepared, recovering, rec, scanned, ports, restarts >>

\* _engage_kill: a second kill event changes nothing any reader tests.
EngageKill(w) ==
  /\ call[w].pc = "kill"
  /\ killed' = TRUE
  /\ Continue(w, call[w].fail)
  /\ UNCHANGED << claims, persisted, envelopes, history, firstFill,
                  ledger, prepared, recovering, rec, scanned, ports,
                  restarts >>

-----------------------------------------------------------------------------
(* apply_order_event *)

\* The tests against the history as it is read; inOrder stands for the tests
\* of order id, received_at, sequence number and venue timestamp.
Acceptable(i, state, inOrder) ==
  /\ inOrder
  /\ history[i] # << >>
  /\ VenueIdKnown(history[i])
  /\ LegalTransition(LatestState(history[i]), state)
  /\ ~(i \in FokIntents /\ state = "PARTIALLY_FILLED")

\* Read the history and decide; ok and fail say where the caller continues
\* when the event was applied, or was contradictory.
StartApply(w, i, state, src, raw, inOrder, ok, fail) ==
  Become(w, [ Idle EXCEPT
    !.pc = IF Acceptable(i, state, inOrder) THEN "append" ELSE "contradict",
    !.intent = i, !.state = state, !.src = src, !.raw = raw,
    !.first = state \in FillStates /\ ~HasState(history[i], FillStates),
    !.ok = ok, !.fail = fail ])

\* The stream hands over event e: for the first time, or again.  An event
\* already in the history is not newer than its last event.
DeliverEvent(w, i, e) ==
  /\ call[w].pc = "idle"
  /\ Len(history[i]) < MaxHistory
  /\ \E state \in FeedStates, inOrder \in BOOLEAN :
       /\ feed[e] \in { "none", state }
       /\ feed' = [ feed EXCEPT ![e] = state ]
       /\ (\E k \in 1..Len(history[i]) : history[i][k].src = e) => ~inOrder
       /\ StartApply(w, i, state, e, e, inOrder, "idle", "idle")
  /\ UNCHANGED << database, prepared, recovering, rec, scanned, posts, cancels,
                  revalidations, restarts >>

\* Appending an event already stored under its id changes nothing.
AppendEvent(w) ==
  LET i    == call[w].intent
      seen == /\ call[w].src \in EventIds
              /\ \E k \in 1..Len(history[i]) : history[i][k].src = call[w].src
  IN
  /\ call[w].pc = "append"
  /\ IF seen THEN UNCHANGED history
     ELSE AppendTo(i, call[w].state, "venue", call[w].src, call[w].raw)
  /\ IF call[w].first THEN Goto(w, "claim_fill") ELSE Continue(w, call[w].ok)
  /\ UNCHANGED << claims, persisted, envelopes, firstFill, ledger, killed,
                  prepared, recovering, rec, scanned, ports, restarts >>

\* Mutant: a first fill is what has no fill before it in the history read.
FirstFillUnclaimed(w) ==
  /\ call[w].pc = "claim_fill"
  /\ firstFill' = [ firstFill EXCEPT ![call[w].intent] = call[w].src ]
  /\ Goto(w, "revalidate")
  /\ UNCHANGED << claims, persisted, envelopes, history, ledger, killed,
                  prepared, recovering, rec, scanned, ports, restarts >>

\* claim_execution_first_fill: one event per intent wins the claim for good;
\* the same event again is not the first, another event is a conflict.
ClaimFirstFill(w) ==
  LET i == call[w].intent IN
  /\ call[w].pc = "claim_fill"
  /\ \/ /\ firstFill[i] = "none"
        /\ firstFill' = [ firstFill EXCEPT ![i] = call[w].src ]
        /\ Goto(w, "revalidate")
     \/ /\ firstFill[i] # "none"
        /\ UNCHANGED firstFill
        /\ IF firstFill[i] = call[w].src /\ call[w].src \in EventIds
           THEN Continue(w, call[w].ok)
           ELSE Goto(w, "contradict")
  /\ UNCHANGED << claims, persisted, envelopes, history, ledger, killed,
                  prepared, recovering, rec, scanned, ports, restarts >>

\* Mutant: without a snapshot there is nothing to revalidate.
RevalidatePrepared(w) ==
  LET i == call[w].intent IN
  /\ call[w].pc = "revalidate"
  /\ IF i \in prepared[Home[w]]
     THEN /\ revalidations' = [ revalidations EXCEPT ![i] = @ + 1 ]
          /\ Continue(w, call[w].ok) \/ KillThen(w, call[w].ok)
     ELSE Continue(w, call[w].ok) /\ UNCHANGED revalidations
  /\ UNCHANGED << database, prepared, recovering, rec, scanned, feed, posts,
                  cancels, restarts >>

\* revalidate_after_fill decides; without a snapshot there is no callback and
\* the decision is HALT_EXPOSED, which kills.
Revalidate(w) ==
  LET i == call[w].intent IN
  /\ call[w].pc = "revalidate"
  /\ IF i \in prepared[Home[w]]
     THEN /\ revalidations' = [ revalidations EXCEPT ![i] = @ + 1 ]
          /\ Continue(w, call[w].ok) \/ KillThen(w, call[w].ok)
     ELSE /\ UNCHANGED revalidations
          /\ KillThen(w, call[w].ok)
  /\ UNCHANGED << database, prepared, recovering, rec, scanned, feed, posts,
                  cancels, restarts >>

\* Mutant: a contradiction is recorded and left to recovery.
ContradictOnly(w) ==
  LET i == call[w].intent IN
  /\ call[w].pc = "contradict"
  /\ AppendTo(i, "UNKNOWN",
              IF VenueIdKnown(history[i]) THEN "venue" ELSE "synthetic",
              "coordinator", call[w].raw)
  /\ Continue(w, call[w].fail)
  /\ UNCHANGED << claims, persisted, envelopes, firstFill, ledger, killed,
                  prepared, recovering, rec, scanned, ports, restarts >>

\* _contradictory_order_event.
Contradict(w) ==
  LET i == call[w].intent IN
  /\ call[w].pc = "contradict"
  /\ AppendTo(i, "UNKNOWN",
              IF VenueIdKnown(history[i]) THEN "venue" ELSE "synthetic",
              "coordinator", call[w].raw)
  /\ KillThen(w, call[w].fail)
  /\ UNCHANGED << claims, persisted, envelopes, firstFill, ledger, killed,
                  prepared, recovering, rec, scanned, ports, restarts >>

-----------------------------------------------------------------------------
(* recover_account and recover_on_startup *)

\* Mutant: an order whose answer was never seen counts as settled.
AnsweredUnresolvedStates == { "UNKNOWN", "ACK_DELAYED", "ACK_LIVE_UNEXPECTED",
                              "CANCEL_PENDING" }

UnresolvedStates == { "SUBMITTING", "UNKNOWN", "ACK_DELAYED",
                      "ACK_LIVE_UNEXPECTED", "CANCEL_PENDING" }

\* _run_recovery; uncertain is a stream gap or an uncertain heartbeat, which
\* only recover_account is told of.
StartRecovery(w, startup, uncertain) ==
  LET c == Home[w] IN
  /\ call[w].pc = "idle"
  /\ ~recovering[c]
  /\ startup => ~uncertain
  /\ \A i \in Intents : Len(history[i]) < MaxHistory
  /\ recovering' = [ recovering EXCEPT ![c] = TRUE ]
  /\ rec' = [ rec EXCEPT ![c] = [ NoRecovery EXCEPT
                                    !.startup = startup,
                                    !.uncertain = uncertain ] ]
  /\ Become(w, [ Idle EXCEPT !.pc = "scan" ])
  /\ UNCHANGED << database, prepared, scanned, ports, restarts >>

\* _classify_order_histories and _classify_trade_histories over the account:
\* legal chains, and no evidence behind two order events or behind the trades of
\* two orders.
LegalAccount ==
  /\ \A i \in persisted : LegalHistory(history[i])
  /\ \A i, j \in persisted : \A k \in 1..Len(history[i]), m \in 1..Len(history[j]) :
       history[i][k].raw = history[j][m].raw /\ history[i][k].raw # NoBody =>
         i = j /\ k = m
  /\ \A i, j \in persisted :
       trades[i] = trades[j] /\ trades[i] # NoBody => i = j

\* Mutant: a startup is a recovery like any other.
ForcedAtAnyTime(startup, uncertain, unsettled, closed) ==
  IF ~closed \/ ~LegalAccount
  THEN persisted
  ELSE { i \in persisted :
           \/ i \in unsettled
           \/ /\ uncertain
              /\ history[i] # << >>
              /\ LatestState(history[i]) \notin TerminalStates }

\* The intents recovery blocks before it looks at any read.  unsettled are the
\* intents whose trade history is unresolved or failed; closed says that the
\* reconciliations cover every stored trade, posting and economics record.
Forced(startup, uncertain, unsettled, closed) ==
  IF ~closed \/ ~LegalAccount
  THEN persisted
  ELSE { i \in persisted :
           \/ i \in unsettled
           \/ startup /\ (history[i] = << >> \/ HasState(history[i], FillStates))
           \/ /\ uncertain
              /\ history[i] # << >>
              /\ LatestState(history[i]) \notin TerminalStates }

\* The whole stored history of the account is read once, and each intent is
\* blocked, left to resolve, or needs nothing.
Triage(r, valid, closed, unsettled) ==
  LET forced == Forced(r.startup, r.uncertain, unsettled, closed)
      open   == { i \in persisted \ forced :
                    /\ history[i] # << >>
                    /\ LatestState(history[i]) \in UnresolvedStates }
      usable == { i \in open : valid /\ VenueIdKnown(history[i]) }
      cancel == { i \in usable : LatestState(history[i]) = "CANCEL_PENDING" }
  IN [ r EXCEPT !.valid = valid,
                !.closed = closed,
                !.intents = persisted,
                !.cancels = cancel,
                !.reads = usable \ cancel,
                !.blocked = forced \cup (open \ usable),
                !.read = [ i \in Intents |-> Len(history[i]) ],
                !.seen = [ i \in Intents |-> Len(history[i]) ] ]

\* The three account reads have been made (valid: all three usable).
Scan(w) ==
  LET c == Home[w] IN
  /\ call[w].pc = "scan"
  /\ \E valid, closed \in BOOLEAN,
        unsettled \in SUBSET { i \in persisted : VenueIdKnown(history[i]) } :
       /\ unreconciled # {} => ~closed
       /\ rec' = [ rec EXCEPT ![c] = Triage(rec[c], valid, closed, unsettled) ]
       /\ IF ~closed \/ Forced(rec[c].startup, rec[c].uncertain, unsettled, closed) # {}
          THEN KillThen(w, "resolve")
          ELSE Goto(w, "resolve")
  /\ UNCHANGED << database, prepared, recovering, scanned, ports, restarts >>

\* An event made by recovery carries the time of its reads, so it is out of
\* order only if something was appended since the scan.
RecoveryOrder(c, i) == { TRUE, Len(history[i]) = rec[c].seen[i] }

ResolveByRead(w, i) ==
  LET c == Home[w] IN
  /\ call[w].pc = "resolve"
  /\ i \in rec[c].reads
  /\ rec' = [ rec EXCEPT ![c].reads = @ \ { i } ]
  /\ Become(w, [ Idle EXCEPT !.pc = "order_read", !.intent = i ])
  /\ UNCHANGED << database, prepared, recovering, scanned, ports, restarts >>

ResolveByCancel(w, i) ==
  LET c == Home[w] IN
  /\ call[w].pc = "resolve"
  /\ i \in rec[c].cancels
  /\ rec' = [ rec EXCEPT ![c].cancels = @ \ { i } ]
  /\ Become(w, [ Idle EXCEPT !.pc = "cancel", !.intent = i ])
  /\ UNCHANGED << database, prepared, recovering, scanned, ports, restarts >>

\* The body of a read: one for the whole recovery.
BodyOf(known, bodies) == IF known = NoBody THEN bodies ELSE { known }

\* _recover_from_order_read: the open-orders read shows the exact order with a
\* fill, and fresh preflight evidence is obtained and kept as a snapshot.
OrderRead(w) ==
  LET i == call[w].intent
      c == Home[w] IN
  /\ call[w].pc = "order_read"
  /\ \/ /\ i \in envelopes
        /\ Prepare(c, i)
        /\ \E body \in BodyOf(rec[c].orders, OrderBodies), state \in FillStates,
              inOrder \in RecoveryOrder(c, i) :
             /\ rec' = [ rec EXCEPT ![c].orders = body ]
             /\ StartApply(w, i, state, "recovery", body, inOrder,
                           "resolve", "trade_read")
     \/ /\ UNCHANGED << prepared, rec >>
        /\ Continue(w, "trade_read")
  /\ UNCHANGED << database, recovering, scanned, ports, restarts >>

\* _recover_from_trade_read: the confirmed trades of the order are stored
\* before evidence is asked for, and stay stored if none is given.  Stored once,
\* they cannot be stored again: the same trade at another time is a conflict.
\* Trades and order event carry the hash of the one body they came from.
TradeRead(w) ==
  LET i == call[w].intent
      c == Home[w] IN
  /\ call[w].pc = "trade_read"
  /\ \/ /\ i \in envelopes
        /\ trades[i] = NoBody
        /\ \E body \in BodyOf(rec[c].trades, TradeBodies) :
             /\ trades' = [ trades EXCEPT ![i] = body ]
             /\ unreconciled' = unreconciled \cup { i }
             /\ rec' = [ rec EXCEPT ![c].trades = body ]
             /\ \/ /\ Prepare(c, i)
                   /\ \E state \in FillStates, inOrder \in RecoveryOrder(c, i) :
                        StartApply(w, i, state, "recovery", body, inOrder,
                                   "resolve", "unresolved")
                \/ /\ UNCHANGED prepared
                   /\ Continue(w, "unresolved")
     \/ /\ UNCHANGED << ledger, prepared, rec >>
        /\ Continue(w, "unresolved")
  /\ UNCHANGED << claims, persisted, envelopes, history, firstFill, killed,
                  recovering, scanned, ports, restarts >>

\* The stored acknowledgements of a cancel of i, and those the running recovery
\* of c sees: it reads the history as of its own start.
CancelAcks(i) == { k \in 1..Len(history[i]) : history[i][k].src = "cancel_ack" }

AcksRead(c, i) == { k \in CancelAcks(i) : k <= rec[c].read[i] }

\* Mutant: a cancel is sent for every pending cancellation.
CancelAgain(w) ==
  LET i == call[w].intent IN
  /\ call[w].pc = "cancel"
  /\ \/ UNCHANGED prepared /\ Continue(w, "unresolved")
     \/ /\ i \in envelopes /\ ~Killed
        /\ Prepare(Home[w], i)
        /\ Continue(w, "send_cancel")
  /\ UNCHANGED << database, recovering, rec, scanned, ports, restarts >>

\* _recover_cancellation up to signer.cancel: with exactly one acknowledgement,
\* in its place, only the confirming read is left to do; with none the cancel
\* needs fresh evidence and authority and no kill.
Cancel(w) ==
  LET i == call[w].intent
      c == Home[w]
      acks == AcksRead(c, i)
      settled == \E k \in acks :
                   /\ acks = { k }
                   /\ k > 1
                   /\ history[i][k - 1].state = "CANCEL_PENDING"
  IN
  /\ call[w].pc = "cancel"
  /\ \/ /\ i \in envelopes
        /\ settled
        /\ UNCHANGED prepared
        /\ Continue(w, "confirm")
     \/ /\ i \notin envelopes \/ (acks # {} /\ ~settled) \/ Killed
        /\ ~(i \in envelopes /\ settled)
        /\ UNCHANGED prepared
        /\ Continue(w, "unresolved")
     \/ /\ i \in envelopes
        /\ acks = {}
        /\ ~Killed
        /\ \/ UNCHANGED prepared /\ Continue(w, "unresolved")
           \/ /\ Prepare(c, i)
              /\ Continue(w, "unresolved") \/ Continue(w, "send_cancel")
  /\ UNCHANGED << database, recovering, rec, scanned, ports, restarts >>

SendCancel(w) ==
  LET i == call[w].intent IN
  /\ call[w].pc = "send_cancel"
  /\ cancels' = [ cancels EXCEPT ![i] = @ + 1 ]
  /\ \E code \in CancelCodes :
       Become(w, [ call[w] EXCEPT !.pc = "cancel_result", !.code = code ])
  /\ UNCHANGED << database, prepared, recovering, rec, scanned, feed, posts,
                  revalidations, restarts >>

\* Mutant: the venue's word is stored in place of the normalized state.
CancelResultRaw(w) ==
  LET i == call[w].intent IN
  /\ call[w].pc = "cancel_result"
  /\ IF Killed THEN Continue(w, "unresolved") /\ UNCHANGED history
     ELSE AppendTo(i, call[w].code, "venue", "cancel_ack", NoBody) /\ Continue(w, "confirm")
  /\ UNCHANGED << claims, persisted, envelopes, firstFill, ledger, killed,
                  prepared, recovering, rec, scanned, ports, restarts >>

\* A kill that arrived meanwhile wins: the acknowledgement is not stored.  What
\* else arrived meanwhile is not looked at, and is older than what follows.
CancelResult(w) ==
  LET i == call[w].intent
      c == Home[w] IN
  /\ call[w].pc = "cancel_result"
  /\ IF Killed \/ call[w].code # "CANCEL_ACKNOWLEDGED"
     THEN /\ Continue(w, "unresolved")
          /\ UNCHANGED << history, rec >>
     ELSE /\ AppendTo(i, "CANCEL_PENDING", "venue", "cancel_ack", NoBody)
          /\ rec' = [ rec EXCEPT ![c].seen[i] = Len(history[i]) + 1 ]
          /\ Continue(w, "confirm")
  /\ UNCHANGED << claims, persisted, envelopes, firstFill, ledger, killed,
                  prepared, recovering, scanned, ports, restarts >>

\* read_order shows the order CANCELED, or it does not.
Confirm(w) ==
  LET i == call[w].intent IN
  /\ call[w].pc = "confirm"
  /\ \/ Continue(w, "unresolved")
     \/ \E inOrder \in RecoveryOrder(Home[w], i) :
          StartApply(w, i, "CANCELLED", "recovery", NoBody, inOrder,
                     "resolve", "unresolved")
  /\ UNCHANGED << database, prepared, recovering, rec, scanned, ports, restarts >>

\* Mutant: what no read resolved is left for the next recovery.
UnresolvedIgnored(w) ==
  /\ call[w].pc = "unresolved"
  /\ Continue(w, "resolve")
  /\ UNCHANGED << database, prepared, recovering, rec, scanned, ports, restarts >>

Unresolved(w) ==
  /\ call[w].pc = "unresolved"
  /\ rec' = [ rec EXCEPT ![Home[w]].blocked = @ \cup { call[w].intent } ]
  /\ Continue(w, "resolve")
  /\ UNCHANGED << database, prepared, recovering, scanned, ports, restarts >>

\* Every intent has been looked at; blocked ones engage the kill.
CloseRecovery(w) ==
  LET c == Home[w] IN
  /\ call[w].pc = "resolve"
  /\ rec[c].reads = {}
  /\ rec[c].cancels = {}
  /\ IF rec[c].blocked # {} THEN KillThen(w, "report") ELSE Goto(w, "report")
  /\ UNCHANGED << database, prepared, recovering, rec, scanned, ports, restarts >>

\* The report says RECOVERY_COMPLETE: nothing blocked, every read usable and
\* the ledger closed.
Complete(c) == rec[c].blocked = {} /\ rec[c].valid /\ rec[c].closed

\* Mutant: the flag is reset only by a recovery that completes.
ReportKeepsRecovering(w) ==
  LET c == Home[w] IN
  /\ call[w].pc = "report"
  /\ scanned' = IF rec[c].startup THEN scanned \cup { c } ELSE scanned
  /\ recovering' = [ recovering EXCEPT ![c] = ~Complete(c) ]
  /\ rec' = [ rec EXCEPT ![c] = NoRecovery ]
  /\ Continue(w, "idle")
  /\ UNCHANGED << database, prepared, ports, restarts >>

\* The report is returned and the running recovery ends.
Report(w) ==
  LET c == Home[w] IN
  /\ call[w].pc = "report"
  /\ scanned' = IF rec[c].startup THEN scanned \cup { c } ELSE scanned
  /\ recovering' = [ recovering EXCEPT ![c] = FALSE ]
  /\ rec' = [ rec EXCEPT ![c] = NoRecovery ]
  /\ Continue(w, "idle")
  /\ UNCHANGED << database, prepared, ports, restarts >>

-----------------------------------------------------------------------------
(* The environment *)

\* reconcile_live_account can be complete: legal histories, and no evidence
\* behind both an order event and a trade.
Reconcilable ==
  /\ LegalAccount
  /\ \A i, j \in persisted : \A k \in 1..Len(history[i]) :
       history[i][k].raw = trades[j] => trades[j] = NoBody

\* A complete account reconciliation over every stored trade is stored.
Reconcile ==
  /\ unreconciled # {}
  /\ Reconcilable
  /\ unreconciled' = {}
  /\ UNCHANGED << claims, persisted, envelopes, history, firstFill, trades,
                  killed, memory, ports, restarts >>

\* The process dies at any point and new coordinators open the same database.
Restart ==
  /\ restarts < MaxRestarts
  /\ restarts' = restarts + 1
  /\ prepared' = [ c \in Coordinators |-> {} ]
  /\ recovering' = [ c \in Coordinators |-> FALSE ]
  /\ rec' = [ c \in Coordinators |-> NoRecovery ]
  /\ scanned' = {}
  /\ call' = [ w \in Workers |-> Idle ]
  /\ UNCHANGED << database, ports >>

SubmitStep(w) ==
  \/ DuplicateSubmission(w) \/ StartClaimed(w)
  \/ PrepareRefused(w) \/ PrepareCollision(w) \/ PrepareCommit(w)
  \/ SignBoundary(w) \/ Sign(w) \/ PersistBoundary(w)
  \/ SubmitBoundary(w) \/ Post(w) \/ Classify(w) \/ UnknownAfterSign(w)

ApplyStep(w) ==
  AppendEvent(w) \/ ClaimFirstFill(w) \/ Revalidate(w) \/ Contradict(w)

RecoveryStep(w) ==
  \/ Scan(w)
  \/ \E i \in Intents : ResolveByRead(w, i) \/ ResolveByCancel(w, i)
  \/ OrderRead(w) \/ TradeRead(w) \/ Cancel(w) \/ SendCancel(w)
  \/ CancelResult(w) \/ Confirm(w) \/ Unresolved(w) \/ CloseRecovery(w)
  \/ Report(w)

\* What a worker does once it is in a call.
Step(w) == SubmitStep(w) \/ ApplyStep(w) \/ RecoveryStep(w) \/ EngageKill(w)

\* The calls a worker may start.
Begin(w) ==
  \/ /\ w \in Submitters
     /\ \E i \in Intents :
          PrepareCall(w, i) \/ ClaimSubmission(w, i) \/ SubmissionTaken(w, i)
  \/ /\ w \in Deliverers
     /\ \E i \in Intents, e \in EventIds : DeliverEvent(w, i, e)
  \/ /\ w \in Recoverers
     /\ \E startup, uncertain \in BOOLEAN : StartRecovery(w, startup, uncertain)

Next == (\E w \in Workers : Begin(w) \/ Step(w)) \/ Reconcile \/ Restart

Spec == Init /\ [][Next]_vars

\* A thread inside a call keeps running: no step of a call waits for another
\* call.  Nothing obliges anyone to start a call.
FairSpec == Spec /\ \A w \in Workers : WF_vars(Step(w))
=============================================================================
