--------------------------- MODULE PilotProperties ---------------------------
(* What one launch of the pilot owes its operator. *)
EXTENDS PilotLaunch

\* One passkey approval is spent on one execution: however two requests for
\* the same challenge race, and whatever restarts in between, one grant is
\* claimed for it, all the orders that trace back to it carry that grant and
\* no leg is sent twice (_CeremonyState.spend, _issue,
\* _consume_mutation_authority).
OneExecutionPerApproval ==
  /\ \A g1, g2 \in store.claims : g1[1] = g2[1] => g1 = g2
  /\ \A o1, o2 \in orders :
       o1.grant[1] = o2.grant[1] =>
         /\ o1.grant = o2.grant
         /\ o1.leg = o2.leg => o1 = o2

\* The legs of a grant as the store and the venue know them.
StoredLegs == {<<i[1], i[2]>> : i \in {x \in store.intents : x[3] = "leg"}}
SentLegs == {<<o.grant, o.leg>> : o \in orders}
MatchedLegs == {<<o.grant, o.leg>> : o \in {x \in orders : x.ack = "MATCHED"}}

\* All that ApprovalUse is about.
evidence == <<store, challenges, orders, signerKilled>>

Approval == INSTANCE ApprovalUse WITH
  Approvals <- Challenges,
  Executors <- Threads,
  asked <- store.challenges,
  live <- challenges,
  given <- store.claims,
  stored <- StoredLegs,
  sent <- SentLegs,
  matched <- MatchedLegs,
  closed <- signerKilled

\* Whatever requests race, stop, raise or restart, the launches together do
\* what ApprovalUse says: the store has the challenge before its one claim, the
\* claim before the intent of a leg and the intent before the order; the orders
\* of a plan go in turn and in the launch that asked; and none goes while the
\* signer is killed, which a leg that did not match does itself and only a
\* restart undoes (auth_options, _issue, persist_intent, _run_frozen_plan,
\* _dispatch).
ApprovalRefines ==
  Approval!Init /\ [][UNCHANGED evidence \/ Approval!Next]_Approval!vars

\* A later leg of a frozen plan is sent only after every earlier leg of the
\* same grant came back matched (_run_frozen_plan, _continuation).
LegsInOrder ==
  \A o \in orders : \A l \in 1..(o.leg - 1) :
    \E e \in orders : e.grant = o.grant /\ e.leg = l /\ e.ack = "MATCHED"

\* An order at the venue always has its durable trail: the stored challenge,
\* the capability claim and the intent of exactly that leg, each appended
\* before the step that needed it (auth_options, _issue, persist_intent).
EvidencedOrders ==
  \A o \in orders :
    /\ o.grant[1] \in store.challenges
    /\ o.grant \in store.claims
    /\ <<o.grant, o.leg, "leg">> \in store.intents

\* A stop can be overtaken by the one order already past its authority test
\* and by no other: whatever is cleared later, a revoked grant sends at most
\* one more leg (_authorize, revoked_capability_ids).
OneLateOrder ==
  \A o1, o2 \in orders :
    (o1.late /\ o2.late /\ o1.grant = o2.grant) => o1 = o2

\* A leg that did not match ends trading for the launch: the signer is killed
\* by the answer itself and admits nothing more until a restart, also when the
\* executor, the recovery and the services' kill all fail after it
\* (_dispatch kill_required, _handle_uncached).
UnmatchedEndsLaunch ==
  [][ \A o \in orders' \ orders :
        \A e \in orders : e.ack # "MATCHED" =>
          e.grant[1] \notin challenges ]_vars

\* The pilot as build_launch_runtime composes it can neither be cleared nor
\* trade: a challenge's evidence hash is stale by the time it is answered, so
\* clear_kill refuses it and authorize kills (reconcile_startup, clear_kill,
\* _freeze_plan).
ComposedLaunchIsInert == provider = "composed" => killed /\ orders = {}

----------------------------------------------------------------------------
\* "Stop-and-kill ... atomically revokes primary authority, persists the kill
\* event, stops new work" (docs/superpowers/specs/
\* 2026-08-27-polymarket-local-live-pilot-design.md, 9.4), which the code does
\* not keep: a stop that ran its revocation engages the kill.
StopAlwaysKills ==
  [][ \A t \in Threads : (At(t, "kill") /\ thread'[t].pc = "idle") => killed' ]_vars
=============================================================================
