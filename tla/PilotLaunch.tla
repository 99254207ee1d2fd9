------------------------------ MODULE PilotLaunch ------------------------------
(***************************************************************************)
(* One launch after another of the local live pilot: the control process   *)
(* (LivePilotServices behind a threading HTTP server), the executor and    *)
(* its port, the passkey ceremony, the capability issuer and verifier, the *)
(* signer sidecar behind one pipe, the durable store and the venue.        *)
(*                                                                         *)
(* Every HTTP request runs on a thread of its own and no lock is shared by *)
(* the services, so a step here ends where a handler calls out (a signer   *)
(* exchange, a store append, a dictionary iteration) and another thread    *)
(* may run.  An exchange is one step at the signer; that its answer may be *)
(* lost to another thread is the business of SignerLink, and Raise here.   *)
(*                                                                         *)
(* Abstracted: amounts and prices (a plan is a number of legs), lifetimes  *)
(* (a late step raises), the four reconciliation reads (Clean says whether *)
(* they, the account, the geoblock and the manifest are all current).      *)
(***************************************************************************)
EXTENDS Naturals, FiniteSets

CONSTANTS
  Threads,       \* HTTP handler threads
  Challenges,    \* challenge identities ever drawn
  NoChallenge,   \* the challenge of a thread that serves none
  Legs           \* number of legs of a frozen plan

ASSUME LegsAssumption == Legs \in Nat \ {0}
ASSUME ChallengeAssumption == NoChallenge \notin Challenges

VARIABLES
  thread,        \* per thread: program counter, challenge, leg, last answer
  killed,        \* _LaunchState.kill_engaged of the control process
  present,       \* PresenceMonitor.state is PRESENT
  challenges,    \* _LaunchState.challenges, known to this launch
  opened,        \* _CeremonyState.open_challenges
  spent,         \* _CeremonyState.spent_challenges
  grants,        \* _LaunchState.grants
  revoked,       \* PilotCapabilityVerifier._revoked
  signerKilled,  \* SignerService._kill_engaged
  consumed,      \* SignerService._consumed_primary_submissions
  store,         \* durable: challenges, nonce claims, intents, sessions
  orders,        \* orders the venue received
  unsettled,     \* orders whose trade is not terminal at the venue
  healthy,       \* geoblock, manifest, eligibility and account reads are good
  current,       \* challenges whose evidence hash is still the current one
  provider       \* the reconciliation provider the launch was given

vars == <<thread, killed, present, challenges, opened, spent, grants, revoked,
          signerKilled, consumed, store, orders, unsettled, healthy, current,
          provider>>

ceremony == <<challenges, opened, spent>>
signer   == <<signerKilled, consumed>>
venue    == <<orders, unsettled>>
world    == <<healthy, current>>

----------------------------------------------------------------------------
Acks == {"MATCHED", "DELAYED", "LIVE", "UNMATCHED", "UNKNOWN"}
Grants == Challenges \X Threads          \* a grant is drawn by one request
Executing == {"persist", "check", "sign", "snapshot", "wire", "reply",
              "decide", "recover", "halt", "complete", "record"}
Authorizing == {"freeze", "issue", "keep", "start"} \cup Executing
Phases == {"idle", "opening", "authorize", "clear", "clearing", "cleared",
           "revoke", "kill", "trip"} \cup Authorizing
NoAck == "none"

\* reconcile_startup, which build_launch_runtime composes, hashes the times of
\* its own reads; an injected provider may hash only what it read.
Providers == {"composed", "injected"}
Idle == [pc |-> "idle", ch |-> NoChallenge,
         leg |-> 1, ack |-> NoAck, seen |-> {}]

Orders == [grant : Grants, leg : 1..Legs, ack : Acks, late : BOOLEAN]

TypeOK ==
  /\ thread \in [Threads -> [pc : Phases, ch : Challenges \cup {NoChallenge}, leg : 1..Legs,
                             ack : Acks \cup {NoAck}, seen : SUBSET Grants]]
  /\ killed \in BOOLEAN /\ present \in BOOLEAN
  /\ challenges \subseteq Challenges
  /\ opened \subseteq Challenges
  /\ spent \subseteq Challenges
  /\ grants \subseteq Grants /\ revoked \subseteq Grants
  /\ signerKilled \in BOOLEAN
  /\ consumed \subseteq Grants \X (1..Legs)
  /\ store \in [challenges : SUBSET Challenges, claims : SUBSET Grants,
                intents : SUBSET (Grants \X (1..Legs) \X {"leg", "unwind"}),
                sessions : SUBSET (Challenges \X {"ACTIVE", "STOPPED"})]
  /\ orders \subseteq Orders /\ unsettled \subseteq orders
  /\ healthy \in BOOLEAN /\ current \subseteq Challenges
  /\ provider \in Providers

Init ==
  /\ thread = [t \in Threads |-> Idle]
  /\ killed = TRUE /\ present = TRUE
  /\ challenges = {} /\ opened = {} /\ spent = {}
  /\ grants = {} /\ revoked = {}
  /\ signerKilled = FALSE /\ consumed = {}
  /\ store = [challenges |-> {}, claims |-> {}, intents |-> {}, sessions |-> {}]
  /\ orders = {} /\ unsettled = {}
  /\ healthy = TRUE /\ current = {}
  /\ provider \in Providers

----------------------------------------------------------------------------
(* Helpers. *)
At(t, pc) == thread[t].pc = pc
Grant(t) == <<thread[t].ch, t>>
Goto(t, pc) == thread' = [thread EXCEPT ![t].pc = pc]
Return(t) == thread' = [thread EXCEPT ![t] = Idle]

\* Every read _execution_evidence makes, apart from the kill, is current.
Clean == healthy /\ unsettled = {}

\* ExecutionEvidence.kill_engaged is down.
EvidenceOpen == ~killed /\ Clean

\* A signer read whose route result requires the kill trips the signer.
SignerRead == signerKilled' \in {signerKilled, signerKilled \/ ~healthy}

\* CoordinatorExecutionPort.engage_kill: revoke, then one suppressed exchange.
PortKill(g) == /\ revoked' = revoked \cup {g}
               /\ signerKilled' \in {signerKilled, TRUE}

----------------------------------------------------------------------------
\* Mutant: the evidence hash covers what was read and not when.
RememberedUntimed(c) == current \cup {c}

\* The evidence hash a challenge carries is compared with that of a later
\* read: with the composed provider the two are never equal.
Remembered(c) == IF provider = "composed" THEN current ELSE current \cup {c}

(* POST /api/authorization/options: _build_challenge, then the store, the  *)
(* in-memory challenge and the open ceremony.                              *)
Options(t, c) ==
  /\ At(t, "idle")
  /\ c \notin store.challenges /\ \A u \in Threads : ~At(u, "opening") \/ thread[u].ch # c
  /\ SignerRead
  /\ IF Clean
       THEN /\ thread' = [thread EXCEPT ![t].pc = "opening", ![t].ch = c]
            /\ current' = Remembered(c)
       ELSE Goto(t, "revoke") /\ UNCHANGED current
  /\ UNCHANGED <<killed, present, ceremony, grants, revoked, consumed, store,
                 venue, healthy>>

OpenChallenge(t) ==
  LET c == thread[t].ch IN
  /\ At(t, "opening")
  /\ store' = [store EXCEPT !.challenges = @ \cup {c}]
  /\ challenges' = challenges \cup {c}
  /\ opened' = opened \cup {c}
  /\ Return(t)
  /\ UNCHANGED <<killed, present, spent, grants, revoked, signer, venue, world>>

----------------------------------------------------------------------------
(* The passkey ceremony shared by authorize and clear_kill: the replay     *)
(* test, then the pop that only one of two racing requests survives.       *)
Approve(t, c, request) ==
  /\ At(t, "idle")
  /\ c \in challenges /\ c \notin spent
  /\ thread' = [thread EXCEPT ![t].pc = request, ![t].ch = c]
  /\ UNCHANGED <<killed, present, ceremony, grants, revoked, signer, store,
                 venue, world>>

\* Mutant: the open challenge is looked up and left open.
TakeOpenKept(c) == c \in opened /\ opened' = opened
TakeOpen(c) == c \in opened /\ opened' = opened \ {c}

Spend(t, request, next) ==
  LET c == thread[t].ch IN
  /\ At(t, request)
  /\ TakeOpen(c)
  /\ \/ spent' = spent \cup {c} /\ Goto(t, next)      \* a good assertion
     \/ spent' = spent \cup {c} /\ Return(t)          \* a bad one
     \/ spent' = spent /\ Return(t)                   \* an expired challenge
  /\ UNCHANGED <<killed, present, challenges, grants, revoked, signer, store,
                 venue, world>>

Replayed(t, request) ==
  /\ At(t, request) /\ thread[t].ch \notin opened
  /\ Return(t)
  /\ UNCHANGED <<killed, present, ceremony, grants, revoked, signer, store,
                 venue, world>>

----------------------------------------------------------------------------
(* POST /api/authorization: freeze, issue, run.  The kill is not read      *)
(* before the executor's first boundary.                                   *)
Freeze(t) ==
  /\ At(t, "freeze")
  /\ SignerRead
  /\ Goto(t, IF Clean /\ thread[t].ch \in current THEN "issue" ELSE "revoke")
  /\ UNCHANGED <<killed, present, ceremony, grants, revoked, consumed, store,
                 venue, world>>

\* Mutant: the grant is used before its claim is durable.
IssueUnclaimed(t) ==
  /\ At(t, "issue") /\ Goto(t, "keep")
  /\ UNCHANGED <<killed, present, ceremony, grants, revoked, signer, store,
                 venue, world>>

\* The issuer signs the pair; the claim and its event commit together.
Issue(t) ==
  /\ At(t, "issue")
  /\ store' = [store EXCEPT !.claims = @ \cup {Grant(t)}]
  /\ Goto(t, "keep")
  /\ UNCHANGED <<killed, present, ceremony, grants, revoked, signer, venue, world>>

Keep(t) ==
  /\ At(t, "keep")
  /\ grants' = grants \cup {Grant(t)}
  /\ Goto(t, "start")
  /\ UNCHANGED <<killed, present, ceremony, revoked, signer, store, venue, world>>

\* Mutant: the frozen legs are walked from the last one.
FirstLegLast == Legs
FirstLeg == 1

\* _executor_inputs: the verifier refuses a grant revoked since it was kept.
Start(t) ==
  /\ At(t, "start")
  /\ IF Grant(t) \in revoked THEN Return(t)
     ELSE thread' = [thread EXCEPT ![t].pc = "persist", ![t].leg = FirstLeg]
  /\ UNCHANGED <<killed, present, ceremony, grants, revoked, signer, store,
                 venue, world>>

----------------------------------------------------------------------------
(* One leg of the frozen plan. *)
Persist(t) ==
  /\ At(t, "persist")
  /\ store' = [store EXCEPT !.intents = @ \cup {<<Grant(t), thread[t].leg, "leg">>}]
  /\ Goto(t, "check")
  /\ UNCHANGED <<killed, present, ceremony, grants, revoked, signer, venue, world>>

\* Mutant: the verifier's revocations are not read at the boundary.
AuthorityUnrevoked(t) == present

\* The port's authority test.  Closed evidence kills the port (not the
\* services); a revoked grant or an absent operator only refuses.
Authority(t) == Grant(t) \notin revoked /\ present

Check(t) ==
  /\ At(t, "check")
  /\ \/ EvidenceOpen /\ Authority(t) /\ Goto(t, "sign") /\ UNCHANGED <<revoked, signerKilled>>
     \/ EvidenceOpen /\ ~Authority(t) /\ Return(t) /\ UNCHANGED <<revoked, signerKilled>>
     \/ ~EvidenceOpen /\ PortKill(Grant(t)) /\ Return(t)
  /\ UNCHANGED <<killed, present, ceremony, grants, consumed, store, venue, world>>

\* SIGN_ORDER: fresh signed evidence, then the signer's own tests.
Sign(t) ==
  /\ At(t, "sign")
  /\ SignerRead
  /\ IF EvidenceOpen /\ present /\ ~signerKilled THEN Goto(t, "snapshot") ELSE Return(t)
  /\ UNCHANGED <<killed, present, ceremony, grants, revoked, consumed, store,
                 venue, world>>

\* SUBMIT_ORDER: the evidence is signed, then the frame is written.
Snapshot(t) ==
  /\ At(t, "snapshot")
  /\ SignerRead
  /\ IF EvidenceOpen /\ present THEN Goto(t, "wire") ELSE Return(t)
  /\ UNCHANGED <<killed, present, ceremony, grants, revoked, consumed, store,
                 venue, world>>

\* The signer refuses when killed and when this leg was submitted before.
Admits(t) == ~signerKilled /\ <<Grant(t), thread[t].leg>> \notin consumed

\* Mutant: an order the venue did not match is no reason to kill.
TripsUnlessAnswered(ack) == ack \notin {"MATCHED", "UNMATCHED"}

\* expected_route_result_flags of an order answer: kill_required.
Trips(ack) == ack # "MATCHED"

Deliver(t) ==
  LET g == Grant(t) IN
  /\ At(t, "wire") /\ Admits(t)
  /\ consumed' = consumed \cup {<<g, thread[t].leg>>}
  /\ \E ack \in Acks :
       LET o == [grant |-> g, leg |-> thread[t].leg, ack |-> ack, late |-> g \in revoked] IN
       /\ orders' = orders \cup {o}
       /\ unsettled' = IF ack = "UNMATCHED" THEN unsettled ELSE unsettled \cup {o}
       /\ signerKilled' = Trips(ack)
       /\ thread' = [thread EXCEPT ![t].pc = "reply", ![t].ack = ack]
       /\ current' = IF ack = "UNMATCHED" THEN current ELSE {}
  /\ UNCHANGED <<killed, present, ceremony, grants, revoked, store, healthy>>

Refuse(t) ==
  /\ At(t, "wire") /\ ~Admits(t)
  /\ Return(t)
  /\ UNCHANGED <<killed, present, ceremony, grants, revoked, signer, store,
                 venue, world>>

Reply(t) ==
  /\ At(t, "reply")
  /\ Goto(t, "decide")
  /\ UNCHANGED <<killed, present, ceremony, grants, revoked, signer, store,
                 venue, world>>

----------------------------------------------------------------------------
(* _continuation, _recover and the end of the executor. *)
\* Mutant: the slice of the plan is one leg too long.
HasNextOrLast(t) == thread[t].leg <= Legs
HasNext(t) == thread[t].leg < Legs

NextLeg(t) == thread' = [thread EXCEPT ![t].pc = "persist", ![t].leg = @ + 1,
                                       ![t].ack = NoAck]

Decide(t) ==
  /\ At(t, "decide")
  /\ CASE thread[t].ack = "UNMATCHED" ->
            Goto(t, IF thread[t].leg = 1 THEN "halt" ELSE "recover")
       [] thread[t].ack = "MATCHED" ->
            \/ Goto(t, "recover")                   \* account older than the fill
            \/ IF HasNext(t) THEN NextLeg(t) ELSE Goto(t, "complete")
       [] OTHER -> Goto(t, "recover")
  /\ UNCHANGED <<killed, present, ceremony, grants, revoked, signer, store,
                 venue, world>>

\* The frozen unwinds of the legs that may have filled; the last leg has none.
Branches(t) == {l \in 1..(Legs - 1) :
                  l < thread[t].leg \/ (l = thread[t].leg /\ thread[t].ack # "UNMATCHED")}

\* The first unwind is persisted and authorised under the recovery grant, and
\* sent as a cancellation of an order id the signer never bound: every path
\* out of the unwind raises.
Recover(t) ==
  /\ At(t, "recover")
  /\ IF Branches(t) = {}
       THEN Goto(t, "halt") /\ UNCHANGED <<revoked, signerKilled, store>>
       ELSE /\ store' = [store EXCEPT !.intents = @ \cup
                           {<<Grant(t), CHOOSE l \in Branches(t) : \A k \in Branches(t) : l <= k,
                              "unwind">>}]
            /\ IF EvidenceOpen THEN UNCHANGED <<revoked, signerKilled>> ELSE PortKill(Grant(t))
            /\ Return(t)
  /\ UNCHANGED <<killed, present, ceremony, grants, consumed, venue, world>>

Halt(t) ==
  /\ At(t, "halt")
  /\ PortKill(Grant(t))
  /\ Goto(t, "record")
  /\ UNCHANGED <<killed, present, ceremony, grants, consumed, store, venue, world>>

\* The session row of a finished plan is the only one that leaves the kill
\* alone; a stop reason goes on to the services' own kill.
Record(t, from, state, next) ==
  /\ At(t, from)
  /\ store' = [store EXCEPT !.sessions = @ \cup {<<thread[t].ch, state>>}]
  /\ IF next = "idle" THEN Return(t) ELSE Goto(t, next)
  /\ UNCHANGED <<killed, present, ceremony, grants, revoked, signer, venue, world>>

----------------------------------------------------------------------------
(* _engage_kill of the services: revoke every kept grant while iterating   *)
(* over the dictionary, raise the flag, then one suppressed exchange.      *)
Revoke(t) ==
  /\ At(t, "revoke")
  /\ revoked' = revoked \cup grants
  /\ thread' = [thread EXCEPT ![t].pc = "kill", ![t].seen = grants]
  /\ UNCHANGED <<killed, present, ceremony, grants, signer, store, venue, world>>

\* The iteration raises when a grant was kept since it began.
Disturbed(t) == thread[t].seen # {} /\ thread[t].seen # grants

SetKill(t) ==
  /\ At(t, "kill")
  /\ IF Disturbed(t) THEN Return(t) /\ UNCHANGED killed
                     ELSE Goto(t, "trip") /\ killed' = TRUE
  /\ UNCHANGED <<present, ceremony, grants, revoked, signer, store, venue, world>>

Trip(t) ==
  /\ At(t, "trip")
  /\ signerKilled' = TRUE
  /\ Return(t)
  /\ UNCHANGED <<killed, present, ceremony, grants, revoked, consumed, store,
                 venue, world>>

\* POST /api/stop, and a heartbeat or page-close that finds presence lost.
Stop(t) ==
  /\ At(t, "idle")
  /\ Goto(t, "revoke")
  /\ UNCHANGED <<killed, present, ceremony, grants, revoked, signer, store,
                 venue, world>>

----------------------------------------------------------------------------
(* POST /api/kill/clear. *)
ClearRead(t) ==
  /\ At(t, "clearing")
  /\ SignerRead
  /\ IF Clean /\ thread[t].ch \in current THEN Goto(t, "cleared") ELSE Return(t)
  /\ UNCHANGED <<killed, present, ceremony, grants, revoked, consumed, store,
                 venue, world>>

ClearSet(t) ==
  /\ At(t, "cleared")
  /\ killed' = FALSE
  /\ Return(t)
  /\ UNCHANGED <<present, ceremony, grants, revoked, signer, store, venue, world>>

----------------------------------------------------------------------------
(* The environment. *)
\* A signer exchange or a store call of the handler raises: the server
\* answers 500 and the handler is gone; a suppressed kill exchange returns.
Raise(t) ==
  /\ thread[t].pc \in {"opening", "authorize", "clear", "freeze", "issue", "start", "persist", "sign",
                       "snapshot", "wire", "reply", "decide", "recover", "complete", "record",
                       "clearing", "cleared", "trip"}
  /\ Return(t)
  /\ UNCHANGED <<killed, present, ceremony, grants, revoked, signer, store,
                 venue, world>>

OperatorGone ==
  /\ present /\ present' = FALSE
  /\ UNCHANGED <<thread, killed, ceremony, grants, revoked, signer, store,
                 venue, world>>

Drift ==
  /\ healthy' = ~healthy
  /\ current' \in {current, {}}
  /\ UNCHANGED <<thread, killed, present, ceremony, grants, revoked, signer,
                 store, venue>>

Settle ==
  /\ \E o \in unsettled : unsettled' = unsettled \ {o}
  /\ current' = {}
  /\ UNCHANGED <<thread, killed, present, ceremony, grants, revoked, signer,
                 store, orders, healthy>>

\* The control process dies and with it the signer; a new launch starts
\* killed, with an empty ceremony and a fresh signer over the same store.
Restart ==
  /\ thread' = [t \in Threads |-> Idle]
  /\ killed' = TRUE /\ present' = TRUE
  /\ challenges' = {} /\ opened' = {} /\ spent' = {}
  /\ grants' = {} /\ revoked' = {}
  /\ signerKilled' = FALSE /\ consumed' = {}
  /\ UNCHANGED <<store, venue, world>>

----------------------------------------------------------------------------
Request(t) ==
  \/ \E c \in Challenges : Options(t, c) \/ Approve(t, c, "authorize") \/ Approve(t, c, "clear")
  \/ Stop(t)

Handle(t) ==
  \/ OpenChallenge(t)
  \/ Spend(t, "authorize", "freeze") \/ Spend(t, "clear", "clearing")
  \/ Replayed(t, "authorize") \/ Replayed(t, "clear")
  \/ Freeze(t) \/ Issue(t) \/ Keep(t) \/ Start(t)
  \/ Persist(t) \/ Check(t) \/ Sign(t) \/ Snapshot(t)
  \/ Deliver(t) \/ Refuse(t) \/ Reply(t) \/ Decide(t)
  \/ Recover(t) \/ Halt(t)
  \/ Record(t, "complete", "ACTIVE", "idle") \/ Record(t, "record", "STOPPED", "revoke")
  \/ Revoke(t) \/ SetKill(t) \/ Trip(t)
  \/ ClearRead(t) \/ ClearSet(t)
  \/ Raise(t)

Environment == OperatorGone \/ Drift \/ Settle \/ Restart

Next == /\ (\E t \in Threads : Request(t) \/ Handle(t)) \/ Environment
        /\ UNCHANGED provider

Spec == Init /\ [][Next]_vars
=============================================================================
