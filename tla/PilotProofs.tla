------------------------------ MODULE PilotProofs ------------------------------
(***************************************************************************)
(* Proofs about the launches of the pilot, for any number of request       *)
(* threads, challenges and legs.  A challenge is opened once and popped    *)
(* once, so that one request at a time executes for it (CeremonyInv); what *)
(* that request knows of its place in the plan agrees with the orders the  *)
(* venue has (View); and the orders agree with each other (OrderInv).      *)
(***************************************************************************)
EXTENDS PilotProperties, TLAPS

\* Requests that are not about a challenge.
Nameless == {"idle", "revoke", "kill", "trip"}
Granted == {"keep", "start"} \cup Executing
Sending == {"persist", "check", "sign", "snapshot", "wire"}
Answered == {"reply", "decide"}
Ending == {"recover", "halt", "complete", "record"}

\* Every other request is about one.
Named ==
  \A t \in Threads : thread[t].pc \notin Nameless => thread[t].ch \in Challenges

Types == TypeOK /\ Named

\* A challenge is opened by one request, once for all launches; the request that
\* popped it is alone with it, and the first to claim a grant for it.
CeremonyInv ==
  /\ opened \subseteq store.challenges /\ challenges \subseteq store.challenges
  /\ \A t \in Threads : At(t, "opening") =>
       /\ thread[t].ch \notin store.challenges
       /\ \A u \in Threads :
            At(u, "opening") /\ thread[u].ch = thread[t].ch => u = t
  /\ \A t \in Threads : thread[t].pc \in Authorizing =>
       /\ thread[t].ch \in store.challenges /\ thread[t].ch \notin opened
       /\ \A u \in Threads :
            thread[u].pc \in Authorizing /\ thread[u].ch = thread[t].ch => u = t
  /\ \A t \in Threads : thread[t].pc \in {"freeze", "issue"} =>
       \A g \in store.claims : g[1] # thread[t].ch
  /\ \A t \in Threads : thread[t].pc \in Granted => Grant(t) \in store.claims
  /\ \A g \in store.claims : g[1] \in store.challenges /\ g[1] \notin opened
  /\ \A g1, g2 \in store.claims : g1[1] = g2[1] => g1 = g2

Earlier(g, l) ==
  \A k \in 1..(l - 1) :
    \E e \in orders : e.grant = g /\ e.leg = k /\ e.ack = "MATCHED"

\* What an executing request may rely on.
View(t) ==
  LET pc == thread[t].pc
      l == thread[t].leg
      g == Grant(t)
  IN  /\ pc \in {"keep", "start"} => \A o \in orders : o.grant # g
      /\ pc \in Sending =>
           (\A o \in orders : o.grant = g => o.leg < l) /\ Earlier(g, l)
      /\ pc \in Answered =>
           /\ \A o \in orders : o.grant = g => o.leg <= l
           /\ Earlier(g, l)
           /\ \E o \in orders : o.grant = g /\ o.leg = l /\ o.ack = thread[t].ack
      /\ pc \in {"check", "sign", "snapshot", "wire"} =>
           << g, l, "leg" >> \in store.intents
      /\ pc \in Granted => \A o \in orders : o.grant = g /\ o.late => g \in revoked
      /\ pc \in {"sign", "snapshot", "wire"} =>
           \A o \in orders : o.grant = g => ~o.late

\* The orders the venue has.
OrderInv ==
  /\ EvidencedOrders /\ LegsInOrder /\ OneLateOrder
  /\ \A o1, o2 \in orders : o1.grant = o2.grant /\ o1.leg = o2.leg => o1 = o2
  /\ \A o \in orders : o.ack # "MATCHED" /\ o.grant[1] \in challenges => signerKilled

Inv == Types /\ CeremonyInv /\ (\A t \in Threads : View(t)) /\ OrderInv

------------------------------------------------------------------------------
(* How threads move *)

Calls == [ pc : Phases, ch : Challenges \cup {NoChallenge}, leg : 1..Legs,
           ack : Acks \cup {NoAck}, seen : SUBSET Grants ]

Alone(t) == \A u \in Threads : u # t => thread'[u] = thread[u]

\* A request that goes on keeps what it is about.
LEMMA Going ==
  ASSUME TypeOK, NEW t \in Threads, NEW pc \in Phases, Goto(t, pc)
  PROVE  /\ thread' \in [ Threads -> Calls ] /\ Alone(t)
         /\ thread'[t].pc = pc /\ thread'[t].ch = thread[t].ch
         /\ thread'[t].leg = thread[t].leg /\ thread'[t].ack = thread[t].ack
<1>1. thread \in [ Threads -> Calls ]
  BY DEF TypeOK, Calls
<1>2. thread' = [ thread EXCEPT ![t] = [ thread[t] EXCEPT !.pc = pc ] ]
  BY DEF Goto
<1>3. thread[t] \in Calls
  BY <1>1
<1>4. [ thread[t] EXCEPT !.pc = pc ] \in Calls
  BY <1>3 DEF Calls
<1>5. thread'[t] = [ thread[t] EXCEPT !.pc = pc ]
  BY <1>1, <1>2
<1>6. Alone(t) /\ thread' \in [ Threads -> Calls ]
  BY <1>1, <1>2, <1>4 DEF Alone
<1> QED BY <1>3, <1>5, <1>6 DEF Calls

\* A request that returns is over.
LEMMA Returning ==
  ASSUME TypeOK, NEW t \in Threads, Return(t)
  PROVE  /\ thread' \in [ Threads -> Calls ] /\ Alone(t)
         /\ thread'[t].pc = "idle"
<1>1. thread \in [ Threads -> Calls ]
  BY DEF TypeOK, Calls
<1>2. Idle \in Calls /\ Idle.pc = "idle"
  BY LegsAssumption DEF Idle, Calls, Phases
<1> QED BY <1>1, <1>2 DEF Return, Alone

\* What most steps leave as it is, or only add to.
Keeps ==
  /\ UNCHANGED << challenges, orders >> /\ opened' \subseteq opened
  /\ store'.claims = store.claims /\ store'.challenges = store.challenges
  /\ store.intents \subseteq store'.intents
  /\ revoked \subseteq revoked' /\ (signerKilled => signerKilled')

\* Steps at which a request knows afterwards what it knew before.
Onward(p, q) ==
  \/ p = "freeze" /\ q = "issue"
  \/ p = "keep" /\ q = "start"
  \/ p = "sign" /\ q = "snapshot"
  \/ p = "snapshot" /\ q = "wire"
  \/ p = "reply" /\ q = "decide"
  \/ p \in Executing /\ q \in Ending

Plain(t) ==
  /\ Keeps /\ Alone(t)
  /\ \/ thread'[t].pc \notin Authorizing \cup {"opening"}
     \/ /\ Onward(thread[t].pc, thread'[t].pc)
        /\ thread'[t].ch = thread[t].ch /\ thread'[t].leg = thread[t].leg
        /\ thread'[t].ack = thread[t].ack

\* The phases of a request, spelt out.
LEMMA PhaseNames ==
  /\ Nameless \subseteq Phases /\ Authorizing \subseteq Phases
  /\ {"opening", "authorize", "clear", "clearing", "cleared"} \subseteq Phases
  /\ Authorizing = {"freeze", "issue"} \cup Granted
  /\ Executing = Sending \cup Answered \cup Ending
  /\ Authorizing \cap (Nameless \cup {"opening", "authorize", "clear", "clearing",
                                     "cleared"}) = {}
  BY DEF Phases, Authorizing, Executing, Granted, Sending, Answered, Ending, Nameless

\* A step of one request that is about to learn nothing about an order.
LEMMA PlainSteps ==
  ASSUME TypeOK, NEW t \in Threads,
         \/ \E c \in Challenges : Approve(t, c, "authorize") \/ Approve(t, c, "clear")
         \/ Stop(t) \/ Spend(t, "clear", "clearing")
         \/ Replayed(t, "authorize") \/ Replayed(t, "clear")
         \/ Freeze(t) \/ Keep(t) \/ Sign(t) \/ Snapshot(t) \/ Refuse(t) \/ Reply(t)
         \/ Recover(t) \/ Halt(t)
         \/ Record(t, "complete", "ACTIVE", "idle") \/ Record(t, "record", "STOPPED", "revoke")
         \/ Revoke(t) \/ SetKill(t) \/ Trip(t) \/ ClearRead(t) \/ ClearSet(t) \/ Raise(t)
  PROVE  Plain(t)
<1> USE PhaseNames
<1>0. /\ thread \in [ Threads -> Calls ]
      /\ store \in [ challenges : SUBSET Challenges, claims : SUBSET Grants,
                     intents : SUBSET (Grants \X (1..Legs) \X {"leg", "unwind"}),
                     sessions : SUBSET (Challenges \X {"ACTIVE", "STOPPED"}) ]
  BY DEF TypeOK, Calls
<1>1. ASSUME Return(t), Keeps PROVE Plain(t)
  BY <1>1, Returning DEF Plain, Nameless
<1>2. ASSUME NEW q \in Phases \ (Authorizing \cup {"opening"}), Goto(t, q), Keeps
      PROVE  Plain(t)
  BY <1>2, Going DEF Plain
<1>3. ASSUME NEW q \in Authorizing, Goto(t, q), Onward(thread[t].pc, q), Keeps
      PROVE  Plain(t)
  BY <1>3, Going DEF Plain
<1>4. ASSUME UNCHANGED << challenges, opened, orders, store, revoked, signerKilled >>
      PROVE  Keeps
  BY <1>4 DEF Keeps
<1>5. ASSUME NEW c \in Challenges, NEW q \in {"authorize", "clear"}, Approve(t, c, q)
      PROVE  Plain(t)
  <2>1. thread' = [ thread EXCEPT ![t] = [ thread[t] EXCEPT !.pc = q, !.ch = c ] ]
    BY <1>5 DEF Approve
  <2>2. thread'[t].pc = q /\ Alone(t)
    BY <1>0, <2>1 DEF Alone, Calls
  <2> QED BY <1>4, <1>5, <2>2 DEF Approve, Plain, ceremony, signer, venue
<1>6. CASE Stop(t)
  BY <1>2, <1>4, <1>6 DEF Stop, Nameless, ceremony, signer, venue
<1>7. CASE Spend(t, "clear", "clearing")
  <2>1. Keeps
    BY <1>7 DEF Spend, TakeOpen, Keeps, signer, venue
  <2> QED BY <1>1, <1>2, <1>7, <2>1 DEF Spend
<1>8. ASSUME NEW q, Replayed(t, q) PROVE Plain(t)
  BY <1>1, <1>4, <1>8 DEF Replayed, ceremony, signer, venue
<1>9. ASSUME SignerRead, UNCHANGED << challenges, opened, orders, store, revoked >>
      PROVE  Keeps
  BY <1>9 DEF SignerRead, Keeps
<1>10. CASE Freeze(t)
  <2>1. Keeps
    BY <1>9, <1>10 DEF Freeze, ceremony, venue
  <2>2. Goto(t, "issue") \/ Goto(t, "revoke")
    BY <1>10 DEF Freeze
  <2> QED BY <1>2, <1>3, <1>10, <2>1, <2>2 DEF Freeze, At, Onward, Nameless
<1>11. CASE Keep(t)
  BY <1>3, <1>4, <1>11 DEF Keep, At, Onward, Granted, ceremony, signer, venue
<1>12. CASE Sign(t)
  <2>1. Keeps
    BY <1>9, <1>12 DEF Sign, ceremony, venue
  <2>2. Goto(t, "snapshot") \/ Return(t)
    BY <1>12 DEF Sign
  <2> QED BY <1>1, <1>3, <1>12, <2>1, <2>2 DEF Sign, At, Onward, Granted, Sending
<1>13. CASE Snapshot(t)
  <2>1. Keeps
    BY <1>9, <1>13 DEF Snapshot, ceremony, venue
  <2>2. Goto(t, "wire") \/ Return(t)
    BY <1>13 DEF Snapshot
  <2> QED BY <1>1, <1>3, <1>13, <2>1, <2>2 DEF Snapshot, At, Onward, Granted, Sending
<1>14. CASE Refuse(t)
  BY <1>1, <1>4, <1>14 DEF Refuse, ceremony, signer, venue
<1>15. CASE Reply(t)
  BY <1>3, <1>4, <1>15 DEF Reply, At, Onward, Granted, Answered, ceremony, signer, venue
<1>16. ASSUME NEW g, PortKill(g), UNCHANGED << challenges, opened, orders >>,
              store'.claims = store.claims, store'.challenges = store.challenges,
              store.intents \subseteq store'.intents
       PROVE  Keeps
  <2>1. signerKilled' = signerKilled \/ signerKilled' = TRUE
    BY <1>16 DEF PortKill
  <2>2. signerKilled => signerKilled'
    BY <2>1
  <2> QED BY <1>16, <2>2 DEF PortKill, Keeps
<1>17. CASE Recover(t)
  <2>1. \/ store' = store
        \/ \E i : store' = [ store EXCEPT !.intents = @ \cup {i} ]
    BY <1>17 DEF Recover
  <2>2. /\ store'.claims = store.claims /\ store'.challenges = store.challenges
        /\ store.intents \subseteq store'.intents
    BY <1>0, <2>1
  <2>3. UNCHANGED << challenges, opened, orders >>
    BY <1>17 DEF Recover, ceremony, venue
  <2>4. UNCHANGED << revoked, signerKilled >> \/ PortKill(Grant(t))
    BY <1>17 DEF Recover
  <2>5. Keeps
    BY <1>16, <2>2, <2>3, <2>4 DEF Keeps
  <2>6. Goto(t, "halt") \/ Return(t)
    BY <1>17 DEF Recover
  <2> QED BY <1>1, <1>3, <1>17, <2>5, <2>6
          DEF Recover, At, Onward, Granted, Ending
<1>18. CASE Halt(t)
  <2>1. Keeps
    BY <1>16, <1>18 DEF Halt, ceremony, venue
  <2> QED BY <1>3, <1>18, <2>1 DEF Halt, At, Onward, Granted, Ending
<1>19. ASSUME NEW from, NEW st, NEW next \in Nameless, Record(t, from, st, next)
       PROVE  Plain(t)
  <2>1. \E x : store' = [ store EXCEPT !.sessions = @ \cup {x} ]
    BY <1>19 DEF Record
  <2>2. Keeps
    BY <1>0, <1>19, <2>1 DEF Record, Keeps, ceremony, signer, venue
  <2>3. Return(t) \/ Goto(t, next)
    BY <1>19 DEF Record
  <2> QED BY <1>1, <1>2, <2>2, <2>3 DEF Nameless
<1>20. CASE Revoke(t)
  <2>1. thread' = [ thread EXCEPT ![t] = [ thread[t] EXCEPT !.pc = "kill", !.seen = grants ] ]
    BY <1>20 DEF Revoke
  <2>2. thread'[t].pc = "kill" /\ Alone(t)
    BY <1>0, <2>1 DEF Alone, Calls
  <2>3. Keeps
    BY <1>20 DEF Revoke, Keeps, ceremony, signer, venue
  <2> QED BY <2>2, <2>3 DEF Plain, Nameless
<1>21. CASE SetKill(t)
  <2>1. Return(t) \/ Goto(t, "trip")
    BY <1>21 DEF SetKill
  <2>2. Keeps
    BY <1>4, <1>21 DEF SetKill, ceremony, signer, venue
  <2> QED BY <1>1, <1>2, <2>1, <2>2 DEF Nameless
<1>22. CASE Trip(t)
  <2>1. Keeps
    BY <1>22 DEF Trip, Keeps, ceremony, venue
  <2> QED BY <1>1, <1>22, <2>1 DEF Trip
<1>23. CASE ClearRead(t)
  <2>1. Keeps
    BY <1>9, <1>23 DEF ClearRead, ceremony, venue
  <2>2. Goto(t, "cleared") \/ Return(t)
    BY <1>23 DEF ClearRead
  <2> QED BY <1>1, <1>2, <2>1, <2>2
<1>24. CASE ClearSet(t)
  BY <1>1, <1>4, <1>24 DEF ClearSet, ceremony, signer, venue
<1>25. CASE Raise(t)
  BY <1>1, <1>4, <1>25 DEF Raise, ceremony, signer, venue
<1> QED BY <1>5, <1>6, <1>7, <1>8, <1>10, <1>11, <1>12, <1>13, <1>14, <1>15, <1>17,
           <1>18, <1>19, <1>20, <1>21, <1>22, <1>23, <1>24, <1>25 DEF Nameless

\* Every step is plain, or one of the few that open, pop, claim, send or go on.
LEMMA Moves ==
  ASSUME TypeOK, [Next]_vars
  PROVE  \/ Keeps /\ thread' = thread
         \/ Restart
         \/ \E t \in Threads :
              \/ Plain(t)
              \/ \E c \in Challenges : Options(t, c)
              \/ OpenChallenge(t) \/ Spend(t, "authorize", "freeze") \/ Issue(t)
              \/ Start(t) \/ Persist(t) \/ Check(t) \/ Deliver(t) \/ Decide(t)
<1>1. ASSUME Environment PROVE Restart \/ (Keeps /\ thread' = thread)
  BY <1>1 DEF Environment, OperatorGone, Drift, Settle, Keeps, ceremony, signer, venue
<1>2. ASSUME UNCHANGED vars PROVE Keeps /\ thread' = thread
  BY <1>2 DEF vars, Keeps
<1>3. ASSUME NEW t \in Threads, Request(t)
      PROVE  Plain(t) \/ \E c \in Challenges : Options(t, c)
  BY <1>3, PlainSteps DEF Request
<1>4. ASSUME NEW t \in Threads, Handle(t)
      PROVE  \/ Plain(t)
             \/ OpenChallenge(t) \/ Spend(t, "authorize", "freeze") \/ Issue(t)
             \/ Start(t) \/ Persist(t) \/ Check(t) \/ Deliver(t) \/ Decide(t)
  BY <1>4, PlainSteps DEF Handle
<1> QED BY <1>1, <1>2, <1>3, <1>4 DEF Next

------------------------------------------------------------------------------
(* Types *)

\* What a step writes besides the threads.
Others ==
  /\ killed \in BOOLEAN /\ present \in BOOLEAN
  /\ challenges \subseteq Challenges /\ opened \subseteq Challenges
  /\ spent \subseteq Challenges
  /\ grants \subseteq Grants /\ revoked \subseteq Grants
  /\ signerKilled \in BOOLEAN
  /\ consumed \subseteq Grants \X (1..Legs)
  /\ store \in [ challenges : SUBSET Challenges, claims : SUBSET Grants,
                 intents : SUBSET (Grants \X (1..Legs) \X {"leg", "unwind"}),
                 sessions : SUBSET (Challenges \X {"ACTIVE", "STOPPED"}) ]
  /\ orders \subseteq Orders /\ unsettled \subseteq orders
  /\ healthy \in BOOLEAN /\ current \subseteq Challenges
  /\ provider \in Providers

LEMMA TypeParts == Types <=> (thread \in [ Threads -> Calls ] /\ Others /\ Named)
  BY DEF Types, TypeOK, Others, Calls

\* Nothing is initially at rest but the kill.
LEMMA InitTypes == Init => Types
<1> SUFFICES ASSUME Init PROVE Types
  OBVIOUS
<1>1. Idle \in Calls
  BY LegsAssumption DEF Idle, Calls, Phases
<1>2. thread = [ t \in Threads |-> Idle ]
  BY DEF Init
<1>3. thread \in [ Threads -> Calls ] /\ \A t \in Threads : thread[t].pc = "idle"
  BY <1>1, <1>2 DEF Idle
<1>4. Others
  BY DEF Init, Others
<1> QED BY <1>3, <1>4, TypeParts DEF Named, Nameless

\* A request returns, or goes on about the challenge it is about.
LEMMA Threading ==
  ASSUME Types, NEW t \in Threads,
         \/ Return(t)
         \/ \E q \in Nameless : Goto(t, q)
         \/ thread[t].pc \notin Nameless /\ \E q \in Phases : Goto(t, q)
  PROVE  thread' \in [ Threads -> Calls ] /\ Named'
<1>1. TypeOK /\ Named
  BY DEF Types
<1>2. CASE Return(t)
  <2>1. thread' \in [ Threads -> Calls ] /\ Alone(t) /\ thread'[t].pc = "idle"
    BY <1>1, <1>2, Returning
  <2> QED BY <1>1, <2>1 DEF Named, Alone, Nameless
<1>3. ASSUME NEW q \in Nameless, Goto(t, q)
      PROVE  thread' \in [ Threads -> Calls ] /\ Named'
  <2>1. thread' \in [ Threads -> Calls ] /\ Alone(t) /\ thread'[t].pc = q
    BY <1>1, <1>3, Going, PhaseNames
  <2> QED BY <1>1, <2>1 DEF Named, Alone
<1>4. ASSUME NEW q \in Phases, Goto(t, q), thread[t].pc \notin Nameless
      PROVE  thread' \in [ Threads -> Calls ] /\ Named'
  <2>1. /\ thread' \in [ Threads -> Calls ] /\ Alone(t)
        /\ thread'[t].ch = thread[t].ch
    BY <1>1, <1>4, Going
  <2> QED BY <1>1, <1>4, <2>1 DEF Named, Alone
<1> QED BY <1>2, <1>3, <1>4

\* The requests that start, and the answers that are kept.
LEMMA Starting ==
  ASSUME Types, NEW t \in Threads,
         \/ \E c \in Challenges :
              Options(t, c) \/ Approve(t, c, "authorize") \/ Approve(t, c, "clear")
         \/ Stop(t) \/ Start(t) \/ Deliver(t) \/ Decide(t) \/ Revoke(t)
  PROVE  thread' \in [ Threads -> Calls ] /\ Named'
<1> USE PhaseNames, LegsAssumption
<1>0. TypeOK /\ Named /\ thread \in [ Threads -> Calls ] /\ grants \subseteq Grants
  BY DEF Types, TypeOK, Calls
<1>1. thread[t] \in Calls
  BY <1>0
<1>2. ASSUME NEW r \in Calls, thread' = [ thread EXCEPT ![t] = r ],
             r.pc \in Nameless \/ r.ch \in Challenges
      PROVE  thread' \in [ Threads -> Calls ] /\ Named'
  BY <1>0, <1>2 DEF Named
<1>3. ASSUME NEW c \in Challenges, NEW q \in {"opening", "authorize", "clear"},
             thread' = [ thread EXCEPT ![t].pc = q, ![t].ch = c ]
      PROVE  thread' \in [ Threads -> Calls ] /\ Named'
  <2> DEFINE r == [ thread[t] EXCEPT !.pc = q, !.ch = c ]
  <2>1. r \in Calls /\ r.ch = c
    BY <1>1 DEF Calls
  <2>2. thread' = [ thread EXCEPT ![t] = r ]
    BY <1>3
  <2> HIDE DEF r
  <2> QED BY <1>2, <2>1, <2>2
<1>4. ASSUME NEW c \in Challenges, Options(t, c)
      PROVE  thread' \in [ Threads -> Calls ] /\ Named'
  <2>1. thread' = [ thread EXCEPT ![t].pc = "opening", ![t].ch = c ] \/ Goto(t, "revoke")
    BY <1>4 DEF Options
  <2> QED BY <1>3, <2>1, Threading DEF Nameless
<1>5. ASSUME NEW c \in Challenges, NEW q \in {"authorize", "clear"}, Approve(t, c, q)
      PROVE  thread' \in [ Threads -> Calls ] /\ Named'
  BY <1>3, <1>5 DEF Approve
<1>6. CASE Stop(t)
  BY <1>6, Threading DEF Stop, Nameless
<1>7. CASE Start(t)
  <2>1. CASE Return(t)
    BY <2>1, Threading
  <2>2. CASE thread' = [ thread EXCEPT ![t].pc = "persist", ![t].leg = FirstLeg ]
    <3> DEFINE r == [ thread[t] EXCEPT !.pc = "persist", !.leg = FirstLeg ]
    <3>1. "persist" \in Phases /\ FirstLeg \in 1..Legs
      BY DEF Granted, Sending, FirstLeg
    <3>2. r \in Calls /\ r.ch = thread[t].ch
      BY <1>1, <3>1 DEF Calls
    <3>3. thread[t].ch \in Challenges
      BY <1>0, <1>7 DEF Start, At, Named, Nameless
    <3>4. thread' = [ thread EXCEPT ![t] = r ]
      BY <2>2
    <3> HIDE DEF r
    <3> QED BY <1>2, <3>2, <3>3, <3>4
  <2> QED BY <1>7, <2>1, <2>2 DEF Start
<1>8. CASE Deliver(t)
  <2>1. PICK ack \in Acks : thread' = [ thread EXCEPT ![t].pc = "reply", ![t].ack = ack ]
    BY <1>8 DEF Deliver
  <2> DEFINE r == [ thread[t] EXCEPT !.pc = "reply", !.ack = ack ]
  <2>2. "reply" \in Phases
    BY DEF Granted, Answered
  <2>3. r \in Calls /\ r.ch = thread[t].ch
    BY <1>1, <2>2 DEF Calls
  <2>4. thread[t].ch \in Challenges
    BY <1>0, <1>8 DEF Deliver, At, Named, Nameless
  <2>5. thread' = [ thread EXCEPT ![t] = r ]
    BY <2>1
  <2> HIDE DEF r
  <2> QED BY <1>2, <2>3, <2>4, <2>5
<1>9. CASE Decide(t)
  <2>1. thread[t].pc \notin Nameless
    BY <1>9 DEF Decide, At, Nameless
  <2>2. \/ Goto(t, "halt") \/ Goto(t, "recover") \/ Goto(t, "complete")
        \/ HasNext(t) /\ NextLeg(t)
    BY <1>9 DEF Decide
  <2>3. {"halt", "recover", "complete", "persist"} \subseteq Phases
    BY DEF Granted, Ending, Sending
  <2>4. CASE HasNext(t) /\ NextLeg(t)
    <3> DEFINE r == [ thread[t] EXCEPT !.pc = "persist", !.leg = @ + 1, !.ack = NoAck ]
    <3>1. thread[t].leg + 1 \in 1..Legs
      BY <1>1, <2>4 DEF HasNext, Calls
    <3>2. r \in Calls /\ r.ch = thread[t].ch
      BY <1>1, <2>3, <3>1 DEF Calls
    <3>3. thread[t].ch \in Challenges
      BY <1>0, <2>1 DEF Named
    <3>4. thread' = [ thread EXCEPT ![t] = r ]
      BY <2>4 DEF NextLeg
    <3> HIDE DEF r
    <3> QED BY <1>2, <3>2, <3>3, <3>4
  <2> QED BY <2>1, <2>2, <2>3, <2>4, Threading
<1>10. CASE Revoke(t)
  <2> DEFINE r == [ thread[t] EXCEPT !.pc = "kill", !.seen = grants ]
  <2>1. r \in Calls /\ r.pc \in Nameless
    BY <1>0, <1>1 DEF Calls, Nameless
  <2>2. thread' = [ thread EXCEPT ![t] = r ]
    BY <1>10 DEF Revoke
  <2> HIDE DEF r
  <2> QED BY <1>2, <2>1, <2>2
<1> QED BY <1>4, <1>5, <1>6, <1>7, <1>8, <1>9, <1>10

\* The answer of the venue is recorded.
LEMMA Delivering ==
  ASSUME Types, NEW t \in Threads, Deliver(t), UNCHANGED provider
  PROVE  Others'
<1>1. Others /\ Named /\ thread \in [ Threads -> Calls ]
  BY TypeParts
<1>2. thread[t].ch \in Challenges /\ thread[t].leg \in 1..Legs
  BY <1>1 DEF Deliver, At, Named, Nameless, Calls
<1>3. Grant(t) \in Grants
  BY <1>2 DEF Grant, Grants
<1>4. PICK ack \in Acks :
        LET o == [ grant |-> Grant(t), leg |-> thread[t].leg, ack |-> ack,
                   late |-> Grant(t) \in revoked ]
        IN  /\ orders' = orders \cup {o}
            /\ unsettled' = IF ack = "UNMATCHED" THEN unsettled ELSE unsettled \cup {o}
            /\ signerKilled' = Trips(ack)
            /\ current' = IF ack = "UNMATCHED" THEN current ELSE {}
  BY DEF Deliver
<1>5. [ grant |-> Grant(t), leg |-> thread[t].leg, ack |-> ack,
        late |-> Grant(t) \in revoked ] \in Orders
  BY <1>2, <1>3 DEF Orders
<1>6. orders' \subseteq Orders /\ unsettled' \subseteq orders' /\ current' \subseteq Challenges
  BY <1>1, <1>4, <1>5 DEF Others
<1>7. signerKilled' \in BOOLEAN
  BY <1>4 DEF Trips
<1>8. consumed' \subseteq Grants \X (1..Legs)
  BY <1>1, <1>2, <1>3 DEF Deliver, Others
<1> QED BY <1>1, <1>6, <1>7, <1>8 DEF Deliver, Others, ceremony

\* Every step keeps the types.
LEMMA TypesStep ==
  ASSUME Types, [Next]_vars
  PROVE  Types'
<1> USE PhaseNames
<1>0. TypeOK /\ Named /\ Others /\ thread \in [ Threads -> Calls ]
  BY TypeParts DEF Types
<1>1. ASSUME thread' \in [ Threads -> Calls ] /\ Named', Others'
      PROVE  Types'
  BY <1>1 DEF Types, TypeOK, Others, Calls
<1>2. CASE UNCHANGED vars
  <2>1. UNCHANGED << killed, present, challenges, opened, spent, grants, revoked,
                     signerKilled, consumed, store, orders, unsettled, healthy,
                     current, provider >>
    BY <1>2 DEF vars
  <2>2. Others'
    BY <1>0, <2>1 DEF Others
  <2>3. thread' = thread
    BY <1>2 DEF vars
  <2> QED BY <1>0, <1>1, <2>2, <2>3 DEF Named
<1>3. CASE Environment /\ UNCHANGED provider
  <2>1. CASE OperatorGone
    BY <1>0, <1>1, <1>3, <2>1 DEF OperatorGone, Others, Named, ceremony, signer, venue, world
  <2>2. CASE Drift
    BY <1>0, <1>1, <1>3, <2>2 DEF Drift, Others, Named, ceremony, signer, venue
  <2>3. CASE Settle
    <3>1. Others'
      BY <1>0, <1>3, <2>3 DEF Settle, Others, ceremony, signer
    <3> QED BY <1>0, <1>1, <2>3, <3>1 DEF Settle, Named
  <2>4. CASE Restart
    <3>1. Others'
      BY <1>0, <1>3, <2>4 DEF Restart, Others, venue, world
    <3>2. Idle \in Calls /\ Idle.pc = "idle"
      BY LegsAssumption DEF Idle, Calls, Nameless
    <3>3. thread' \in [ Threads -> Calls ] /\ \A t \in Threads : thread'[t].pc = "idle"
      BY <2>4, <3>2 DEF Restart
    <3>4. Named'
      BY <3>3 DEF Named, Nameless
    <3> QED BY <1>1, <3>1, <3>3, <3>4
  <2> QED BY <1>3, <2>1, <2>2, <2>3, <2>4 DEF Environment
<1>4. ASSUME SignerRead PROVE signerKilled' \in BOOLEAN
  BY <1>0, <1>4 DEF SignerRead, Others
<1>5. ASSUME NEW t \in Threads, thread[t].pc \notin Nameless
      PROVE  thread[t].ch \in Challenges /\ thread[t].leg \in 1..Legs /\ Grant(t) \in Grants
  BY <1>0, <1>5 DEF Named, Calls, Grant, Grants
<1>6. ASSUME NEW t \in Threads, Request(t), UNCHANGED provider PROVE Types'
  <2>1. thread' \in [ Threads -> Calls ] /\ Named'
    BY <1>6, Starting DEF Request
  <2>2. ASSUME NEW c \in Challenges, Options(t, c) PROVE Others'
    <3>1. current' \subseteq Challenges
      BY <1>0, <2>2 DEF Options, Remembered, Others
    <3> QED BY <1>0, <1>4, <1>6, <2>2, <3>1 DEF Options, Others, ceremony, venue
  <2>3. ASSUME NEW c, NEW q, Approve(t, c, q) PROVE Others'
    BY <1>0, <1>6, <2>3 DEF Approve, Others, ceremony, signer, venue, world
  <2>4. ASSUME Stop(t) PROVE Others'
    BY <1>0, <1>6, <2>4 DEF Stop, Others, ceremony, signer, venue, world
  <2>5. Others'
    BY <1>6, <2>2, <2>3, <2>4 DEF Request
  <2> QED BY <1>1, <2>1, <2>5
<1>7. ASSUME NEW t \in Threads, NEW q \in Phases,
             thread[t].pc \notin Nameless \/ q \in Nameless,
             Goto(t, q) \/ Return(t), Others'
      PROVE  Types'
  BY <1>1, <1>7, Threading
<1>8. ASSUME NEW t \in Threads, UNCHANGED provider,
             OpenChallenge(t) \/ Issue(t) \/ Keep(t) \/ Persist(t) \/ Recover(t)
      PROVE  Types'
  <2>1. /\ thread[t].ch \in Challenges /\ thread[t].leg \in 1..Legs /\ Grant(t) \in Grants
        /\ thread[t].pc \notin Nameless
    BY <1>5, <1>8 DEF OpenChallenge, Issue, Keep, Persist, Recover, At, Nameless
  <2>2. CASE OpenChallenge(t)
    <3>1. Others'
      BY <1>0, <1>8, <2>1, <2>2 DEF OpenChallenge, Others, signer, venue, world
    <3> QED BY <1>7, <2>1, <2>2, <3>1 DEF OpenChallenge
  <2>3. CASE Issue(t)
    <3>1. Others'
      BY <1>0, <1>8, <2>1, <2>3 DEF Issue, Others, ceremony, signer, venue, world
    <3> QED BY <1>7, <2>1, <2>3, <3>1 DEF Issue, Granted
  <2>4. CASE Keep(t)
    <3>1. Others'
      BY <1>0, <1>8, <2>1, <2>4 DEF Keep, Others, ceremony, signer, venue, world
    <3> QED BY <1>7, <2>1, <2>4, <3>1 DEF Keep, Granted
  <2>5. CASE Persist(t)
    <3>1. << Grant(t), thread[t].leg, "leg" >> \in Grants \X (1..Legs) \X {"leg", "unwind"}
      BY <2>1
    <3>2. Others'
      BY <1>0, <1>8, <2>5, <3>1 DEF Persist, Others, ceremony, signer, venue, world
    <3> QED BY <1>7, <2>1, <2>5, <3>2 DEF Persist, Granted, Sending
  <2>6. CASE Recover(t)
    <3>1. /\ revoked' = revoked \/ revoked' = revoked \cup {Grant(t)}
          /\ signerKilled' \in BOOLEAN
      BY <1>0, <2>6 DEF Recover, PortKill, Others
    <3>2. store' \in [ challenges : SUBSET Challenges, claims : SUBSET Grants,
                      intents : SUBSET (Grants \X (1..Legs) \X {"leg", "unwind"}),
                      sessions : SUBSET (Challenges \X {"ACTIVE", "STOPPED"}) ]
      <4> DEFINE first == CHOOSE l \in Branches(t) : \A k \in Branches(t) : l <= k
      <4>1. CASE Branches(t) = {}
        BY <1>0, <2>6, <4>1 DEF Recover, Others
      <4>2. CASE Branches(t) # {}
        <5>1. Branches(t) \subseteq 1..(Legs - 1)
          BY DEF Branches
        <5>2. \E l \in Branches(t) : \A k \in Branches(t) : l <= k
          <6>1. \E l \in Branches(t) : TRUE
            BY <4>2
          <6>2. 1 \in Branches(t)
            BY <2>1, <5>1, <6>1, LegsAssumption DEF Branches
          <6> QED BY <5>1, <6>2
        <5>3. first \in Branches(t)
          BY <5>2
        <5>4. first \in 1..Legs
          BY <5>1, <5>3, LegsAssumption
        <5> HIDE DEF first
        <5>5. << Grant(t), first, "unwind" >> \in Grants \X (1..Legs) \X {"leg", "unwind"}
          BY <2>1, <5>4
        <5>6. store' = [ store EXCEPT !.intents = @ \cup {<< Grant(t), first, "unwind" >>} ]
          BY <2>6, <4>2 DEF Recover, first
        <5> QED BY <1>0, <5>5, <5>6 DEF Others
      <4> QED BY <4>1, <4>2
    <3>3. Others'
      BY <1>0, <1>8, <2>1, <2>6, <3>1, <3>2 DEF Recover, Others, ceremony, venue, world
    <3> QED BY <1>7, <2>1, <2>6, <3>3 DEF Recover, Granted, Ending
  <2> QED BY <1>8, <2>2, <2>3, <2>4, <2>5, <2>6
<1>9. ASSUME NEW t \in Threads, UNCHANGED provider,
             Start(t) \/ Deliver(t) \/ Decide(t) \/ Revoke(t)
      PROVE  Types'
  <2>1. thread' \in [ Threads -> Calls ] /\ Named'
    BY <1>9, Starting
  <2>2. CASE Start(t)
    BY <1>0, <1>1, <1>9, <2>1, <2>2 DEF Start, Others, ceremony, signer, venue, world
  <2>3. CASE Deliver(t)
    BY <1>1, <1>9, <2>1, <2>3, Delivering
  <2>4. CASE Decide(t)
    BY <1>0, <1>1, <1>9, <2>1, <2>4 DEF Decide, Others, ceremony, signer, venue, world
  <2>5. CASE Revoke(t)
    BY <1>0, <1>1, <1>9, <2>1, <2>5 DEF Revoke, Others, ceremony, signer, venue, world
  <2> QED BY <1>9, <2>2, <2>3, <2>4, <2>5
<1>10. ASSUME NEW t \in Threads, NEW q \in {"authorize", "clear"},
              NEW next \in {"freeze", "clearing"}, Spend(t, q, next), UNCHANGED provider
       PROVE  Types'
  <2>1. thread[t].pc \notin Nameless /\ thread[t].ch \in Challenges
    BY <1>5, <1>10 DEF Spend, At, Nameless
  <2>2. Others'
    BY <1>0, <1>10, <2>1 DEF Spend, TakeOpen, Others, signer, venue, world
  <2> QED BY <1>7, <1>10, <2>1, <2>2 DEF Spend
<1>11. ASSUME NEW t \in Threads, NEW from \in {"complete", "record"},
              NEW st \in {"ACTIVE", "STOPPED"}, NEW next \in Nameless,
              Record(t, from, st, next), UNCHANGED provider
       PROVE  Types'
  <2>1. thread[t].pc \notin Nameless /\ thread[t].ch \in Challenges
    BY <1>5, <1>11 DEF Record, At, Nameless
  <2>2. << thread[t].ch, st >> \in Challenges \X {"ACTIVE", "STOPPED"}
    BY <2>1
  <2>3. Others'
    BY <1>0, <1>11, <2>2 DEF Record, Others, ceremony, signer, venue, world
  <2> QED BY <1>7, <1>11, <2>1, <2>3 DEF Record
<1>12. ASSUME NEW t \in Threads, UNCHANGED provider,
              Freeze(t) \/ Sign(t) \/ Snapshot(t) \/ ClearRead(t)
       PROVE  Types'
  <2>1. thread[t].pc \notin Nameless
    BY <1>12 DEF Freeze, Sign, Snapshot, ClearRead, At, Nameless
  <2>2. Others'
    BY <1>0, <1>4, <1>12 DEF Freeze, Sign, Snapshot, ClearRead, Others, ceremony, venue, world
  <2>3. {"issue", "revoke", "snapshot", "wire", "cleared"} \subseteq Phases
    BY DEF Granted, Sending, Nameless
  <2> QED BY <1>7, <1>12, <2>1, <2>2, <2>3 DEF Freeze, Sign, Snapshot, ClearRead
<1>13. ASSUME NEW t \in Threads, UNCHANGED provider, Check(t) \/ Halt(t)
       PROVE  Types'
  <2>1. thread[t].pc \notin Nameless /\ Grant(t) \in Grants
    BY <1>5, <1>13 DEF Check, Halt, At, Nameless
  <2>2. /\ revoked' = revoked \/ revoked' = revoked \cup {Grant(t)}
        /\ signerKilled' \in BOOLEAN
    BY <1>0, <1>13 DEF Check, Halt, PortKill, Others
  <2>3. Others'
    BY <1>0, <1>13, <2>1, <2>2 DEF Check, Halt, Others, ceremony, venue, world
  <2>4. {"sign", "record"} \subseteq Phases
    BY DEF Granted, Sending, Ending
  <2> QED BY <1>7, <1>13, <2>1, <2>3, <2>4 DEF Check, Halt
<1>14. ASSUME NEW t \in Threads, UNCHANGED provider,
              \/ Replayed(t, "authorize") \/ Replayed(t, "clear") \/ Refuse(t) \/ Reply(t)
              \/ SetKill(t) \/ Trip(t) \/ ClearSet(t) \/ Raise(t)
       PROVE  Types'
  <2>1. Others'
    BY <1>0, <1>14 DEF Replayed, Refuse, Reply, SetKill, Trip, ClearSet, Raise, Others,
                       ceremony, signer, venue, world
  <2>2. Return(t) \/ Goto(t, "trip") \/ (thread[t].pc = "reply" /\ Goto(t, "decide"))
    BY <1>14 DEF Replayed, Refuse, Reply, SetKill, Trip, ClearSet, Raise, At
  <2>3. {"trip", "decide"} \subseteq Phases
    BY DEF Granted, Answered, Nameless
  <2> QED BY <1>7, <2>1, <2>2, <2>3 DEF Nameless
<1>15. ASSUME NEW t \in Threads, Handle(t), UNCHANGED provider PROVE Types'
  BY <1>8, <1>9, <1>10, <1>11, <1>12, <1>13, <1>14, <1>15 DEF Handle, Nameless
<1> QED BY <1>2, <1>3, <1>6, <1>15 DEF Next

------------------------------------------------------------------------------
(* The ceremony *)

\* A request that goes on under the grant it has, or ends, changes nothing.
LEMMA CeremonyKept ==
  ASSUME Types, CeremonyInv, NEW t \in Threads, Alone(t),
         UNCHANGED challenges, opened' \subseteq opened,
         store'.claims = store.claims, store'.challenges = store.challenges,
         \/ thread'[t].pc \notin Authorizing \cup {"opening"}
         \/ /\ thread'[t].ch = thread[t].ch
            /\ \/ thread[t].pc \in Granted /\ thread'[t].pc \in Granted
               \/ thread[t].pc = "freeze" /\ thread'[t].pc = "issue"
  PROVE  CeremonyInv'
<1> USE PhaseNames
<1>1. \A u \in Threads :
        \/ thread'[u].pc \notin Authorizing \cup {"opening"}
        \/ thread'[u] = thread[u]
        \/ /\ thread'[u].ch = thread[u].ch
           /\ \/ thread[u].pc \in Granted /\ thread'[u].pc \in Granted
              \/ thread[u].pc = "freeze" /\ thread'[u].pc = "issue"
  BY DEF Alone
<1>2. \A u \in Threads : thread'[u].pc = "opening" =>
        thread[u].pc = "opening" /\ thread'[u].ch = thread[u].ch
  BY <1>1 DEF Granted, Executing
<1>3. \A u \in Threads : thread'[u].pc \in Authorizing =>
        thread[u].pc \in Authorizing /\ thread'[u].ch = thread[u].ch
  BY <1>1
<1>4. \A u \in Threads : thread'[u].pc \in {"freeze", "issue"} =>
        thread[u].pc \in {"freeze", "issue"} /\ thread'[u].ch = thread[u].ch
  BY <1>1 DEF Granted, Executing
<1>5. \A u \in Threads : thread'[u].pc \in Granted =>
        thread[u].pc \in Granted /\ thread'[u].ch = thread[u].ch
  BY <1>1 DEF Granted, Executing
<1>6. \A u \in Threads : At(u, "opening")' =>
        /\ thread'[u].ch \notin store'.challenges
        /\ \A v \in Threads :
             At(v, "opening")' /\ thread'[v].ch = thread'[u].ch => v = u
  BY <1>2 DEF CeremonyInv, At
<1>7. \A u \in Threads : thread'[u].pc \in Authorizing =>
       /\ thread'[u].ch \in store'.challenges /\ thread'[u].ch \notin opened'
       /\ \A v \in Threads :
            thread'[v].pc \in Authorizing /\ thread'[v].ch = thread'[u].ch => v = u
  BY <1>3 DEF CeremonyInv
<1>8. \A u \in Threads : thread'[u].pc \in {"freeze", "issue"} =>
        \A g \in store'.claims : g[1] # thread'[u].ch
  BY <1>4 DEF CeremonyInv
<1>9. \A u \in Threads : thread'[u].pc \in Granted => Grant(u)' \in store'.claims
  BY <1>5 DEF CeremonyInv, Grant
<1>10. /\ opened' \subseteq store'.challenges /\ challenges' \subseteq store'.challenges
       /\ \A g \in store'.claims : g[1] \in store'.challenges /\ g[1] \notin opened'
       /\ \A g1, g2 \in store'.claims : g1[1] = g2[1] => g1 = g2
  BY DEF CeremonyInv
<1> QED BY <1>6, <1>7, <1>8, <1>9, <1>10 DEF CeremonyInv

\* The four steps of a challenge: drawn, opened, popped, claimed.
LEMMA CeremonyMoves ==
  ASSUME Types, CeremonyInv, NEW t \in Threads,
         \/ \E c \in Challenges : Options(t, c)
         \/ OpenChallenge(t) \/ Spend(t, "authorize", "freeze") \/ Issue(t)
  PROVE  CeremonyInv'
<1> USE PhaseNames
<1>0. /\ TypeOK /\ Named /\ thread \in [ Threads -> Calls ]
      /\ store \in [ challenges : SUBSET Challenges, claims : SUBSET Grants,
                     intents : SUBSET (Grants \X (1..Legs) \X {"leg", "unwind"}),
                     sessions : SUBSET (Challenges \X {"ACTIVE", "STOPPED"}) ]
  BY TypeParts DEF Types, Others
<1>1. ASSUME Return(t), UNCHANGED challenges, opened' \subseteq opened, UNCHANGED store
      PROVE  CeremonyInv'
  BY <1>0, <1>1, Returning, CeremonyKept DEF Nameless
<1>2. ASSUME NEW c \in Challenges, Options(t, c) PROVE CeremonyInv'
  <2>1. UNCHANGED << challenges, opened, store >>
    BY <1>2 DEF Options, ceremony
  <2>2. CASE Goto(t, "revoke")
    BY <1>0, <2>1, <2>2, Going, CeremonyKept DEF Nameless
  <2>3. CASE thread' = [ thread EXCEPT ![t].pc = "opening", ![t].ch = c ]
    <3>1. Alone(t) /\ thread'[t].pc = "opening" /\ thread'[t].ch = c
      BY <1>0, <2>3 DEF Alone, Calls
    <3>2. c \notin store.challenges /\ \A u \in Threads : ~At(u, "opening") \/ thread[u].ch # c
      BY <1>2 DEF Options
    <3>3. \A u \in Threads : At(u, "opening")' =>
            /\ thread'[u].ch \notin store'.challenges
            /\ \A v \in Threads :
                 At(v, "opening")' /\ thread'[v].ch = thread'[u].ch => v = u
      BY <2>1, <3>1, <3>2 DEF CeremonyInv, At, Alone
    <3>4. \A u \in Threads : thread'[u].pc \in Authorizing => thread'[u] = thread[u]
      BY <3>1 DEF Alone
    <3>5. \A u \in Threads : thread'[u].pc \in Granted => Grant(u)' \in store'.claims
      BY <2>1, <3>4 DEF CeremonyInv, Grant
    <3>6. \A u \in Threads : thread'[u].pc \in Authorizing =>
           /\ thread'[u].ch \in store'.challenges /\ thread'[u].ch \notin opened'
           /\ \A v \in Threads :
                thread'[v].pc \in Authorizing /\ thread'[v].ch = thread'[u].ch => v = u
      BY <2>1, <3>4 DEF CeremonyInv
    <3>7. \A u \in Threads : thread'[u].pc \in {"freeze", "issue"} =>
            \A g \in store'.claims : g[1] # thread'[u].ch
      BY <2>1, <3>4 DEF CeremonyInv
    <3> QED BY <2>1, <3>3, <3>5, <3>6, <3>7 DEF CeremonyInv
  <2> QED BY <1>2, <2>2, <2>3 DEF Options
<1>3. CASE OpenChallenge(t)
  <2> DEFINE c == thread[t].ch
  <2>1. /\ store'.challenges = store.challenges \cup {c} /\ store'.claims = store.claims
        /\ challenges' = challenges \cup {c} /\ opened' = opened \cup {c}
    BY <1>0, <1>3 DEF OpenChallenge
  <2>2. Alone(t) /\ thread'[t].pc = "idle"
    BY <1>0, <1>3, Returning DEF OpenChallenge
  <2>3. \A u \in Threads : thread'[u].pc \in Authorizing \cup {"opening"} =>
          u # t /\ thread'[u] = thread[u]
    BY <2>2 DEF Alone, Nameless
  <2>4. /\ c \notin store.challenges
        /\ \A u \in Threads : At(u, "opening") /\ thread[u].ch = c => u = t
    BY <1>3 DEF CeremonyInv, OpenChallenge
  <2>5. \A u \in Threads : At(u, "opening")' =>
          /\ thread'[u].ch \notin store'.challenges
          /\ \A v \in Threads :
               At(v, "opening")' /\ thread'[v].ch = thread'[u].ch => v = u
    BY <2>1, <2>3, <2>4 DEF CeremonyInv, At
  <2>6. \A u \in Threads : thread'[u].pc \in Authorizing =>
         /\ thread'[u].ch \in store'.challenges /\ thread'[u].ch \notin opened'
         /\ \A v \in Threads :
              thread'[v].pc \in Authorizing /\ thread'[v].ch = thread'[u].ch => v = u
    BY <2>1, <2>3, <2>4 DEF CeremonyInv
  <2>7. \A u \in Threads : thread'[u].pc \in {"freeze", "issue"} =>
          \A g \in store'.claims : g[1] # thread'[u].ch
    BY <2>1, <2>3 DEF CeremonyInv
  <2>8. \A u \in Threads : thread'[u].pc \in Granted => Grant(u)' \in store'.claims
    BY <2>1, <2>3 DEF CeremonyInv, Grant
  <2>9. /\ opened' \subseteq store'.challenges /\ challenges' \subseteq store'.challenges
        /\ \A g \in store'.claims : g[1] \in store'.challenges /\ g[1] \notin opened'
        /\ \A g1, g2 \in store'.claims : g1[1] = g2[1] => g1 = g2
    BY <2>1, <2>4 DEF CeremonyInv
  <2> HIDE DEF c
  <2> QED BY <2>5, <2>6, <2>7, <2>8, <2>9 DEF CeremonyInv
<1>4. CASE Spend(t, "authorize", "freeze")
  <2> DEFINE c == thread[t].ch
  <2>1. /\ c \in opened /\ opened' = opened \ {c} /\ UNCHANGED << challenges, store >>
    BY <1>4 DEF Spend, TakeOpen
  <2>2. CASE Return(t)
    BY <1>1, <2>1, <2>2
  <2>3. CASE Goto(t, "freeze")
    <3>1. Alone(t) /\ thread'[t].pc = "freeze" /\ thread'[t].ch = c
      BY <1>0, <2>3, Going
    <3>2. \A u \in Threads : thread'[u].pc = "opening" => thread'[u] = thread[u]
      BY <3>1 DEF Alone
    <3>3. \A u \in Threads : u # t => thread'[u] = thread[u]
      BY <3>1 DEF Alone
    <3>4. \A u \in Threads : thread[u].pc \in Authorizing => thread[u].ch # c
      BY <2>1 DEF CeremonyInv
    <3>5. c \in store.challenges /\ \A g \in store.claims : g[1] # c
      BY <2>1 DEF CeremonyInv
    <3>6. \A u \in Threads : At(u, "opening")' =>
            /\ thread'[u].ch \notin store'.challenges
            /\ \A v \in Threads :
                 At(v, "opening")' /\ thread'[v].ch = thread'[u].ch => v = u
      BY <2>1, <3>2 DEF CeremonyInv, At
    <3>7. \A u \in Threads : thread'[u].pc \in Authorizing =>
           /\ thread'[u].ch \in store'.challenges /\ thread'[u].ch \notin opened'
           /\ \A v \in Threads :
                thread'[v].pc \in Authorizing /\ thread'[v].ch = thread'[u].ch => v = u
      BY <2>1, <3>1, <3>3, <3>4, <3>5 DEF CeremonyInv
    <3>8. \A u \in Threads : thread'[u].pc \in {"freeze", "issue"} =>
            \A g \in store'.claims : g[1] # thread'[u].ch
      BY <2>1, <3>1, <3>3, <3>5 DEF CeremonyInv
    <3>9. \A u \in Threads : thread'[u].pc \in Granted => Grant(u)' \in store'.claims
      BY <2>1, <3>1, <3>3 DEF CeremonyInv, Grant, Granted, Executing
    <3>10. /\ opened' \subseteq store'.challenges /\ challenges' \subseteq store'.challenges
           /\ \A g \in store'.claims : g[1] \in store'.challenges /\ g[1] \notin opened'
           /\ \A g1, g2 \in store'.claims : g1[1] = g2[1] => g1 = g2
      BY <2>1 DEF CeremonyInv
    <3> QED BY <3>6, <3>7, <3>8, <3>9, <3>10 DEF CeremonyInv
  <2> QED BY <1>4, <2>2, <2>3 DEF Spend
<1>5. CASE Issue(t)
  <2> DEFINE c == thread[t].ch
  <2>1. /\ store'.challenges = store.challenges
        /\ store'.claims = store.claims \cup {Grant(t)}
        /\ UNCHANGED << challenges, opened >>
    BY <1>0, <1>5 DEF Issue, ceremony
  <2>2. Alone(t) /\ thread'[t].pc = "keep" /\ thread'[t].ch = c
    BY <1>0, <1>5, Going DEF Issue, Granted
  <2>3. \A u \in Threads : u # t => thread'[u] = thread[u]
    BY <2>2 DEF Alone
  <2>4. /\ thread[t].pc = "issue" /\ c \in store.challenges /\ c \notin opened
        /\ \A g \in store.claims : g[1] # c
        /\ \A u \in Threads : u # t /\ thread[u].pc \in Authorizing => thread[u].ch # c
    BY <1>5 DEF Issue, At, CeremonyInv
  <2>5. Grant(t)[1] = c
    BY DEF Grant
  <2>6. \A u \in Threads : At(u, "opening")' =>
          /\ thread'[u].ch \notin store'.challenges
          /\ \A v \in Threads :
               At(v, "opening")' /\ thread'[v].ch = thread'[u].ch => v = u
    BY <2>1, <2>2, <2>3 DEF CeremonyInv, At
  <2>7. \A u \in Threads : thread'[u].pc \in Authorizing =>
         /\ thread'[u].ch \in store'.challenges /\ thread'[u].ch \notin opened'
         /\ \A v \in Threads :
              thread'[v].pc \in Authorizing /\ thread'[v].ch = thread'[u].ch => v = u
    BY <2>1, <2>2, <2>3, <2>4 DEF CeremonyInv
  <2>8. \A u \in Threads : thread'[u].pc \in {"freeze", "issue"} =>
          \A g \in store'.claims : g[1] # thread'[u].ch
    BY <2>1, <2>2, <2>3, <2>4, <2>5 DEF CeremonyInv
  <2>9. \A u \in Threads : thread'[u].pc \in Granted => Grant(u)' \in store'.claims
    BY <2>1, <2>2, <2>3 DEF CeremonyInv, Grant
  <2>10. /\ opened' \subseteq store'.challenges /\ challenges' \subseteq store'.challenges
         /\ \A g \in store'.claims : g[1] \in store'.challenges /\ g[1] \notin opened'
         /\ \A g1, g2 \in store'.claims : g1[1] = g2[1] => g1 = g2
    BY <2>1, <2>4, <2>5 DEF CeremonyInv
  <2> HIDE DEF c
  <2> QED BY <2>6, <2>7, <2>8, <2>9, <2>10 DEF CeremonyInv
<1> QED BY <1>2, <1>3, <1>4, <1>5

------------------------------------------------------------------------------
(* What an executing request may rely on *)

\* What was sent stays sent, and only the request itself adds to its grant.
Behind(t) ==
  /\ Alone(t)
  /\ orders \subseteq orders' /\ \A o \in orders' \ orders : o.grant = Grant(t)
  /\ store.intents \subseteq store'.intents /\ revoked \subseteq revoked'

\* What the others may rely on they may rely on.
LEMMA ViewOthers ==
  ASSUME NEW t \in Threads, Behind(t), NEW u \in Threads, u # t, View(u)
  PROVE  View(u)'
<1>1. thread'[u] = thread[u] /\ Grant(u)' = Grant(u) /\ Grant(u) # Grant(t)
  BY DEF Behind, Alone, Grant
<1>2. \A o \in orders' : o.grant = Grant(u) => o \in orders
  BY <1>1 DEF Behind
<1>3. \A l : Earlier(Grant(u), l) => Earlier(Grant(u), l)'
  BY <1>1 DEF Behind, Earlier
<1> QED BY <1>1, <1>2, <1>3 DEF View, Behind

\* A request outside the execution relies on nothing.
LEMMA ViewOutside ==
  ASSUME NEW t \in Threads, thread'[t].pc \notin Granted
  PROVE  View(t)'
  BY DEF View, Granted, Executing, Sending, Answered

\* A plain step keeps the view.
LEMMA ViewPlain ==
  ASSUME NEW t \in Threads, Plain(t), \A u \in Threads : View(u)
  PROVE  \A u \in Threads : View(u)'
<1>1. Behind(t)
  BY DEF Plain, Keeps, Behind
<1>2. CASE thread'[t].pc \notin Authorizing \cup {"opening"}
  BY <1>1, <1>2, ViewOthers, ViewOutside, PhaseNames
<1>3. CASE /\ Onward(thread[t].pc, thread'[t].pc)
           /\ thread'[t].ch = thread[t].ch /\ thread'[t].leg = thread[t].leg
           /\ thread'[t].ack = thread[t].ack
  <2>1. Grant(t)' = Grant(t) /\ orders' = orders
    BY <1>3 DEF Grant, Plain, Keeps
  <2>2. \A l : Earlier(Grant(t), l) => Earlier(Grant(t), l)'
    BY <2>1 DEF Earlier
  <2>3. store.intents \subseteq store'.intents /\ revoked \subseteq revoked'
    BY DEF Plain, Keeps
  <2>4. CASE thread'[t].pc \notin Granted
    BY <1>1, <2>4, ViewOthers, ViewOutside
  <2>5. CASE thread[t].pc = "keep" /\ thread'[t].pc = "start"
    BY <1>1, <1>3, <2>1, <2>3, <2>5, ViewOthers DEF View, Granted, Sending, Answered
  <2>6. CASE \/ thread[t].pc = "sign" /\ thread'[t].pc = "snapshot"
             \/ thread[t].pc = "snapshot" /\ thread'[t].pc = "wire"
    <3>1. View(t)'
      BY <1>3, <2>1, <2>2, <2>3, <2>6 DEF View, Granted, Executing, Sending, Answered
    <3> QED BY <1>1, <3>1, ViewOthers
  <2>7. CASE thread[t].pc = "reply" /\ thread'[t].pc = "decide"
    <3>1. View(t)'
      BY <1>3, <2>1, <2>2, <2>3, <2>7 DEF View, Granted, Executing, Sending, Answered
    <3> QED BY <1>1, <3>1, ViewOthers
  <2>8. CASE thread[t].pc \in Executing /\ thread'[t].pc \in Ending
    <3>1. View(t)'
      BY <1>3, <2>1, <2>3, <2>8 DEF View, Granted, Sending, Answered, Ending
    <3> QED BY <1>1, <3>1, ViewOthers
  <2> QED BY <1>3, <2>4, <2>5, <2>6, <2>7, <2>8 DEF Onward, Granted, Executing
<1> QED BY <1>2, <1>3 DEF Plain

\* A grant that is claimed has sent nothing yet.
LEMMA ViewClaims ==
  ASSUME Types, CeremonyInv, OrderInv, NEW t \in Threads,
         \/ \E c \in Challenges : Options(t, c)
         \/ OpenChallenge(t) \/ Spend(t, "authorize", "freeze") \/ Issue(t),
         \A u \in Threads : View(u)
  PROVE  \A u \in Threads : View(u)'
<1> USE PhaseNames
<1>0. /\ TypeOK /\ thread \in [ Threads -> Calls ]
      /\ store \in [ challenges : SUBSET Challenges, claims : SUBSET Grants,
                     intents : SUBSET (Grants \X (1..Legs) \X {"leg", "unwind"}),
                     sessions : SUBSET (Challenges \X {"ACTIVE", "STOPPED"}) ]
  BY TypeParts DEF Types, Others
<1>1. store'.intents = store.intents /\ UNCHANGED << orders, revoked >>
  BY <1>0 DEF Options, OpenChallenge, Spend, Issue, ceremony, signer, venue
<1>2. ASSUME NEW q \in Phases, Goto(t, q) PROVE Alone(t) /\ thread'[t].pc = q
  BY <1>0, <1>2, Going
<1>3. ASSUME Return(t) PROVE Alone(t) /\ thread'[t].pc = "idle"
  BY <1>0, <1>3, Returning
<1>4. ASSUME NEW c \in Challenges, Options(t, c)
      PROVE  Alone(t) /\ thread'[t].pc \notin Granted
  <2>1. CASE Goto(t, "revoke")
    BY <1>2, <2>1 DEF Nameless, Granted, Executing
  <2>2. CASE thread' = [ thread EXCEPT ![t].pc = "opening", ![t].ch = c ]
    BY <1>0, <2>2 DEF Alone, Calls, Granted, Executing
  <2> QED BY <1>4, <2>1, <2>2 DEF Options
<1>5. CASE Issue(t)
  <2>1. Alone(t) /\ thread'[t].pc = "keep" /\ Grant(t)' = Grant(t)
    BY <1>0, <1>5, Going DEF Issue, Granted, Grant
  <2>2. \A g \in store.claims : g # Grant(t)
    BY <1>5 DEF CeremonyInv, Issue, At, Grant
  <2>3. \A o \in orders' : o.grant # Grant(t)'
    BY <1>1, <2>1, <2>2 DEF OrderInv, EvidencedOrders
  <2>4. View(t)'
    BY <2>1, <2>3 DEF View, Sending, Answered
  <2> QED BY <1>1, <2>1, <2>4, ViewOthers DEF Behind
<1>6. CASE OpenChallenge(t) \/ Spend(t, "authorize", "freeze")
  <2>1. Return(t) \/ Goto(t, "freeze")
    BY <1>6 DEF OpenChallenge, Spend
  <2>2. Alone(t) /\ thread'[t].pc \notin Granted
    BY <1>2, <1>3, <2>1 DEF Granted, Executing
  <2> QED BY <1>1, <2>2, ViewOthers, ViewOutside DEF Behind
<1>7. CASE \E c \in Challenges : Options(t, c)
  BY <1>1, <1>4, <1>7, ViewOthers, ViewOutside DEF Behind
<1> QED BY <1>5, <1>6, <1>7

\* A leg is persisted, checked, sent and answered.
LEMMA ViewSends ==
  ASSUME Types, NEW t \in Threads,
         Start(t) \/ Persist(t) \/ Check(t) \/ Deliver(t) \/ Decide(t),
         \A u \in Threads : View(u)
  PROVE  (\A u \in Threads : View(u)') /\ Alone(t)
<1> USE PhaseNames
<1> DEFINE g == Grant(t)
           l == thread[t].leg
<1>0. /\ TypeOK /\ thread \in [ Threads -> Calls ] /\ orders \subseteq Orders
      /\ store \in [ challenges : SUBSET Challenges, claims : SUBSET Grants,
                     intents : SUBSET (Grants \X (1..Legs) \X {"leg", "unwind"}),
                     sessions : SUBSET (Challenges \X {"ACTIVE", "STOPPED"}) ]
  BY TypeParts DEF Types, Others
<1>1. thread[t] \in Calls /\ l \in 1..Legs /\ l \in Nat
  BY <1>0, LegsAssumption DEF Calls
<1>2. ASSUME Return(t), UNCHANGED << orders, store >>, revoked \subseteq revoked'
      PROVE  (\A u \in Threads : View(u)') /\ Alone(t)
  <2>1. Alone(t) /\ thread'[t].pc \notin Granted
    BY <1>0, <1>2, Returning DEF Granted, Executing
  <2> QED BY <1>2, <2>1, ViewOthers, ViewOutside DEF Behind
<1>3. CASE Start(t)
  <2>1. UNCHANGED << orders, store, revoked >>
    BY <1>3 DEF Start, venue
  <2>2. CASE thread' = [ thread EXCEPT ![t].pc = "persist", ![t].leg = FirstLeg ]
    <3>1. /\ Alone(t) /\ thread'[t].pc = "persist"
          /\ thread'[t].leg = 1 /\ thread'[t].ch = thread[t].ch
      BY <1>0, <2>2 DEF Alone, Calls, FirstLeg
    <3>2. Grant(t)' = g /\ \A o \in orders' : o.grant # g
      BY <1>3, <2>1, <3>1 DEF View, Start, At, Grant
    <3>3. Earlier(Grant(t), 1)'
      BY DEF Earlier
    <3>4. View(t)'
      BY <2>1, <3>1, <3>2, <3>3 DEF View, Answered
    <3> QED BY <2>1, <3>1, <3>4, ViewOthers DEF Behind
  <2> QED BY <1>2, <1>3, <2>1, <2>2 DEF Start
<1>4. CASE Persist(t)
  <2>1. /\ Alone(t) /\ thread'[t].pc = "check" /\ thread'[t].leg = l
        /\ thread'[t].ch = thread[t].ch
    BY <1>0, <1>4, Going DEF Persist, Granted, Sending
  <2>2. Grant(t)' = g /\ UNCHANGED << orders, revoked >>
    BY <1>4, <2>1 DEF Persist, Grant, venue
  <2>3. store'.intents = store.intents \cup {<< g, l, "leg" >>}
    BY <1>0, <1>4 DEF Persist
  <2>4. Earlier(g, l) => Earlier(Grant(t), thread[t].leg)'
    BY <2>1, <2>2 DEF Earlier
  <2>5. thread[t].pc = "persist"
    BY <1>4 DEF Persist, At
  <2>6. View(t)'
    BY <2>1, <2>2, <2>3, <2>4, <2>5 DEF View, Granted, Sending, Answered
  <2> QED BY <2>1, <2>2, <2>3, <2>6, ViewOthers DEF Behind
<1>5. CASE Check(t)
  <2>1. UNCHANGED << orders, store >> /\ revoked \subseteq revoked'
    BY <1>5 DEF Check, PortKill, venue
  <2>2. CASE Goto(t, "sign") /\ g \notin revoked /\ UNCHANGED revoked
    <3>1. /\ Alone(t) /\ thread'[t].pc = "sign" /\ thread'[t].leg = l
          /\ thread'[t].ch = thread[t].ch
      BY <1>0, <2>2, Going DEF Granted, Sending
    <3>2. Grant(t)' = g /\ thread[t].pc = "check"
      BY <1>5, <3>1 DEF Check, At, Grant
    <3>3. Earlier(g, l) => Earlier(Grant(t), thread[t].leg)'
      BY <2>1, <3>1, <3>2 DEF Earlier
    <3>4. \A o \in orders : o.grant = g => ~o.late
      BY <2>2, <3>2 DEF View, Granted, Sending
    <3>5. View(t)'
      BY <2>1, <2>2, <3>1, <3>2, <3>3, <3>4 DEF View, Granted, Sending, Answered
    <3> QED BY <2>1, <3>1, <3>5, ViewOthers DEF Behind
  <2> QED BY <1>2, <1>5, <2>1, <2>2 DEF Check, Authority
<1>6. CASE Deliver(t)
  <2>1. PICK ack \in Acks :
          /\ orders' = orders \cup {[ grant |-> g, leg |-> l, ack |-> ack,
                                     late |-> g \in revoked ]}
          /\ thread' = [ thread EXCEPT ![t].pc = "reply", ![t].ack = ack ]
    BY <1>6 DEF Deliver
  <2> DEFINE o == [ grant |-> g, leg |-> l, ack |-> ack, late |-> g \in revoked ]
  <2>2. o.grant = g /\ o.leg = l /\ o.ack = ack /\ (o.late <=> g \in revoked)
    OBVIOUS
  <2>3. orders' = orders \cup {o} /\ UNCHANGED << store, revoked >>
    BY <1>6, <2>1 DEF Deliver
  <2> HIDE DEF o
  <2>4. /\ Alone(t) /\ thread'[t].pc = "reply" /\ thread'[t].leg = l
        /\ thread'[t].ack = ack /\ thread'[t].ch = thread[t].ch
    BY <1>0, <2>1 DEF Alone, Calls
  <2>5. Grant(t)' = g /\ thread[t].pc = "wire"
    BY <1>6, <2>4 DEF Deliver, At, Grant
  <2>6. Earlier(g, l) => Earlier(Grant(t), thread[t].leg)'
    BY <2>3, <2>4, <2>5 DEF Earlier
  <2>7. \A e \in orders : e.grant = g => e.leg < l /\ e.leg \in Nat
    <3>1. \A e \in orders : e.leg \in 1..Legs
      BY <1>0 DEF Orders
    <3>2. \A e \in orders : e.leg \in Nat
      BY <3>1, LegsAssumption
    <3>3. \A e \in orders : e.grant = g => e.leg < l
      BY <2>5 DEF View, Sending
    <3> QED BY <3>2, <3>3
  <2>8. View(t)'
    <3>1. \A e \in orders' : e.grant = g => e.leg <= l
      BY <1>1, <2>2, <2>3, <2>7
    <3>2. Earlier(Grant(t), thread[t].leg)'
      BY <2>5, <2>6 DEF View, Sending
    <3>3. o \in orders'
      BY <2>3
    <3>4. \A e \in orders' : e.grant = g /\ e.late => g \in revoked
      BY <2>2, <2>3, <2>5 DEF View, Granted, Executing
    <3> QED BY <2>2, <2>3, <2>4, <2>5, <3>1, <3>2, <3>3, <3>4 DEF View, Sending
  <2> QED BY <2>2, <2>3, <2>4, <2>8, ViewOthers DEF Behind
<1>7. CASE Decide(t)
  <2>1. UNCHANGED << orders, store, revoked >> /\ thread[t].pc = "decide"
    BY <1>7 DEF Decide, At, venue
  <2>2. \/ \E q \in Ending : Goto(t, q)
        \/ thread[t].ack = "MATCHED" /\ NextLeg(t)
    BY <1>7 DEF Decide, Ending
  <2>3. ASSUME NEW q \in Ending, Goto(t, q)
        PROVE  (\A u \in Threads : View(u)') /\ Alone(t)
    <3>1. Alone(t) /\ thread'[t].pc = q /\ thread'[t].ch = thread[t].ch
      BY <1>0, <2>3, Going DEF Granted
    <3>2. Grant(t)' = g
      BY <3>1 DEF Grant
    <3>3. View(t)'
      BY <2>1, <3>1, <3>2 DEF View, Granted, Executing, Sending, Answered, Ending
    <3> QED BY <2>1, <3>1, <3>3, ViewOthers DEF Behind
  <2>4. CASE thread[t].ack = "MATCHED" /\ NextLeg(t)
    <3>1. /\ Alone(t) /\ thread'[t].pc = "persist" /\ thread'[t].leg = l + 1
          /\ thread'[t].ch = thread[t].ch
      BY <1>0, <1>1, <2>4 DEF NextLeg, Alone, Calls
    <3>2. Grant(t)' = g
      BY <3>1 DEF Grant
    <3>3. /\ \A o \in orders : o.grant = g => o.leg <= l
          /\ Earlier(g, l)
          /\ \E o \in orders : o.grant = g /\ o.leg = l /\ o.ack = "MATCHED"
      BY <2>1, <2>4 DEF View, Answered
    <3>4. \A o \in orders : o.grant = g => o.leg < l + 1
      BY <1>0, <1>1, <3>3, LegsAssumption DEF Orders
    <3>5. Earlier(g, l + 1)
      <4>0. (l + 1) - 1 = l
        BY <1>1
      <4>1. ASSUME NEW k \in 1..l
            PROVE  \E e \in orders : e.grant = g /\ e.leg = k /\ e.ack = "MATCHED"
        <5>1. k = l \/ k \in 1..(l - 1)
          BY <1>1, <4>1
        <5>2. CASE k = l
          BY <3>3, <5>2
        <5>3. CASE k \in 1..(l - 1)
          BY <3>3, <5>3 DEF Earlier
        <5> QED BY <5>1, <5>2, <5>3
      <4> HIDE DEF g, l
      <4> QED BY <4>0, <4>1 DEF Earlier
    <3>6. Earlier(Grant(t), thread[t].leg)'
      BY <2>1, <3>1, <3>2, <3>5 DEF Earlier
    <3>7. View(t)'
      BY <2>1, <3>1, <3>2, <3>4, <3>6 DEF View, Granted, Executing, Answered
    <3> QED BY <2>1, <3>1, <3>7, ViewOthers DEF Behind
  <2> QED BY <2>2, <2>3, <2>4
<1> QED BY <1>3, <1>4, <1>5, <1>6, <1>7

------------------------------------------------------------------------------
(* The orders *)

\* What is recorded of the orders only grows, and a launch that ends frees its own.
LEMMA OrdersStay ==
  ASSUME OrderInv, orders' = orders,
         store.challenges \subseteq store'.challenges,
         store.claims \subseteq store'.claims, store.intents \subseteq store'.intents,
         \A o \in orders : o.ack # "MATCHED" /\ o.grant[1] \in challenges' => signerKilled'
  PROVE  OrderInv'
  BY DEF OrderInv, EvidencedOrders, LegsInOrder, OneLateOrder

\* The order a request sends agrees with all before it.
LEMMA OrderSent ==
  ASSUME Types, CeremonyInv, OrderInv, NEW t \in Threads, View(t), Deliver(t)
  PROVE  OrderInv'
<1> DEFINE g == Grant(t)
           l == thread[t].leg
<1>1. PICK ack \in Acks :
        /\ orders' = orders \cup {[ grant |-> g, leg |-> l, ack |-> ack,
                                   late |-> g \in revoked ]}
        /\ signerKilled' = Trips(ack)
  BY DEF Deliver
<1> DEFINE o == [ grant |-> g, leg |-> l, ack |-> ack, late |-> g \in revoked ]
<1>2. o.grant = g /\ o.leg = l /\ o.ack = ack /\ (o.late <=> g \in revoked)
  OBVIOUS
<1>3. orders' = orders \cup {o} /\ UNCHANGED << store, challenges >>
  BY <1>1 DEF Deliver, ceremony
<1> HIDE DEF o
<1>4. thread[t].pc = "wire" /\ ~signerKilled
  BY DEF Deliver, At, Admits
<1>5. "wire" \in Authorizing /\ "wire" \in Granted /\ "wire" \in Sending
  BY DEF Authorizing, Granted, Executing, Sending
<1>6. g[1] \in store.challenges /\ g \in store.claims /\ << g, l, "leg" >> \in store.intents
  <2>1. g[1] = thread[t].ch
    BY DEF Grant
  <2>2. thread[t].ch \in store.challenges /\ g \in store.claims
    BY <1>4, <1>5 DEF CeremonyInv
  <2>3. << g, l, "leg" >> \in store.intents
    BY <1>4 DEF View
  <2> QED BY <2>1, <2>2, <2>3
<1>7. EvidencedOrders'
  BY <1>2, <1>3, <1>6 DEF OrderInv, EvidencedOrders
<1>8. LegsInOrder'
  <2>1. Earlier(g, l)
    BY <1>4, <1>5 DEF View
  <2>2. ASSUME NEW e \in orders, NEW k \in 1..(e.leg - 1)
        PROVE  \E f \in orders' : f.grant = e.grant /\ f.leg = k /\ f.ack = "MATCHED"
    BY <1>3, <2>2 DEF OrderInv, LegsInOrder
  <2>3. ASSUME NEW k \in 1..(o.leg - 1)
        PROVE  \E f \in orders' : f.grant = o.grant /\ f.leg = k /\ f.ack = "MATCHED"
    <3>1. k \in 1..(l - 1)
      BY <1>2, <2>3
    <3> QED BY <1>2, <1>3, <2>1, <3>1 DEF Earlier
  <2> QED BY <1>3, <2>2, <2>3 DEF LegsInOrder
<1>9. \A e \in orders : e.grant = g => e.leg # l /\ ~e.late
  <2>1. \A e \in orders : e.grant = g => e.leg < l
    BY <1>4, <1>5 DEF View
  <2>2. \A e \in orders : e.grant = g => ~e.late
    BY <1>4 DEF View
  <2>3. l \in Nat
    BY TypeParts, LegsAssumption DEF Calls
  <2> QED BY <2>1, <2>2, <2>3
<1>10. OneLateOrder'
  BY <1>2, <1>3, <1>9 DEF OrderInv, OneLateOrder
<1>11. \A o1, o2 \in orders' : o1.grant = o2.grant /\ o1.leg = o2.leg => o1 = o2
  BY <1>2, <1>3, <1>9 DEF OrderInv
<1>12. \A e \in orders' : e.ack # "MATCHED" /\ e.grant[1] \in challenges' => signerKilled'
  BY <1>1, <1>2, <1>3, <1>4 DEF OrderInv, Trips
<1> QED BY <1>7, <1>8, <1>10, <1>11, <1>12 DEF OrderInv

\* A new launch knows no challenge and runs no request.
LEMMA Relaunch ==
  ASSUME Inv, Restart
  PROVE  CeremonyInv' /\ (\A t \in Threads : View(t)') /\ OrderInv'
<1>1. \A t \in Threads : thread'[t].pc = "idle"
  BY DEF Restart, Idle
<1>2. \A t \in Threads :
        thread'[t].pc \notin Authorizing \cup Granted \cup {"opening", "freeze", "issue"}
  BY <1>1 DEF Authorizing, Granted, Executing
<1>3. /\ challenges' = {} /\ opened' = {} /\ store' = store /\ orders' = orders
      /\ CeremonyInv /\ OrderInv
  BY DEF Restart, venue, Inv
<1>4. CeremonyInv'
  BY <1>2, <1>3 DEF CeremonyInv, At
<1>5. \A t \in Threads : View(t)'
  BY <1>2, ViewOutside
<1>6. OrderInv'
  BY <1>3, OrdersStay
<1> QED BY <1>4, <1>5, <1>6

\* A request that goes on under its grant keeps its challenge.
LEMMA GoesOn ==
  ASSUME Types, NEW t \in Threads,
         Start(t) \/ Persist(t) \/ Check(t) \/ Deliver(t) \/ Decide(t)
  PROVE  \/ thread'[t].pc \notin Authorizing \cup {"opening"}
         \/ /\ thread'[t].ch = thread[t].ch
            /\ thread[t].pc \in Granted /\ thread'[t].pc \in Granted
<1> USE PhaseNames
<1>0. TypeOK /\ thread \in [ Threads -> Calls ]
  BY TypeParts DEF Types
<1>1. thread[t].pc \in Granted
  BY DEF Start, Persist, Check, Deliver, Decide, At, Granted, Sending, Answered
<1>2. \/ Return(t)
      \/ \E q \in Granted : Goto(t, q)
      \/ \E q \in Granted : thread' = [ thread EXCEPT ![t].pc = q, ![t].leg = FirstLeg ]
      \/ \E q \in Granted, a \in Acks : thread' = [ thread EXCEPT ![t].pc = q, ![t].ack = a ]
      \/ NextLeg(t)
  <2>1. {"persist", "check", "sign", "reply", "halt", "recover", "complete"} \subseteq Granted
    BY DEF Granted, Sending, Answered, Ending
  <2>2. CASE Start(t)
    BY <2>1, <2>2 DEF Start
  <2>3. CASE Persist(t) \/ Check(t)
    BY <2>1, <2>3 DEF Persist, Check
  <2>4. CASE Deliver(t)
    BY <2>1, <2>4 DEF Deliver
  <2>5. CASE Decide(t)
    BY <2>1, <2>5 DEF Decide
  <2> QED BY <2>2, <2>3, <2>4, <2>5
<1>3. CASE Return(t)
  BY <1>0, <1>3, Returning DEF Nameless
<1>4. ASSUME NEW q \in Granted, Goto(t, q)
      PROVE  thread'[t].ch = thread[t].ch /\ thread'[t].pc \in Granted
  BY <1>0, <1>4, Going
<1>5. ASSUME NEW q \in Granted, NEW x,
             \/ thread' = [ thread EXCEPT ![t].pc = q, ![t].leg = x ]
             \/ thread' = [ thread EXCEPT ![t].pc = q, ![t].ack = x ]
      PROVE  thread'[t].ch = thread[t].ch /\ thread'[t].pc \in Granted
  BY <1>0, <1>5 DEF Calls
<1>6. CASE NextLeg(t)
  BY <1>0, <1>6 DEF NextLeg, Calls, Granted, Sending
<1> QED BY <1>1, <1>2, <1>3, <1>4, <1>5, <1>6 DEF Granted

\* Every step keeps the invariant.
LEMMA InvStep ==
  ASSUME Inv, [Next]_vars
  PROVE  Inv'
<1> USE PhaseNames
<1>0. /\ Types /\ TypeOK /\ CeremonyInv /\ OrderInv /\ \A t \in Threads : View(t)
      /\ thread \in [ Threads -> Calls ]
      /\ store \in [ challenges : SUBSET Challenges, claims : SUBSET Grants,
                     intents : SUBSET (Grants \X (1..Legs) \X {"leg", "unwind"}),
                     sessions : SUBSET (Challenges \X {"ACTIVE", "STOPPED"}) ]
      /\ signerKilled \in BOOLEAN
  BY TypeParts DEF Inv, Types, Others
<1>1. Types'
  BY <1>0, TypesStep
<1>2. ASSUME CeremonyInv', \A t \in Threads : View(t)', OrderInv'
      PROVE  Inv'
  BY <1>1, <1>2 DEF Inv
<1>3. ASSUME Keeps PROVE OrderInv'
  BY <1>0, <1>3, OrdersStay DEF Keeps, OrderInv
<1>4. ASSUME Keeps, thread' = thread PROVE Inv'
  <2>1. CeremonyInv'
    BY <1>0, <1>4 DEF Keeps, CeremonyInv, At, Grant
  <2>2. \A t \in Threads : View(t)'
    BY <1>0, <1>4 DEF Keeps, View, Grant, Earlier
  <2> QED BY <1>2, <1>3, <1>4, <2>1, <2>2
<1>5. ASSUME NEW t \in Threads, Plain(t) PROVE Inv'
  <2>1. Keeps /\ Alone(t)
    BY <1>5 DEF Plain
  <2>2. \/ thread'[t].pc \notin Authorizing \cup {"opening"}
        \/ /\ thread'[t].ch = thread[t].ch
           /\ \/ thread[t].pc \in Granted /\ thread'[t].pc \in Granted
              \/ thread[t].pc = "freeze" /\ thread'[t].pc = "issue"
    BY <1>5 DEF Plain, Onward, Granted, Sending, Answered, Ending
  <2>3. CeremonyInv'
    BY <1>0, <2>1, <2>2, CeremonyKept DEF Keeps
  <2>4. \A u \in Threads : View(u)'
    BY <1>0, <1>5, ViewPlain
  <2> QED BY <1>2, <1>3, <2>1, <2>3, <2>4
<1>6. CASE Restart
  BY <1>2, <1>6, Relaunch
<1>7. ASSUME NEW t \in Threads,
             \/ \E c \in Challenges : Options(t, c)
             \/ OpenChallenge(t) \/ Spend(t, "authorize", "freeze") \/ Issue(t)
      PROVE  Inv'
  <2>1. CeremonyInv' /\ \A u \in Threads : View(u)'
    BY <1>0, <1>7, CeremonyMoves, ViewClaims
  <2>2. /\ orders' = orders /\ store.challenges \subseteq store'.challenges
        /\ store.claims \subseteq store'.claims /\ store.intents \subseteq store'.intents
    BY <1>0, <1>7 DEF Options, OpenChallenge, Spend, Issue, venue
  <2>3. challenges' = challenges \/ OpenChallenge(t)
    BY <1>7 DEF Options, Spend, Issue, ceremony
  <2>4. signerKilled => signerKilled'
    BY <1>0, <1>7 DEF Options, OpenChallenge, Spend, Issue, SignerRead, signer
  <2>5. ASSUME NEW o \in orders, o.grant[1] \in challenges' PROVE o.grant[1] \in challenges
    <3>1. o.grant[1] \in store.challenges
      BY <1>0 DEF OrderInv, EvidencedOrders
    <3>2. CASE OpenChallenge(t)
      BY <1>0, <2>5, <3>1, <3>2 DEF OpenChallenge, CeremonyInv
    <3> QED BY <2>3, <2>5, <3>2
  <2>6. OrderInv'
    BY <1>0, <2>2, <2>4, <2>5, OrdersStay DEF OrderInv
  <2> QED BY <1>2, <2>1, <2>6
<1>8. ASSUME NEW t \in Threads,
             Start(t) \/ Persist(t) \/ Check(t) \/ Deliver(t) \/ Decide(t)
      PROVE  Inv'
  <2>1. (\A u \in Threads : View(u)') /\ Alone(t)
    BY <1>0, <1>8, ViewSends
  <2>2. /\ UNCHANGED << challenges, opened >>
        /\ store'.claims = store.claims /\ store'.challenges = store.challenges
        /\ store.intents \subseteq store'.intents
    BY <1>0, <1>8 DEF Start, Persist, Check, Deliver, Decide, ceremony
  <2>3. \/ thread'[t].pc \notin Authorizing \cup {"opening"}
        \/ /\ thread'[t].ch = thread[t].ch
           /\ thread[t].pc \in Granted /\ thread'[t].pc \in Granted
    BY <1>0, <1>8, GoesOn
  <2>4. CeremonyInv'
    BY <1>0, <2>1, <2>2, <2>3, CeremonyKept
  <2>5. CASE Deliver(t)
    BY <1>0, <1>2, <2>1, <2>4, <2>5, OrderSent
  <2>6. CASE Start(t) \/ Persist(t) \/ Check(t) \/ Decide(t)
    <3>1. orders' = orders
      BY <2>6 DEF Start, Persist, Check, Decide, venue
    <3>2. signerKilled => signerKilled'
      <4>1. signerKilled' = signerKilled \/ signerKilled' = TRUE
        BY <2>6 DEF Start, Persist, Check, Decide, PortKill, signer
      <4> QED BY <4>1
    <3>3. OrderInv'
      BY <1>0, <2>2, <3>1, <3>2, OrdersStay DEF OrderInv
    <3> QED BY <1>2, <2>1, <2>4, <3>3
  <2> QED BY <1>8, <2>5, <2>6
<1> QED BY <1>0, <1>4, <1>5, <1>6, <1>7, <1>8, Moves

\* A first launch has no request, no claim and no order.
LEMMA InitInv == Init => Inv
<1> SUFFICES ASSUME Init PROVE Inv
  OBVIOUS
<1>1. thread = [ t \in Threads |-> Idle ] /\ Idle.pc = "idle"
  BY DEF Init, Idle
<1>2. \A t \in Threads :
        thread[t].pc \notin Authorizing \cup Granted \cup Sending \cup Answered
                            \cup {"opening", "freeze", "issue", "keep", "start"}
  BY <1>1 DEF Authorizing, Granted, Executing, Sending, Answered
<1>3. store.claims = {} /\ orders = {} /\ opened = {} /\ challenges = {}
  BY DEF Init
<1>4. CeremonyInv
  BY <1>2, <1>3 DEF CeremonyInv, At
<1>5. \A t \in Threads : View(t)
  BY <1>3, <1>2 DEF View, Sending
<1>6. OrderInv
  BY <1>3 DEF OrderInv, EvidencedOrders, LegsInOrder, OneLateOrder
<1> QED BY <1>4, <1>5, <1>6, InitTypes DEF Inv

\* The inductive invariant of the launches.
THEOREM InvHolds == Spec => []Inv
<1>1. Init => Inv
  BY InitInv
<1>2. Inv /\ [Next]_vars => Inv'
  BY InvStep
<1> QED BY <1>1, <1>2, PTL DEF Spec

------------------------------------------------------------------------------
(* What the pilot owes its operator *)

\* Every variable keeps its type, and a request that is about a challenge is
\* about one that was drawn.
THEOREM TypesHold == Spec => []TypeOK
<1>1. Inv => TypeOK
  BY DEF Inv, Types
<1> QED BY <1>1, InvHolds, PTL

\* A leg is sent only after every earlier one of its grant came back matched
\* (_run_frozen_plan), for plans of any length.
THEOREM LegsAreInOrder == Spec => []LegsInOrder
<1>1. Inv => LegsInOrder
  BY DEF Inv, OrderInv
<1> QED BY <1>1, InvHolds, PTL

\* Every order has its challenge, its claim and its intent in the store
\* (auth_options, _issue, persist_intent).
THEOREM OrdersAreEvidenced == Spec => []EvidencedOrders
<1>1. Inv => EvidencedOrders
  BY DEF Inv, OrderInv
<1> QED BY <1>1, InvHolds, PTL

\* A revoked grant sends at most the one leg already past its test (_authorize).
THEOREM OneOrderIsLate == Spec => []OneLateOrder
<1>1. Inv => OneLateOrder
  BY DEF Inv, OrderInv
<1> QED BY <1>1, InvHolds, PTL

\* One approval, one grant, and each leg of it once, however many requests race
\* for the challenge (_CeremonyState.spend, _issue).
THEOREM ApprovalsExecuteOnce == Spec => []OneExecutionPerApproval
<1>1. ASSUME Inv PROVE OneExecutionPerApproval
  <2>1. \A g1, g2 \in store.claims : g1[1] = g2[1] => g1 = g2
    BY <1>1 DEF Inv, CeremonyInv
  <2>2. \A o \in orders : o.grant \in store.claims
    BY <1>1 DEF Inv, OrderInv, EvidencedOrders
  <2>3. \A o1, o2 \in orders : o1.grant = o2.grant /\ o1.leg = o2.leg => o1 = o2
    BY <1>1 DEF Inv, OrderInv
  <2> QED BY <2>1, <2>2, <2>3 DEF OneExecutionPerApproval
<1> QED BY <1>1, InvHolds, PTL

\* An order that did not match is the last one of its launch (_dispatch,
\* _handle_uncached).
THEOREM UnmatchedOrderEndsLaunch == Spec => UnmatchedEndsLaunch
<1> DEFINE Ends == \A o \in orders' \ orders : \A e \in orders :
                     e.ack # "MATCHED" => e.grant[1] \notin challenges
<1>1. ASSUME Inv, [Next]_vars PROVE [Ends]_vars
  <2>1. TypeOK
    BY <1>1 DEF Inv, Types
  <2>2. CASE orders' = orders
    BY <2>2
  <2>3. ASSUME NEW t \in Threads, Deliver(t) PROVE Ends
    <3>1. ~signerKilled
      BY <2>3 DEF Deliver, Admits
    <3> QED BY <1>1, <3>1 DEF Inv, OrderInv
  <2>4. orders' = orders \/ \E t \in Threads : Deliver(t)
    BY <1>1, <2>1, Moves
       DEF Keeps, Plain, Restart, venue, Options, OpenChallenge, Spend, Issue, Start,
           Persist, Check, Decide
  <2> QED BY <2>2, <2>3, <2>4
<1> QED BY <1>1, InvHolds, PTL DEF Spec, UnmatchedEndsLaunch

------------------------------------------------------------------------------
(* The composed launch *)

\* Where a request can be while no evidence hash is current.
Barred == Nameless \cup {"opening", "authorize", "clear", "clearing", "freeze"}

Inert ==
  provider = "composed" =>
    /\ killed /\ orders = {} /\ current = {}
    /\ \A t \in Threads : thread[t].pc \in Barred

\* A step of a request that leaves the flag, the venue and the hashes alone
\* keeps it inert when it stays where nothing executes.
LEMMA InertKept ==
  ASSUME TypeOK, Inert, NEW t \in Threads, Alone(t), thread'[t].pc \in Barred,
         provider' = provider, killed => killed', orders' = orders,
         current' = current \/ current' = {}
  PROVE  Inert'
  BY DEF Inert, Alone

\* A composed launch remembers no hash, so no request gets past its reads.
LEMMA InertStep ==
  ASSUME Types, Inert, [Next]_vars
  PROVE  Inert'
<1>0. /\ TypeOK /\ thread \in [ Threads -> Calls ] /\ killed \in BOOLEAN
  BY TypeParts DEF Types, Others
<1>1. CASE UNCHANGED vars
  BY <1>1 DEF vars, Inert
<1>2. CASE provider # "composed"
  BY <1>2 DEF Inert, Next, vars
<1>3. ASSUME provider = "composed", Next PROVE Inert'
  <2>0. /\ killed /\ orders = {} /\ current = {} /\ provider' = provider
        /\ \A t \in Threads : thread[t].pc \in Barred
    BY <1>3 DEF Inert, Next
  <2>1. Nameless \subseteq Barred /\ Barred \subseteq Phases
    BY PhaseNames DEF Barred, Phases, Authorizing
  <2>2. ASSUME NEW t \in Threads, Return(t) \/ \E q \in Barred : Goto(t, q),
               killed => killed', orders' = orders, current' = current
        PROVE  Inert'
    <3>1. Alone(t) /\ thread'[t].pc \in Barred
      BY <1>0, <2>1, <2>2, Going, Returning DEF Nameless
    <3> QED BY <1>0, <2>0, <2>2, <3>1, InertKept
  <2>3. ASSUME NEW t \in Threads, Request(t) PROVE Inert'
    <3>1. ASSUME NEW c, Options(t, c) PROVE Inert'
      <4>1. \/ thread' = [ thread EXCEPT ![t].pc = "opening", ![t].ch = c ]
            \/ Goto(t, "revoke")
        BY <3>1 DEF Options
      <4>2. current' = current /\ orders' = orders /\ killed' = killed
        BY <1>3, <3>1 DEF Options, Remembered, venue
      <4>3. CASE thread' = [ thread EXCEPT ![t].pc = "opening", ![t].ch = c ]
        <5>1. Alone(t) /\ thread'[t].pc \in Barred
          BY <1>0, <4>3 DEF Alone, Calls, Barred
        <5> QED BY <1>0, <2>0, <4>2, <5>1, InertKept
      <4>4. CASE Goto(t, "revoke")
        BY <2>2, <4>2, <4>4 DEF Barred, Nameless
      <4> QED BY <4>1, <4>3, <4>4
    <3>2. ASSUME NEW c, NEW q \in {"authorize", "clear"}, Approve(t, c, q) PROVE Inert'
      <4>1. Alone(t) /\ thread'[t].pc \in Barred
        BY <1>0, <3>2 DEF Approve, Alone, Calls, Barred
      <4> QED BY <1>0, <2>0, <3>2, <4>1, InertKept DEF Approve, venue, world
    <3>3. CASE Stop(t)
      BY <2>2, <3>3 DEF Stop, Barred, Nameless, venue, world
    <3> QED BY <2>3, <3>1, <3>2, <3>3 DEF Request
  <2>4. ASSUME NEW t \in Threads, Handle(t) PROVE Inert'
    <3>1. thread[t].pc \in Barred
      BY <2>0
    <3>2. ~(\/ At(t, "issue") \/ At(t, "keep") \/ At(t, "start") \/ At(t, "cleared")
            \/ \E q \in Executing : At(t, q))
      BY <3>1 DEF Barred, Nameless, Executing, At
    <3>3. ~(\/ Issue(t) \/ Keep(t) \/ Start(t) \/ ClearSet(t)
            \/ Persist(t) \/ Check(t) \/ Sign(t) \/ Snapshot(t)
            \/ Deliver(t) \/ Refuse(t) \/ Reply(t) \/ Decide(t) \/ Recover(t) \/ Halt(t)
            \/ Record(t, "complete", "ACTIVE", "idle")
            \/ Record(t, "record", "STOPPED", "revoke"))
      BY <3>2 DEF Issue, Keep, Start, ClearSet, Persist, Check, Sign, Snapshot, Deliver,
                  Refuse, Reply, Decide, Recover, Halt, Record, Executing
    <3>4. CASE OpenChallenge(t)
      BY <2>2, <3>4 DEF OpenChallenge, venue, world
    <3>5. CASE Spend(t, "authorize", "freeze") \/ Spend(t, "clear", "clearing")
      BY <2>2, <3>5 DEF Spend, Barred, venue, world
    <3>6. CASE Replayed(t, "authorize") \/ Replayed(t, "clear")
      BY <2>2, <3>6 DEF Replayed, venue, world
    <3>7. CASE Freeze(t)
      <4>1. Goto(t, "revoke")
        BY <2>0, <3>7 DEF Freeze
      <4> QED BY <2>2, <3>7, <4>1 DEF Freeze, Barred, Nameless, venue, world
    <3>8. CASE Revoke(t)
      <4>1. Alone(t) /\ thread'[t].pc \in Barred
        BY <1>0, <3>8 DEF Revoke, Alone, Calls, Barred, Nameless
      <4> QED BY <1>0, <2>0, <3>8, <4>1, InertKept DEF Revoke, venue, world
    <3>9. CASE SetKill(t)
      <4>1. Return(t) \/ Goto(t, "trip")
        BY <3>9 DEF SetKill
      <4>2. killed => killed'
        BY <3>9 DEF SetKill
      <4> QED BY <2>2, <3>9, <4>1, <4>2 DEF SetKill, Barred, Nameless, venue, world
    <3>10. CASE Trip(t)
      BY <2>2, <3>10 DEF Trip, venue, world
    <3>11. CASE ClearRead(t)
      <4>1. Return(t)
        BY <2>0, <3>11 DEF ClearRead
      <4> QED BY <2>2, <3>11, <4>1 DEF ClearRead, venue, world
    <3>12. CASE Raise(t)
      BY <2>2, <3>12 DEF Raise, venue, world
    <3> QED BY <2>4, <3>3, <3>4, <3>5, <3>6, <3>7, <3>8, <3>9, <3>10, <3>11, <3>12 DEF Handle
  <2>5. CASE Restart
    <3>1. \A t \in Threads : thread'[t].pc \in Barred
      BY <2>5 DEF Restart, Idle, Barred, Nameless
    <3> QED BY <2>0, <2>5, <3>1 DEF Restart, Inert, venue, world
  <2>6. CASE OperatorGone \/ Drift \/ Settle
    <3>1. /\ thread' = thread /\ killed' = killed /\ orders' = orders
          /\ current' = current \/ current' = {}
      BY <2>6 DEF OperatorGone, Drift, Settle, venue, world
    <3> QED BY <2>0, <3>1 DEF Inert
  <2> QED BY <1>3, <2>3, <2>4, <2>5, <2>6 DEF Next, Environment
<1> QED BY <1>1, <1>2, <1>3

\* The launch that build_launch_runtime composes is never cleared and never
\* sends an order (reconcile_startup, clear_kill, _freeze_plan).
THEOREM ComposedNeverTrades == Spec => []ComposedLaunchIsInert
<1>1. Init => Inert
  <2> SUFFICES ASSUME Init PROVE Inert
    OBVIOUS
  <2>1. \A t \in Threads : thread[t].pc = "idle"
    BY DEF Init, Idle
  <2> QED BY <2>1 DEF Init, Inert, Barred, Nameless
<1>2. Types /\ Inert /\ [Next]_vars => Inert'
  BY InertStep
<1>3. Inv => Types
  BY DEF Inv
<1>4. Inert => ComposedLaunchIsInert
  BY DEF Inert, ComposedLaunchIsInert
<1> QED BY <1>1, <1>2, <1>3, <1>4, InvHolds, PTL DEF Spec
------------------------------------------------------------------------------
(* What an approval is worth *)

\* A request executes in the launch that opened its challenge.
Alive ==
  /\ opened \subseteq challenges
  /\ \A t \in Threads : thread[t].pc \in Authorizing => thread[t].ch \in challenges

\* A restart ends every request, and no other step forgets a challenge.
LEMMA AliveStep ==
  ASSUME Inv, Alive, [Next]_vars
  PROVE  Alive'
<1> USE PhaseNames
<1>0. Types /\ TypeOK /\ thread \in [ Threads -> Calls ] /\ \A u \in Threads : View(u)
  BY TypeParts DEF Inv, Types
<1>1. ASSUME NEW t \in Threads, Alone(t), challenges \subseteq challenges',
             opened' \subseteq opened \/ opened' \subseteq challenges',
             thread'[t].pc \in Authorizing => thread'[t].ch \in challenges
      PROVE  Alive'
  BY <1>1 DEF Alive, Alone
<1>2. CASE Keeps /\ thread' = thread
  BY <1>2 DEF Alive, Keeps
<1>3. CASE Restart
  <2>1. \A t \in Threads : thread'[t].pc = "idle"
    BY <1>3 DEF Restart, Idle
  <2> QED BY <1>3, <2>1 DEF Restart, Alive, Nameless
<1>4. ASSUME NEW t \in Threads, Plain(t) PROVE Alive'
  <2>1. thread'[t].pc \in Authorizing =>
          thread[t].pc \in Authorizing /\ thread'[t].ch = thread[t].ch
    BY <1>4 DEF Plain, Onward, Granted, Sending, Answered
  <2> QED BY <1>1, <1>4, <2>1 DEF Plain, Keeps, Alive
<1>5. ASSUME NEW t \in Threads, NEW c \in Challenges, Options(t, c) PROVE Alive'
  <2>1. CASE Goto(t, "revoke")
    <3>1. Alone(t) /\ thread'[t].pc = "revoke"
      BY <1>0, <2>1, Going DEF Nameless
    <3> QED BY <1>1, <1>5, <3>1 DEF Options, ceremony, Nameless
  <2>2. CASE thread' = [ thread EXCEPT ![t].pc = "opening", ![t].ch = c ]
    <3>1. Alone(t) /\ thread'[t].pc = "opening"
      BY <1>0, <2>2 DEF Alone, Calls
    <3> QED BY <1>1, <1>5, <3>1 DEF Options, ceremony
  <2> QED BY <1>5, <2>1, <2>2 DEF Options
<1>6. ASSUME NEW t \in Threads, OpenChallenge(t) PROVE Alive'
  <2>1. Alone(t) /\ thread'[t].pc = "idle"
    BY <1>0, <1>6, Returning DEF OpenChallenge
  <2>2. challenges \subseteq challenges' /\ opened' \subseteq challenges'
    BY <1>6 DEF OpenChallenge, Alive
  <2> QED BY <1>1, <2>1, <2>2 DEF Nameless
<1>7. ASSUME NEW t \in Threads, Spend(t, "authorize", "freeze") PROVE Alive'
  <2>1. /\ challenges' = challenges /\ opened' \subseteq opened
        /\ thread[t].ch \in challenges
    BY <1>7 DEF Spend, TakeOpen, Alive
  <2>2. CASE Return(t)
    BY <1>0, <1>1, <2>1, <2>2, Returning DEF Nameless
  <2>3. CASE Goto(t, "freeze")
    BY <1>0, <1>1, <2>1, <2>3, Going
  <2> QED BY <1>7, <2>2, <2>3 DEF Spend
<1>8. ASSUME NEW t \in Threads, Issue(t) PROVE Alive'
  <2>1. Alone(t) /\ thread'[t].ch = thread[t].ch
    BY <1>0, <1>8, Going DEF Issue, Granted
  <2>2. thread[t].ch \in challenges
    BY <1>8 DEF Issue, At, Alive
  <2> QED BY <1>1, <1>8, <2>1, <2>2 DEF Issue, ceremony
<1>9. ASSUME NEW t \in Threads,
             Start(t) \/ Persist(t) \/ Check(t) \/ Deliver(t) \/ Decide(t)
      PROVE  Alive'
  <2>1. challenges' = challenges /\ opened' = opened
    BY <1>9 DEF Start, Persist, Check, Deliver, Decide, ceremony
  <2>2. thread'[t].pc \in Authorizing => thread'[t].ch \in challenges
    BY <1>0, <1>9, GoesOn DEF Alive
  <2>3. Alone(t)
    BY <1>0, <1>9, ViewSends
  <2> QED BY <1>1, <1>9, <2>1, <2>2, <2>3
<1> QED BY <1>0, <1>2, <1>3, <1>4, <1>5, <1>6, <1>7, <1>8, <1>9, Moves

\* Only _run_frozen_plan stores the intent of a leg; a recovery stores that of
\* an unwind.
LEMMA OnlyPersistStores ==
  ASSUME Types, [Next]_vars
  PROVE  StoredLegs' = StoredLegs \/ \E t \in Threads : Persist(t)
<1>0. store \in [ challenges : SUBSET Challenges, claims : SUBSET Grants,
                  intents : SUBSET (Grants \X (1..Legs) \X {"leg", "unwind"}),
                  sessions : SUBSET (Challenges \X {"ACTIVE", "STOPPED"}) ]
  BY TypeParts DEF Others
<1>1. ASSUME store'.intents = store.intents PROVE StoredLegs' = StoredLegs
  BY <1>1 DEF StoredLegs
<1>2. CASE UNCHANGED vars
  BY <1>1, <1>2 DEF vars
<1>3. CASE Environment
  BY <1>1, <1>3 DEF Environment, OperatorGone, Drift, Settle, Restart
<1>4. ASSUME NEW t \in Threads, Request(t) PROVE StoredLegs' = StoredLegs
  BY <1>1, <1>4 DEF Request, Options, Approve, Stop
<1>5. ASSUME NEW t \in Threads, Recover(t) PROVE StoredLegs' = StoredLegs
  <2>1. \/ store' = store
        \/ \E l : store' = [ store EXCEPT !.intents = @ \cup {<< Grant(t), l, "unwind" >>} ]
    BY <1>5 DEF Recover
  <2>2. \/ store'.intents = store.intents
        \/ \E l : store'.intents = store.intents \cup {<< Grant(t), l, "unwind" >>}
    BY <1>0, <2>1
  <2>3. {x \in store'.intents : x[3] = "leg"} = {x \in store.intents : x[3] = "leg"}
    BY <2>2
  <2> QED BY <2>3 DEF StoredLegs
<1>6. ASSUME NEW t \in Threads,
             \/ OpenChallenge(t) \/ Issue(t)
             \/ Record(t, "complete", "ACTIVE", "idle") \/ Record(t, "record", "STOPPED", "revoke")
      PROVE  StoredLegs' = StoredLegs
  BY <1>0, <1>1, <1>6 DEF OpenChallenge, Issue, Record
<1>7. ASSUME NEW t \in Threads,
             \/ Spend(t, "authorize", "freeze") \/ Spend(t, "clear", "clearing")
             \/ Replayed(t, "authorize") \/ Replayed(t, "clear")
             \/ Freeze(t) \/ Keep(t) \/ Start(t) \/ Check(t) \/ Sign(t) \/ Snapshot(t)
             \/ Deliver(t) \/ Refuse(t) \/ Reply(t) \/ Decide(t) \/ Halt(t)
             \/ Revoke(t) \/ SetKill(t) \/ Trip(t) \/ ClearRead(t) \/ ClearSet(t) \/ Raise(t)
      PROVE  StoredLegs' = StoredLegs
  BY <1>1, <1>7 DEF Spend, Replayed, Freeze, Keep, Start, Check, Sign, Snapshot, Deliver,
     Refuse, Reply, Decide, Halt, Revoke, SetKill, Trip, ClearRead, ClearSet, Raise
<1> QED BY <1>2, <1>3, <1>4, <1>5, <1>6, <1>7 DEF Next, Handle

\* A step that adds nothing to the store or the venue is a kill or nothing.
LEMMA QuietMaps ==
  ASSUME signerKilled \in BOOLEAN, signerKilled' \in BOOLEAN,
         signerKilled => signerKilled', UNCHANGED << challenges, orders >>,
         store'.challenges = store.challenges, store'.claims = store.claims,
         StoredLegs' = StoredLegs
  PROVE  [Approval!Next]_Approval!vars
<1>1. SentLegs' = SentLegs /\ MatchedLegs' = MatchedLegs
  BY DEF SentLegs, MatchedLegs
<1>2. CASE signerKilled' = signerKilled
  BY <1>1, <1>2 DEF Approval!vars
<1>3. CASE signerKilled' = TRUE
  BY <1>1, <1>3 DEF Approval!Next, Approval!Close
<1> QED BY <1>2, <1>3

\* The intent of a leg that is due.
LEMMA PersistMaps ==
  ASSUME Inv, Alive, NEW t \in Threads, Persist(t)
  PROVE  Approval!Next
<1> DEFINE g == Grant(t)
           l == thread[t].leg
<1>1. /\ Types /\ CeremonyInv /\ View(t) /\ orders \subseteq Orders
      /\ thread \in [ Threads -> Calls ]
      /\ store \in [ challenges : SUBSET Challenges, claims : SUBSET Grants,
                     intents : SUBSET (Grants \X (1..Legs) \X {"leg", "unwind"}),
                     sessions : SUBSET (Challenges \X {"ACTIVE", "STOPPED"}) ]
  BY TypeParts DEF Inv, Others
<1>2. thread[t].pc = "persist" /\ "persist" \in Granted \cap Authorizing \cap Sending
  BY DEF Persist, At, Granted, Authorizing, Executing, Sending
<1>3. l \in 1..Legs /\ g \in store.claims /\ g[1] \in challenges
  BY <1>1, <1>2 DEF Calls, CeremonyInv, Alive, Grant
<1>4. \A o \in orders : o.grant = g => o.leg # l
  <2>1. \A o \in orders : o.grant = g => o.leg < l
    BY <1>1, <1>2 DEF View
  <2>2. l \in Nat
    BY <1>3, LegsAssumption
  <2> QED BY <2>1, <2>2
<1>5. \A k \in 1..(l - 1) : << g, k >> \in MatchedLegs
  <2>1. Earlier(g, l)
    BY <1>1, <1>2 DEF View
  <2> QED BY <2>1 DEF Earlier, MatchedLegs
<1>6. << g, l >> \notin SentLegs
  BY <1>4 DEF SentLegs
<1>7. /\ store'.challenges = store.challenges /\ store'.claims = store.claims
      /\ store'.intents = store.intents \cup {<< g, l, "leg" >>}
      /\ UNCHANGED << challenges, orders, signerKilled >>
  BY <1>1 DEF Persist, ceremony, signer, venue
<1>8. StoredLegs' = StoredLegs \cup {<< g, l >>}
  <2> DEFINE i == << g, l, "leg" >>
  <2>1. i[1] = g /\ i[2] = l /\ i[3] = "leg"
    OBVIOUS
  <2>2. store'.intents = store.intents \cup {i}
    BY <1>7
  <2> HIDE DEF i
  <2> QED BY <2>1, <2>2 DEF StoredLegs
<1>9. SentLegs' = SentLegs /\ MatchedLegs' = MatchedLegs
  BY <1>7 DEF SentLegs, MatchedLegs
<1> HIDE DEF g, l
<1>10. Approval!Store(g, l)
  BY <1>3, <1>5, <1>6, <1>7, <1>8, <1>9 DEF Approval!Store, Approval!Due
<1> QED BY <1>3, <1>10 DEF Approval!Next

\* The order of a leg that is due, stored and not sent before.
LEMMA DeliverMaps ==
  ASSUME Inv, Alive, NEW t \in Threads, Deliver(t)
  PROVE  Approval!Next
<1> DEFINE g == Grant(t)
           l == thread[t].leg
<1>1. /\ Types /\ CeremonyInv /\ View(t) /\ orders \subseteq Orders
      /\ thread \in [ Threads -> Calls ] /\ signerKilled \in BOOLEAN
  BY TypeParts DEF Inv, Others
<1>2. thread[t].pc = "wire" /\ "wire" \in Granted \cap Authorizing \cap Sending
  BY DEF Deliver, At, Granted, Authorizing, Executing, Sending
<1>3. l \in 1..Legs /\ g \in store.claims /\ g[1] \in challenges
  BY <1>1, <1>2 DEF Calls, CeremonyInv, Alive, Grant
<1>4. \A o \in orders : o.grant = g => o.leg # l
  <2>1. \A o \in orders : o.grant = g => o.leg < l
    BY <1>1, <1>2 DEF View
  <2>2. l \in Nat
    BY <1>3, LegsAssumption
  <2> QED BY <2>1, <2>2
<1>5. \A k \in 1..(l - 1) : << g, k >> \in MatchedLegs
  <2>1. Earlier(g, l)
    BY <1>1, <1>2 DEF View
  <2> QED BY <2>1 DEF Earlier, MatchedLegs
<1>6. << g, l >> \notin SentLegs
  BY <1>4 DEF SentLegs
<1>7. << g, l >> \in StoredLegs
  <2>1. << g, l, "leg" >> \in store.intents
    BY <1>1, <1>2 DEF View
  <2> QED BY <2>1 DEF StoredLegs
<1>8. PICK ack \in Acks :
        /\ orders' = orders \cup {[ grant |-> g, leg |-> l, ack |-> ack,
                                   late |-> g \in revoked ]}
        /\ signerKilled' = Trips(ack)
  BY DEF Deliver
<1> DEFINE o == [ grant |-> g, leg |-> l, ack |-> ack, late |-> g \in revoked ]
<1>9. o.grant = g /\ o.leg = l /\ o.ack = ack
  OBVIOUS
<1>10. orders' = orders \cup {o} /\ UNCHANGED << store, challenges >> /\ signerKilled = FALSE
  BY <1>1, <1>8 DEF Deliver, ceremony, Admits
<1> HIDE DEF o, g, l
<1>11. SentLegs' = SentLegs \cup {<< g, l >>} /\ StoredLegs' = StoredLegs
  BY <1>9, <1>10 DEF SentLegs, StoredLegs
<1>12. CASE ack = "MATCHED"
  <2>1. MatchedLegs' = MatchedLegs \cup {<< g, l >>}
    BY <1>9, <1>10, <1>12 DEF MatchedLegs
  <2>2. signerKilled' = signerKilled
    BY <1>8, <1>10, <1>12 DEF Trips
  <2>3. Approval!Send(g, l)
    BY <1>3, <1>5, <1>6, <1>7, <1>10, <1>11, <2>1, <2>2 DEF Approval!Send, Approval!Due
  <2> QED BY <1>3, <2>3 DEF Approval!Next
<1>13. CASE ack # "MATCHED"
  <2>1. MatchedLegs' = MatchedLegs
    BY <1>9, <1>10, <1>13 DEF MatchedLegs
  <2>2. signerKilled' = TRUE
    BY <1>8, <1>13 DEF Trips
  <2>3. Approval!Send(g, l)
    BY <1>3, <1>5, <1>6, <1>7, <1>10, <1>11, <2>1, <2>2 DEF Approval!Send, Approval!Due
  <2> QED BY <1>3, <2>3 DEF Approval!Next
<1> QED BY <1>12, <1>13

\* A challenge is stored and kept, then claimed.
LEMMA CeremonyMaps ==
  ASSUME Inv, Alive, NEW t \in Threads, OpenChallenge(t) \/ Issue(t)
  PROVE  Approval!Next
<1>1. /\ TypeOK /\ Named /\ CeremonyInv
      /\ store \in [ challenges : SUBSET Challenges, claims : SUBSET Grants,
                     intents : SUBSET (Grants \X (1..Legs) \X {"leg", "unwind"}),
                     sessions : SUBSET (Challenges \X {"ACTIVE", "STOPPED"}) ]
  BY TypeParts DEF Inv, Types, Others
<1>2. thread[t].ch \in Challenges
  BY <1>1 DEF OpenChallenge, Issue, At, Named, Nameless
<1>3. store'.intents = store.intents /\ UNCHANGED << orders, signerKilled >>
  BY <1>1 DEF OpenChallenge, Issue, signer, venue
<1>4. SentLegs' = SentLegs /\ MatchedLegs' = MatchedLegs /\ StoredLegs' = StoredLegs
  BY <1>3 DEF SentLegs, MatchedLegs, StoredLegs
<1>5. CASE OpenChallenge(t)
  <2>1. thread[t].ch \notin store.challenges
    BY <1>1, <1>5 DEF OpenChallenge, CeremonyInv
  <2>2. /\ store'.challenges = store.challenges \cup {thread[t].ch}
        /\ store'.claims = store.claims
        /\ challenges' = challenges \cup {thread[t].ch}
    BY <1>1, <1>5 DEF OpenChallenge
  <2>3. Approval!Ask(thread[t].ch)
    BY <1>3, <1>4, <2>1, <2>2 DEF Approval!Ask
  <2> QED BY <1>2, <2>3 DEF Approval!Next
<1>6. CASE Issue(t)
  <2>1. thread[t].pc = "issue" /\ "issue" \in Authorizing
    BY <1>6 DEF Issue, At, Authorizing
  <2>2. thread[t].ch \in challenges /\ \A g \in store.claims : g[1] # thread[t].ch
    BY <1>1, <2>1 DEF CeremonyInv, Alive
  <2>3. /\ store'.challenges = store.challenges
        /\ store'.claims = store.claims \cup {<< thread[t].ch, t >>}
        /\ challenges' = challenges
    BY <1>1, <1>6 DEF Issue, ceremony, Grant
  <2>4. Approval!Give(thread[t].ch, t)
    BY <1>3, <1>4, <2>2, <2>3 DEF Approval!Give
  <2> QED BY <1>2, <2>4 DEF Approval!Next
<1> QED BY <1>5, <1>6

\* Every step of a launch is one of an approval, or none.
LEMMA StepMaps ==
  ASSUME Inv, Alive, [Next]_vars
  PROVE  [Approval!Next]_Approval!vars
<1>1. Types /\ TypeOK /\ signerKilled \in BOOLEAN /\ signerKilled' \in BOOLEAN
  <2>1. Types /\ Types'
    BY InvStep DEF Inv
  <2> QED BY <2>1 DEF Types, TypeOK
<1>2. ASSUME signerKilled => signerKilled', UNCHANGED << challenges, orders >>,
             store'.challenges = store.challenges, store'.claims = store.claims
      PROVE  [Approval!Next]_Approval!vars
  <2>1. CASE StoredLegs' = StoredLegs
    BY <1>1, <1>2, <2>1, QuietMaps
  <2>2. CASE \E t \in Threads : Persist(t)
    BY <2>2, PersistMaps
  <2> QED BY <1>1, <2>1, <2>2, OnlyPersistStores
<1>3. ASSUME Keeps PROVE [Approval!Next]_Approval!vars
  BY <1>2, <1>3 DEF Keeps
<1>4. CASE Restart
  <2>1. challenges' = {} /\ signerKilled' = FALSE /\ UNCHANGED << store, orders >>
    BY <1>4 DEF Restart, venue
  <2>2. SentLegs' = SentLegs /\ MatchedLegs' = MatchedLegs /\ StoredLegs' = StoredLegs
    BY <2>1 DEF SentLegs, MatchedLegs, StoredLegs
  <2>3. Approval!Relaunch
    BY <2>1, <2>2 DEF Approval!Relaunch
  <2> QED BY <2>3 DEF Approval!Next
<1>5. ASSUME NEW t \in Threads, NEW c \in Challenges, Options(t, c)
      PROVE  [Approval!Next]_Approval!vars
  BY <1>2, <1>5 DEF Options, SignerRead, ceremony, venue
<1>6. ASSUME NEW t \in Threads, Spend(t, "authorize", "freeze") \/ Start(t) \/ Decide(t)
      PROVE  [Approval!Next]_Approval!vars
  BY <1>2, <1>6 DEF Spend, Start, Decide, ceremony, signer, venue
<1>7. ASSUME NEW t \in Threads, Check(t)
      PROVE  [Approval!Next]_Approval!vars
  <2>1. signerKilled' = signerKilled \/ signerKilled' = TRUE
    BY <1>7 DEF Check, PortKill
  <2>2. UNCHANGED << challenges, orders, store >>
    BY <1>7 DEF Check, ceremony, venue
  <2> QED BY <1>2, <2>1, <2>2
<1>8. ASSUME NEW t \in Threads, Plain(t) PROVE [Approval!Next]_Approval!vars
  BY <1>3, <1>8 DEF Plain
<1> QED BY <1>1, <1>3, <1>4, <1>5, <1>6, <1>7, <1>8, CeremonyMaps, PersistMaps,
           DeliverMaps, Moves

\* The launches implement ApprovalUse: the approvals asked for in the store and
\* those of the launch, the claims, the intents and orders of the legs and the
\* signer's kill move as it says, for any number of requests, approvals and
\* legs (auth_options, _issue, persist_intent, _run_frozen_plan, _dispatch).
THEOREM LaunchesImplementApprovals == Spec => Approval!Spec
<1>1. Init => Approval!Init
  <2> SUFFICES ASSUME Init PROVE Approval!Init
    OBVIOUS
  <2>1. /\ store.challenges = {} /\ store.claims = {} /\ store.intents = {}
        /\ orders = {} /\ challenges = {} /\ signerKilled = FALSE
    BY DEF Init
  <2>2. SentLegs = {} /\ MatchedLegs = {} /\ StoredLegs = {}
    BY <2>1 DEF SentLegs, MatchedLegs, StoredLegs
  <2> QED BY <2>1, <2>2 DEF Approval!Init
<1>2. Init => Alive
  BY DEF Init, Alive, Idle, Authorizing, Executing
<1>3. Inv /\ Alive /\ [Next]_vars => Alive'
  BY AliveStep
<1>4. Inv /\ Alive /\ [Next]_vars => [Approval!Next]_Approval!vars
  BY StepMaps
<1> QED BY <1>1, <1>2, <1>3, <1>4, InvHolds, PTL DEF Spec, Approval!Spec

\* The same, as the run states it: with the steps that leave the evidence alone
\* named apart.
THEOREM ApprovalsAreRefined == Spec => ApprovalRefines
<1>1. [Approval!Next]_Approval!vars =>
        [UNCHANGED evidence \/ Approval!Next]_Approval!vars
  OBVIOUS
<1> QED BY <1>1, LaunchesImplementApprovals, PTL DEF Approval!Spec, ApprovalRefines
==============================================================================
