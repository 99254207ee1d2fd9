------------------------- MODULE AtMostOnceSubmission -------------------------
(***************************************************************************)
(* What submit_intent promises, without threads, tables or a prepare step: *)
(* an intent goes through its phases once and in order, whatever happens   *)
(* to the process on the way.                                              *)
(*                                                                         *)
(*   new        nobody has claimed the intent                              *)
(*   claimed    one caller may carry it on                                 *)
(*   ready      all that recovery needs is stored; nothing is at the venue *)
(*   committed  its last test has passed, the next thing is the venue call *)
(*   sent       handed to the venue, for good                              *)
(***************************************************************************)
CONSTANT Intents

VARIABLES phase, halted

vars == << phase, halted >>

Phases == { "new", "claimed", "ready", "committed", "sent" }

TypeOK == phase \in [ Intents -> Phases ] /\ halted \in BOOLEAN

Init == phase = [ i \in Intents |-> "new" ] /\ halted = FALSE

Move(i, from, to) ==
  /\ phase[i] = from
  /\ phase' = [ phase EXCEPT ![i] = to ]
  /\ UNCHANGED halted

Claim(i)   == Move(i, "new", "claimed")
Persist(i) == Move(i, "claimed", "ready")
Commit(i)  == ~halted /\ Move(i, "ready", "committed")
Send(i)    == Move(i, "committed", "sent")

\* The kill is permanent, and closes the way to committed.
Halt == halted' = TRUE /\ UNCHANGED phase

\* The process dies: what was about to be sent is not.
Crash ==
  /\ phase' = [ i \in Intents |->
                  IF phase[i] = "committed" THEN "ready" ELSE phase[i] ]
  /\ UNCHANGED halted

Next ==
  \/ \E i \in Intents : Claim(i) \/ Persist(i) \/ Commit(i) \/ Send(i)
  \/ Halt
  \/ Crash

Spec == Init /\ [][Next]_vars
=============================================================================
