------------------------------ MODULE AtomicSigner ------------------------------
(***************************************************************************)
(* What the threads that share the signer may take it for: a service that  *)
(* handles each request at most once, whole, after it was asked, and tells *)
(* its caller either the answer it gave to that very request or nothing    *)
(* that can be relied on.  A request whose caller was told nothing may     *)
(* still be handled later, and a refusal does not say that nothing was     *)
(* performed.  Once closed it performs nothing.                            *)
(***************************************************************************)
CONSTANTS Reads, Mutations, Kills

VARIABLES
  asked,      \* requests that a caller has begun to send
  answer,     \* the answer given to each request, if any
  told,       \* what each caller was told, if anything
  closed,     \* the kill is engaged
  performed   \* mutations that were performed

vars == <<asked, answer, told, closed, performed>>

Requests == Reads \cup Mutations \cup Kills

Init ==
  /\ asked = {}
  /\ answer = [r \in Requests |-> "none"] /\ told = [r \in Requests |-> "none"]
  /\ closed = FALSE /\ performed = {}

\* A caller begins, or fails to.
Ask(r) ==
  /\ r \notin asked
  /\ asked' = asked \cup {r}
  /\ told' \in {told, [told EXCEPT ![r] = "unknown"]}
  /\ UNCHANGED <<answer, closed, performed>>

\* The request's one answer.
Gives(r, a) == /\ r \in asked /\ answer[r] = "none"
               /\ answer' = [answer EXCEPT ![r] = a]
               /\ UNCHANGED <<asked, told>>

\* An answer after the fact: good, or withheld for what it holds.
Settles(r) == Gives(r, "ok") \/ Gives(r, "refused")

Refuse(r) == /\ Gives(r, "refused")
             /\ UNCHANGED <<closed, performed>>

Look(r) == /\ r \in Reads /\ Settles(r)
           /\ closed' \in {closed, TRUE}
           /\ UNCHANGED performed

Engage(r) == /\ r \in Kills /\ Settles(r)
             /\ closed' = TRUE
             /\ UNCHANGED performed

\* A mutation may close the service, whatever its answer.
Perform(r) == /\ r \in Mutations /\ ~closed
              /\ Settles(r) /\ closed' \in {closed, TRUE}
              /\ performed' = performed \cup {r}

Tell(r) == /\ r \in asked /\ told[r] = "none"
           /\ \E o \in {answer[r], "unknown"} \ {"none"} : told' = [told EXCEPT ![r] = o]
           /\ UNCHANGED <<asked, answer, closed, performed>>

Next == \E r \in Requests :
          Ask(r) \/ Refuse(r) \/ Look(r) \/ Engage(r) \/ Perform(r) \/ Tell(r)

Spec == Init /\ [][Next]_vars
=============================================================================
