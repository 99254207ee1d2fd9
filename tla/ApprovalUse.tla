------------------------------ MODULE ApprovalUse ------------------------------
(***************************************************************************)
(* What one approval of the operator is worth, without threads, sessions   *)
(* or calls: an approval that was asked for is given to one executor and   *)
(* dies with its launch; the executor stores the intent of a leg before it *)
(* sends the leg, sends it once, and only when all the legs before it were *)
(* matched; and a leg that is not matched closes the launch.               *)
(***************************************************************************)
EXTENDS Integers

CONSTANTS Approvals, Executors, Legs

VARIABLES
  asked,     \* approvals that were ever asked for
  live,      \* those of this launch
  given,     \* which executor an approval was given to
  stored,    \* legs whose intent is stored
  sent,      \* legs that went to the venue
  matched,   \* legs the venue matched
  closed     \* this launch sends nothing any more

vars == <<asked, live, given, stored, sent, matched, closed>>

Init ==
  /\ asked = {} /\ live = {} /\ given = {}
  /\ stored = {} /\ sent = {} /\ matched = {}
  /\ closed = FALSE

Ask(a) ==
  /\ a \notin asked
  /\ asked' = asked \cup {a} /\ live' = live \cup {a}
  /\ UNCHANGED <<given, stored, sent, matched, closed>>

Give(a, e) ==
  /\ a \in live /\ \A use \in given : use[1] # a
  /\ given' = given \cup {<<a, e>>}
  /\ UNCHANGED <<asked, live, stored, sent, matched, closed>>

\* The plan an approval was given for has come to leg l, which was not sent.
Due(use, l) ==
  /\ use[1] \in live /\ <<use, l>> \notin sent
  /\ \A k \in 1..(l - 1) : <<use, k>> \in matched

Store(use, l) ==
  /\ Due(use, l)
  /\ stored' = stored \cup {<<use, l>>}
  /\ UNCHANGED <<asked, live, given, sent, matched, closed>>

Send(use, l) ==
  /\ ~closed
  /\ Due(use, l) /\ <<use, l>> \in stored
  /\ sent' = sent \cup {<<use, l>>}
  /\ \/ matched' = matched \cup {<<use, l>>} /\ UNCHANGED closed
     \/ closed' = TRUE /\ UNCHANGED matched
  /\ UNCHANGED <<asked, live, given, stored>>

\* A kill closes a launch; the next one starts open, without the approvals of
\* those before it.
Close == closed' = TRUE /\ UNCHANGED <<asked, live, given, stored, sent, matched>>

Relaunch ==
  /\ live' = {} /\ closed' = FALSE
  /\ UNCHANGED <<asked, given, stored, sent, matched>>

Next ==
  \/ \E a \in Approvals : Ask(a) \/ \E e \in Executors : Give(a, e)
  \/ \E use \in given, l \in 1..Legs : Store(use, l) \/ Send(use, l)
  \/ Close \/ Relaunch

Spec == Init /\ [][Next]_vars
=============================================================================
