------------------------------- MODULE SignerLink -------------------------------
(***************************************************************************)
(* The signer link: the control process and the signer sidecar over one    *)
(* pipe each way.  SignerLinkVenuePort._exchange writes a frame (a size,   *)
(* then a body) and reads a frame back, with no lock around either and no  *)
(* timeout on the read, so the exchanges of two HTTP threads interleave    *)
(* write by write and read by read.  The sidecar reads one frame at a      *)
(* time, answers it from SignerService, and exits at its request limit, at *)
(* the end of its lifetime or at the first frame it cannot read; its exit  *)
(* closes both pipes.                                                      *)
(*                                                                         *)
(* A request identity is drawn once, so an exchange is a process here.     *)
(* Abstracted: the gates of a mutation (Gated; PilotLaunch has them) and   *)
(* the bytes of a torn stream.  A reader that starts in the middle of an   *)
(* answer may skip any amount of what follows.                             *)
(***************************************************************************)
EXTENDS Naturals, Sequences, FiniteSets

CONSTANTS
  Reads,         \* read exchanges: account, orders, trades, geoblock, identity
  Mutations,     \* SIGN_ORDER, SUBMIT_ORDER and CANCEL_ORDER exchanges
  Kills,         \* SIGNER_KILL exchanges
  NoRequest,     \* the request_id None of an unbound failure
  MaxRequests,   \* run_signer_sidecar's max_requests
  MaxCache       \* SignerService's max_cache_entries

Requests == Reads \cup Mutations \cup Kills

ASSUME LimitAssumption == MaxRequests \in Nat /\ MaxCache \in Nat
                          /\ MaxRequests <= MaxCache
ASSUME KindAssumption == /\ NoRequest \notin Requests
                         /\ Reads \cap Mutations = {}
                         /\ Kills \cap (Reads \cup Mutations) = {}

VARIABLES
  phase,         \* how far each exchange of the control process is
  outcome,       \* what the exchange returned or raised
  requestPipe,   \* frames on their way to the sidecar, part by part
  responsePipe,  \* answers on their way back, part by part
  torn,          \* a reader has started in the middle of an answer
  sidecar,       \* the sidecar's loop: listening, answering, out of step, exited
  reply,         \* the answer it is about to write
  served,        \* iterations of its loop
  cache,         \* SignerService._cache: the answer kept for each request
  killed,        \* SignerService._kill_engaged
  executed       \* mutations that were dispatched: signed, or handed to the venue

vars == <<phase, outcome, requestPipe, responsePipe, torn, sidecar, reply,
          served, cache, killed, executed>>
service == <<cache, killed, executed>>

----------------------------------------------------------------------------
Parts == {"size", "body"}
Answers == {"ok", "refused", "late", "invalid"}
Replies == [to : Requests \cup {NoRequest}, answer : Answers]
Nothing == [to |-> NoRequest, answer |-> "invalid"]

Init ==
  /\ phase = [r \in Requests |-> "new"]
  /\ outcome = [r \in Requests |-> "none"]
  /\ requestPipe = <<>> /\ responsePipe = <<>> /\ torn = FALSE
  /\ sidecar = "listening" /\ reply = Nothing /\ served = 0
  /\ cache = [r \in Requests |-> "none"]
  /\ killed = FALSE /\ executed = {}

TypeOK ==
  /\ phase \in [Requests -> {"new", "body", "await", "read", "ended"}]
  /\ outcome \in [Requests -> {"none", "ok", "refused", "unbound", "collision", "failed"}]
  /\ requestPipe \in Seq(Parts \X Requests)
  /\ responsePipe \in Seq(Parts \X Replies)
  /\ torn \in BOOLEAN
  /\ sidecar \in {"listening", "answering", "garbled", "lost", "exited"}
  /\ reply \in Replies
  /\ served \in 0..MaxRequests
  /\ cache \in [Requests -> {"none", "ok", "refused", "late"}]
  /\ killed \in BOOLEAN
  /\ executed \subseteq Mutations

----------------------------------------------------------------------------
(* The control process. *)
Goto(r, p) == phase' = [phase EXCEPT ![r] = p]

End(r, o) == Goto(r, "ended") /\ outcome' = [outcome EXCEPT ![r] = o]

\* A write to a sidecar that has exited fails; any other goes through.
Written(r, part, next) ==
  \/ /\ sidecar # "exited"
     /\ requestPipe' = Append(requestPipe, <<part, r>>)
     /\ Goto(r, next) /\ UNCHANGED outcome
  \/ /\ sidecar = "exited"
     /\ End(r, "failed") /\ UNCHANGED requestPipe

\* write_frame: the size, then the body.
WriteSize(r) == phase[r] = "new" /\ Written(r, "size", "body")
WriteBody(r) == phase[r] = "body" /\ Written(r, "body", "await")

Write(r) == /\ WriteSize(r) \/ WriteBody(r)
            /\ UNCHANGED <<responsePipe, torn, sidecar, reply, served, service>>

\* Mutant: any positive answer is taken for this request's.
VerifiedUnbound(r, a) ==
  IF a.answer = "ok" THEN "ok"
  ELSE IF a.to = NoRequest THEN "unbound" ELSE IF a.to # r THEN "collision" ELSE "refused"

\* Mutant: a refusal is passed on as the sidecar's own code.
VerifiedRaw(r, a) ==
  IF a.to = NoRequest THEN "unbound" ELSE IF a.to # r THEN "collision" ELSE a.answer

\* _verified_response: what an exchange makes of a whole answer.
Verified(r, a) ==
  IF a.to = NoRequest THEN "unbound"
  ELSE IF a.to # r THEN "collision"
  ELSE IF a.answer = "ok" THEN "ok" ELSE "refused"

\* read_frame's first read: the size of an answer, or four bytes from the
\* middle of one, which are no size.
ReadSize(r) ==
  /\ phase[r] = "await" /\ ~torn /\ responsePipe # <<>>
  /\ responsePipe' = Tail(responsePipe)
  /\ \/ Head(responsePipe)[1] = "size" /\ Goto(r, "read") /\ UNCHANGED <<outcome, torn>>
     \/ Head(responsePipe)[1] = "body" /\ End(r, "failed") /\ torn' = TRUE

\* read_frame's second read.
ReadBody(r) ==
  /\ phase[r] = "read" /\ ~torn /\ responsePipe # <<>>
  /\ Head(responsePipe)[1] = "body"
  /\ End(r, Verified(r, Head(responsePipe)[2]))
  /\ responsePipe' = Tail(responsePipe) /\ UNCHANGED torn

\* A read on a torn stream swallows some of it and waits on, fails, or meets
\* the start of an answer again.
ReadTorn(r) ==
  /\ phase[r] \in {"await", "read"} /\ torn /\ responsePipe # <<>>
  /\ \E n \in 1..Len(responsePipe) :
       /\ responsePipe' = SubSeq(responsePipe, n + 1, Len(responsePipe))
       /\ \/ Goto(r, "read") /\ UNCHANGED outcome
          \/ End(r, "failed")
          \/ /\ n > 1 /\ phase[r] = "await"
             /\ responsePipe[n - 1][1] = "size" /\ responsePipe[n][1] = "body"
             /\ End(r, Verified(r, responsePipe[n][2]))
  /\ UNCHANGED torn

\* Mutant: the control process gives up on an answer that is not there yet.
ClosedOrSlow == responsePipe = <<>>

\* Mutant: the control process keeps the sidecar's end of the answers open.
NeverClosed == FALSE

\* The end of file a reader meets once the sidecar has closed its end.
Closed == sidecar = "exited" /\ responsePipe = <<>>

ReadEnd(r) ==
  /\ phase[r] \in {"await", "read"} /\ Closed
  /\ End(r, "failed") /\ UNCHANGED <<responsePipe, torn>>

Read(r) == /\ ReadSize(r) \/ ReadBody(r) \/ ReadTorn(r) \/ ReadEnd(r)
           /\ UNCHANGED <<requestPipe, sidecar, reply, served, service>>

----------------------------------------------------------------------------
(* The sidecar. *)

\* _handle_bytes_locked caches what it answers.
Answer(r, a) == /\ reply' = [to |-> r, answer |-> a]
                /\ cache' = [cache EXCEPT ![r] = a]

Cached == {r \in Requests : cache[r] # "none"}

\* Mutant: the deadline is tested when the answer is written.
LateAfter(r) == /\ Answer(r, "late") /\ UNCHANGED killed
                /\ executed' = executed \cup ({r} \cap Mutations)

\* A request that waited behind another may be read after its deadline.
Late(r) == Answer(r, "late") /\ UNCHANGED <<killed, executed>>

\* What was handled is answered as it went, or its positive answer is withheld
\* after the fact: it holds a secret, does not encode, is too long, or binds an
\* order that is bound already (_sanitized_response_bytes, _handle_bytes_locked).
Settles(r) == Answer(r, "ok") \/ Answer(r, "refused")

\* Mutant: a kill passes the gates of the other operations first.
EngageGated(r) ==
  /\ r \in Kills
  /\ \/ Answer(r, "ok") /\ killed' = TRUE
     \/ Answer(r, "refused") /\ UNCHANGED killed
  /\ UNCHANGED executed

\* _engage_kill, before any gate: the directive is signed by this launch.
Engage(r) == /\ r \in Kills
             /\ Settles(r) /\ killed' = TRUE
             /\ UNCHANGED executed

\* A refusal by the kill, a gate or the read guard.
Gated(r) == /\ r \in Reads \cup Mutations
            /\ Answer(r, "refused")
            /\ UNCHANGED <<killed, executed>>

\* _dispatch of a read, whose result may require the kill.
Look(r) == /\ r \in Reads
           /\ Settles(r) /\ killed' \in {killed, TRUE}
           /\ UNCHANGED executed

\* Mutant: a recovery mutation is admitted past the kill.
AdmittedAlways == TRUE

\* The kill is tested before a mutation's proof, authority and dispatch.
Admitted == ~killed

\* _dispatch of a mutation: its handler's failure kills, and so does a result
\* that says so; a performed mutation whose answer is withheld need not.
Mutate(r) == /\ r \in Mutations /\ Admitted
             /\ executed' = executed \cup {r}
             /\ Settles(r) /\ killed' \in {killed, TRUE}

\* Mutant: one request more than the limit is served.
ListeningOnce == sidecar = "listening" /\ served <= MaxRequests

Listening == sidecar = "listening" /\ served < MaxRequests

\* A whole frame is read and handled.  A full replay cache would refuse it
\* (IPC_REPLAY_CACHE_FULL); CacheNeverRefuses says that it never is.
Serve(r) ==
  /\ Listening /\ Len(requestPipe) >= 2
  /\ requestPipe[1] = <<"size", r>> /\ requestPipe[2] = <<"body", r>>
  /\ requestPipe' = SubSeq(requestPipe, 3, Len(requestPipe))
  /\ Cardinality(Cached) < MaxCache
  /\ Late(r) \/ Engage(r) \/ Gated(r) \/ Look(r) \/ Mutate(r)
  /\ sidecar' = "answering" /\ served' = served + 1
  /\ UNCHANGED <<responsePipe>>

\* A size is followed by another's: the body read is no request, and what
\* follows it in the pipe is out of step.
Garbled ==
  /\ Listening /\ Len(requestPipe) >= 3
  /\ requestPipe[2][1] = "size"
  /\ \E n \in 3..Len(requestPipe) : requestPipe[n][1] = "body"
  /\ sidecar' = "garbled" /\ served' = served + 1
  /\ UNCHANGED <<requestPipe, responsePipe, reply, service>>

Frame(a) == <<<<"size", a>>, <<"body", a>>>>

\* The answer is written; a lifetime that ends between two writes cuts it.
Respond ==
  /\ sidecar = "answering"
  /\ \/ responsePipe' = responsePipe \o Frame(reply) /\ sidecar' = "listening"
     \/ /\ responsePipe' \in {responsePipe, Append(responsePipe, <<"size", reply>>)}
        /\ sidecar' = "exited"
  /\ reply' = Nothing
  /\ UNCHANGED <<requestPipe, served, service>>

\* The body and the next size are each refused unbound, if there is time, and
\* the second ends the loop.
Lost ==
  /\ \/ /\ sidecar = "garbled" /\ sidecar' = "lost"
        /\ responsePipe' = responsePipe \o Frame(Nothing)
     \/ /\ sidecar \in {"garbled", "lost"} /\ sidecar' = "exited"
        /\ responsePipe' \in {responsePipe, responsePipe \o Frame(Nothing)}
  /\ UNCHANGED <<requestPipe, reply, served, service>>

\* The loop ends at its limit, or when its lifetime ends while it reads.
Exit ==
  /\ sidecar = "listening" /\ sidecar' = "exited"
  /\ UNCHANGED <<requestPipe, responsePipe, reply, served, service>>

Sidecar == /\ \/ \E r \in Requests : Serve(r)
              \/ Garbled \/ Respond \/ Lost \/ Exit
           /\ UNCHANGED <<phase, outcome, torn>>

----------------------------------------------------------------------------
Next == \/ \E r \in Requests : Write(r) \/ Read(r)
        \/ Sidecar

\* A thread that has begun to write or to read goes on, and so does the
\* sidecar, which exits in the end because its lifetime is bounded.
Fairness == /\ \A r \in Requests : WF_vars(WriteBody(r) /\ Write(r)) /\ WF_vars(Read(r))
            /\ WF_vars(Sidecar)

Spec == Init /\ [][Next]_vars /\ Fairness
=============================================================================
