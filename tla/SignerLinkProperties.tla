-------------------------- MODULE SignerLinkProperties --------------------------
(* What the signer link owes the threads that share it. *)
EXTENDS SignerLink

\* An exchange succeeds only on the sidecar's own positive answer to that very
\* request, however the reads and writes of several threads interleave on the
\* two pipes (_exchange, _verified_response).
NoForeignAnswer ==
  \A r \in Requests : outcome[r] = "ok" => cache[r] = "ok"

\* Once any thread holds the acknowledgement of a kill, no mutation reaches a
\* handler again, those already queued in the pipe included (_engage_kill,
\* _handle_uncached).
AcknowledgedKillHolds ==
  [][ (\E k \in Kills : outcome[k] = "ok") => executed' = executed ]_vars

\* A kill written to a running sidecar is not lost, whatever its own exchange
\* raised: it has been engaged, or it is still in the pipe, unless it was read
\* after its deadline or the sidecar stopped reading (_handle_uncached,
\* _handle_bytes_locked).
KillNotLost ==
  \A k \in Kills :
    (phase[k] \in {"await", "read", "ended"} /\ sidecar \in {"listening", "answering"}) =>
      \/ killed \/ cache[k] = "late"
      \/ \E n \in DOMAIN requestPipe : requestPipe[n] = <<"body", k>>

\* The replay cache never refuses a request, a kill least of all: whatever was
\* served, garbled or late, the loop ends before the cache is full
\* (run_signer_sidecar, _handle_bytes_locked).
CacheNeverRefuses == Listening => Cardinality(Cached) < MaxCache

\* Two threads that swap their answers do each other no lasting harm: unless a
\* stream was torn, the pipes are empty again when every exchange has ended, so
\* the next one reads its own answer (_exchange, read_frame).
QuietPipesAreEmpty ==
  (/\ \A r \in Requests : phase[r] \in {"new", "ended"}
   /\ sidecar = "listening" /\ ~torn)
    => requestPipe = <<>> /\ responsePipe = <<>>

\* What an exchange knows when it ends: a failed read, an unbound answer and a
\* collision say nothing about the request.
Learned(o) == IF o \in {"failed", "unbound", "collision"} THEN "unknown" ELSE o

Asking == {r \in Requests : phase[r] # "new"}
Given == [r \in Requests |-> IF cache[r] = "late" THEN "refused" ELSE cache[r]]
Told == [r \in Requests |-> Learned(outcome[r])]

Signer == INSTANCE AtomicSigner WITH
  asked <- Asking,
  answer <- Given,
  told <- Told,
  closed <- killed,
  performed <- executed

\* However the writes and reads of several threads mix on the two pipes, and
\* wherever the sidecar ends, the link is the service of AtomicSigner: a request
\* is handled at most once and whole, no mutation after the kill, and an
\* exchange that ends well, or with a refusal of its own, has learned the answer
\* to its very request (_exchange, _verified_response, _handle_bytes_locked,
\* _handle_uncached).
SignerRefines == Signer!Spec

\* No thread waits for ever: the read has no timeout, and every exchange ends
\* all the same, because the sidecar's lifetime is bounded and its exit ends
\* the stream (_DeadlineFdStream, launch_signer_sidecar).
ExchangesEnd ==
  \A r \in Requests : phase[r] # "new" ~> phase[r] = "ended"
=============================================================================
