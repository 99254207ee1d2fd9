-------------------------- MODULE UserStreamProperties --------------------------
(* What the live feed owes the account that trusts it. *)
EXTENDS UserStream

\* The shapes of the state; every health the methods build passes the tests of
\* UserStreamHealth.__post_init__, which would raise out of the call otherwise.
TypeOK ==
  /\ now \in 0..MaxTime
  /\ session \in [state : {"READY", "OPENING", "SUCCEEDED", "FAILED"}, opens : 0..2]
  /\ subscribed \in Nat
  /\ link \in {"unopened", "open", "down", "closed"}
  /\ pinged \in BOOLEAN
  /\ health \in Healths /\ Valid(health)
  /\ parser \in [health : Healths, seen : SUBSET Frames] /\ Valid(parser.health)
  /\ given \in Seq(Frames)
  /\ heartbeat \in {"INITIAL", "CONFIRMED", "UNCERTAIN", "RECOVERED"}
  /\ doubt \in BOOLEAN
  /\ heard \in Nat /\ settled \subseteq {"reads", "reconnect"}

\* However its guard and transport call back into it, a session sends the
\* subscription with its credentials at most once, and returns evidence only of
\* a frame that was sent (_SignerUserStreamSession.open).
SubscribesOnce ==
  /\ subscribed <= 1
  /\ session.state = "SUCCEEDED" => subscribed = 1

\* A killed stream is trusted again only after a complete set of authoritative
\* reads reported since the kill, and after a gap only once it also reconnected,
\* in either order and however often either is repeated (on_reconnect,
\* on_authoritative_reads_completed).
ResumeNeedsReads ==
  [][ (~IsConnected(health) /\ IsConnected(health')) =>
        /\ "reads" \in settled'
        /\ health.reason = "DISCONNECTED" => "reconnect" \in settled' ]_vars

\* A stream that is checked and still trusted has shown a sign of life, or was
\* trusted anew, less than two intervals before: no order of pings, late pongs
\* and stale clock readings stretches the silence (on_ping_sent, on_pong,
\* check_deadlines).
SilenceNoticed == IsConnected(health) => health.at - heard < 2 * Interval

\* The parser gives every event once and the events of one occurrence in the
\* order of their timestamps, never two frames for one identity, and no more
\* than its limit, whatever the socket repeats or reorders (parse).
EventsOnceInOrder ==
  /\ Len(given) <= IdentityLimit
  /\ \A m, n \in 1..Len(given) :
       (m < n /\ given[m].identity = given[n].identity) =>
         given[m].stamp < given[n].stamp

\* A heartbeat that failed leaves the account uncertain until authoritative
\* reads: an acceptance that comes late, of it or of the next one, does not
\* clear it (classify_heartbeat, on_authoritative_reads_completed).
DoubtNeedsReads == doubt => heartbeat = "UNCERTAIN"
=============================================================================
