------------------------------- MODULE UserStream -------------------------------
(***************************************************************************)
(* The account's live feed: the one-shot user subscription                 *)
(* (_SignerUserStreamSession), the health of the user stream               *)
(* (UserStreamHealth), the parser of its frames (UserStreamParser) and the *)
(* heartbeat (HeartbeatState).  All four are values their caller advances; *)
(* the caller, the socket and the venue are the environment here: they     *)
(* read the clock before a call and may so pass a time already overtaken,  *)
(* drop and reopen the connection, and deliver frames and answers late,    *)
(* twice or out of order.                                                  *)
(*                                                                         *)
(* Abstracted: wall-clock times, the representability of float deadlines,  *)
(* the fields of a wire event beyond its identity, timestamp and bytes,    *)
(* heartbeat identifiers and evidence hashes.                              *)
(***************************************************************************)
EXTENDS Integers, Sequences, FiniteSets

CONSTANTS
  Interval,       \* websocket.ping_interval_seconds
  MaxTime,        \* bound on the monotonic clock
  Identities,     \* (event_type, id) of the venue's events
  Stamps,         \* their timestamps
  Bytes,          \* the frames one identity and timestamp may come with
  IdentityLimit,  \* UserStreamParser's max_event_identities
  None

ASSUME IntervalAssumption == Interval \in Nat \ {0} /\ MaxTime \in Nat
ASSUME StampAssumption == Stamps \subseteq Nat
ASSUME LimitAssumption == IdentityLimit \in Nat \ {0}

Frames == [identity : Identities, stamp : Stamps, bytes : Bytes]

VARIABLES
  now,        \* the monotonic clock
  session,    \* _SignerUserStreamSession: state, evidence, opens under way
  subscribed, \* subscription frames sent
  link,       \* the socket: unopened, open, down (unnoticed), closed
  pinged,     \* the venue has a ping of this connection to answer
  health,     \* UserStreamHealth
  parser,     \* UserStreamParser
  given,      \* the frames the parser returned as events, in order
  heartbeat,  \* HeartbeatState.status
  heard,      \* history: the last pong, or the last time health began anew
  settled,    \* history: what completed since health was last killed
  doubt       \* history: a heartbeat failed and no reads followed

feed == <<health, parser, given, heard, settled>>
socket == <<link, pinged>>
opening == <<session, subscribed>>
pulse == <<heartbeat, doubt>>
vars == <<now, opening, socket, feed, pulse>>

Larger(a, b) == IF a > b THEN a ELSE b

-----------------------------------------------------------------------------
(* UserStreamHealth *)

Reasons == {"DISCONNECTED", "PROTOCOL_ERROR", "PING_MISSED", "PONG_MISSED"}

ASSUME NoneAssumption == None \notin Nat /\ None \notin Reasons

Phases == {"NONE", "READS_REQUIRED", "AWAITING_BOTH", "AWAITING_RECONNECT",
           "AWAITING_READS"}

Healths == [at : Nat, next : Nat, pong : Nat \cup {None},
            reason : Reasons \cup {None}, phase : Phases]

\* What __post_init__ demands of every value that is built.
Valid(h) ==
  /\ h.at <= h.next /\ h.next - h.at <= Interval
  /\ h.pong # None => h.pong > h.at /\ h.pong = h.next
  /\ h.reason = None => h.phase = "NONE"
  /\ h.reason # None => h.pong = None
  /\ h.reason = "DISCONNECTED" =>
       h.phase \in {"AWAITING_BOTH", "AWAITING_RECONNECT", "AWAITING_READS"}
  /\ h.reason \in Reasons \ {"DISCONNECTED"} => h.phase = "READS_REQUIRED"

IsConnected(h) == h.reason = None

Connected(t) == [at |-> t, next |-> t + Interval, pong |-> None,
                 reason |-> None, phase |-> "NONE"]

\* The first failure stays: a killed stream ignores every later one.
Kill(h, reason, t) ==
  IF IsConnected(h)
  THEN [at |-> Larger(h.at, t), next |-> Larger(h.next, t), pong |-> None,
        reason |-> reason,
        phase |-> IF reason = "DISCONNECTED" THEN "AWAITING_BOTH" ELSE "READS_REQUIRED"]
  ELSE h

\* A time before the last one observed is itself a protocol error.
InOrder(h, t, then) == IF t < h.at THEN Kill(h, "PROTOCOL_ERROR", h.at) ELSE then

OnDisconnect(h, t) == Kill(h, "DISCONNECTED", t)
OnProtocolError(h, t) == Kill(h, "PROTOCOL_ERROR", t)

\* One of the two ends a gap needs: the last of them connects, the other waits.
Recovering(h, t, final, first, then) ==
  InOrder(h, t,
    CASE IsConnected(h) -> h
      [] ~IsConnected(h) /\ h.phase \in final -> Connected(t)
      [] OTHER -> [h EXCEPT !.at = t, !.next = Larger(@, t),
                            !.phase = IF @ = first THEN then ELSE @])

OnReconnect(h, t) ==
  Recovering(h, t, {"AWAITING_RECONNECT"}, "AWAITING_BOTH", "AWAITING_READS")

\* Mutant: reads alone end a gap.
OnReadsCompletedEarly(h, t) ==
  Recovering(h, t, Phases, "AWAITING_BOTH", "AWAITING_RECONNECT")

OnReadsCompleted(h, t) ==
  Recovering(h, t, {"READS_REQUIRED", "AWAITING_READS"},
             "AWAITING_BOTH", "AWAITING_RECONNECT")

\* Mutant: the next ping is due an interval after the deadline of this pong.
OnPingSentLate(h, t) ==
  InOrder(h, t,
    IF IsConnected(h) /\ h.pong = None /\ t >= h.next
    THEN [h EXCEPT !.at = t, !.next = t + 2 * Interval, !.pong = t + Interval]
    ELSE Kill(h, "PROTOCOL_ERROR", t))

\* A ping counts only at the very moment it is due.
OnPingSent(h, t) ==
  LET ready == IsConnected(h) /\ h.pong = None IN
  InOrder(h, t,
    CASE ~ready -> Kill(h, "PROTOCOL_ERROR", t)
      [] ready /\ t > h.next -> Kill(h, "PING_MISSED", t)
      [] ready /\ t < h.next -> Kill(h, "PROTOCOL_ERROR", t)
      [] OTHER -> [h EXCEPT !.at = t, !.next = h.next + Interval,
                            !.pong = t + Interval])

OnPong(h, t) ==
  LET awaited == IsConnected(h) /\ h.pong # None IN
  InOrder(h, t,
    CASE ~awaited -> Kill(h, "PROTOCOL_ERROR", t)
      [] awaited /\ t >= h.pong -> Kill(h, "PONG_MISSED", t)
      [] OTHER -> [h EXCEPT !.at = t, !.pong = None])

\* Mutant: a ping that was never sent is not missed.
CheckPongOnly(h, t) ==
  InOrder(h, t,
    CASE h.pong # None /\ t >= h.pong -> Kill(h, "PONG_MISSED", t)
      [] OTHER -> IF IsConnected(h) THEN [h EXCEPT !.at = t, !.next = Larger(@, t)]
                  ELSE h)

CheckDeadlines(h, t) ==
  InOrder(h, t,
    CASE h.pong # None /\ t >= h.pong -> Kill(h, "PONG_MISSED", t)
      [] h.pong = None /\ t > h.next  -> Kill(h, "PING_MISSED", t)
      [] OTHER -> IF IsConnected(h) THEN [h EXCEPT !.at = t] ELSE h)

-----------------------------------------------------------------------------
(* UserStreamParser *)

NewParser(t) == [health |-> Connected(t), seen |-> {}]

Kin(p, f) == {g \in p.seen : g.identity = f.identity}
Same(p, f) == {g \in Kin(p, f) : g.stamp = f.stamp}

\* Mutant: an older timestamp of a known occurrence is an event like another.
AcceptableUnordered(p, f) ==
  Same(p, f) = {} /\ Cardinality(p.seen) < IdentityLimit

Acceptable(p, f) ==
  /\ Same(p, f) = {}
  /\ \A g \in Kin(p, f) : g.stamp <= f.stamp
  /\ Cardinality(p.seen) < IdentityLimit

Looked(p, t) == [p EXCEPT !.health = CheckDeadlines(@, t)]

Broken(p, t) == [p EXCEPT !.health = OnProtocolError(@, t)]

\* The parser after a well-formed frame, and whether it returned it.
Parse(p, f, t) ==
  LET looked == Looked(p, t) IN
  CASE ~IsConnected(looked.health) -> <<looked, FALSE>>
    [] IsConnected(looked.health) /\ f \in p.seen -> <<looked, FALSE>>
    [] IsConnected(looked.health) /\ f \notin p.seen /\ Acceptable(p, f) ->
         <<[looked EXCEPT !.seen = @ \cup {f}], TRUE>>
    [] OTHER -> <<Broken(looked, t), FALSE>>

-----------------------------------------------------------------------------
(* The subscription *)

Init ==
  /\ now = 0
  /\ session = [state |-> "READY", opens |-> 0] /\ subscribed = 0
  /\ link = "unopened" /\ pinged = FALSE
  /\ health = Connected(0) /\ parser = NewParser(0) /\ given = <<>>
  /\ heartbeat = "INITIAL"
  /\ heard = 0 /\ settled = {} /\ doubt = FALSE

\* Mutant: open looks at its evidence alone.
MayOpenAgain == session.state \in {"READY", "OPENING"}

MayOpen == session.state = "READY"

\* open until its frame is sent.  The read guard and the transport are called
\* outside the lock, and may call open again on the same thread.
Open ==
  /\ link = "unopened" /\ session.opens < 2 /\ MayOpen
  /\ session' = [state |-> "OPENING", opens |-> session.opens + 1]
  /\ UNCHANGED <<now, subscribed, socket, feed, pulse>>

\* The innermost open sends its frame and returns, or fails before or after.
Opened ==
  /\ link = "unopened" /\ session.opens > 0
  /\ \E ok \in BOOLEAN, sent \in 0..1 :
       /\ ok => sent = 1
       /\ subscribed' = subscribed + sent
       /\ session' = [state |-> IF ok THEN "SUCCEEDED" ELSE "FAILED",
                      opens |-> session.opens - 1]
       /\ link' = IF ok /\ session.opens = 1 THEN "open" ELSE link
  /\ UNCHANGED <<now, pinged, feed, pulse>>

-----------------------------------------------------------------------------
(* The socket and the clock *)

Running == link # "unopened"

Tick ==
  /\ Running /\ now < MaxTime
  /\ now' = now + 1
  /\ UNCHANGED <<opening, socket, feed, pulse>>

Drop ==
  /\ link = "open"
  /\ link' = "down" /\ pinged' = FALSE
  /\ UNCHANGED <<now, opening, feed, pulse>>

\* A time the caller may have read: the clock's, or one it has just left.
Times == {t \in {now - 1, now} : t >= 0}

\* The new health, and the histories that go with it: sound is the time of a
\* sign of life the call brings, end what it completes of a recovery.
Becomes(h, sound, end) ==
  /\ health' = h
  /\ heard' = CASE ~IsConnected(health) /\ IsConnected(h) -> h.at
               [] IsConnected(h) /\ sound # None -> sound
               [] OTHER -> heard
  /\ settled' = IF IsConnected(health) THEN {} ELSE settled \cup end

-----------------------------------------------------------------------------
(* The calls on health *)

NoticeDrop ==
  /\ link \in {"down", "closed"}
  /\ link' = "closed"
  /\ \E t \in Times : Becomes(OnDisconnect(health, t), None, {})
  /\ UNCHANGED <<now, opening, pinged, parser, given, pulse>>

\* The caller gives every connection a parser of its own.
Reopen ==
  /\ link = "closed"
  /\ link' = "open" /\ pinged' = FALSE
  /\ \E t \in Times : Becomes(OnReconnect(health, t), t, {"reconnect"})
  /\ parser' = NewParser(now) /\ given' = <<>>
  /\ UNCHANGED <<now, opening, pulse>>

SendPing ==
  /\ Running
  /\ \E t \in Times : Becomes(OnPingSent(health, t), None, {})
  /\ pinged' = (link = "open")
  /\ UNCHANGED <<now, opening, link, parser, given, pulse>>

TakePong ==
  /\ link = "open" /\ pinged
  /\ pinged' = FALSE
  /\ \E t \in Times : Becomes(OnPong(health, t), t, {})
  /\ UNCHANGED <<now, opening, link, parser, given, pulse>>

\* check_deadlines, which on_event_observed is as well.
Check ==
  /\ Running
  /\ \E t \in Times : Becomes(CheckDeadlines(health, t), None, {})
  /\ UNCHANGED <<now, opening, socket, parser, given, pulse>>

ProtocolError ==
  /\ link = "open"
  /\ \E t \in Times : Becomes(OnProtocolError(health, t), None, {})
  /\ UNCHANGED <<now, opening, socket, parser, given, pulse>>

\* The caller completes the authoritative reads and reports them to the stream,
\* the heartbeat or both.  The report says nothing of when they were taken: reads
\* made while the socket is still closed count.
HeartbeatReadsCompleted(status) ==
  IF status = "UNCERTAIN" THEN "RECOVERED" ELSE status

CompleteReads ==
  /\ Running
  /\ \E whom \in SUBSET {"stream", "heartbeat"} :
       /\ IF "stream" \in whom
          THEN \E t \in Times : Becomes(OnReadsCompleted(health, t), None, {"reads"})
          ELSE UNCHANGED <<health, heard, settled>>
       /\ IF "heartbeat" \in whom
          THEN heartbeat' = HeartbeatReadsCompleted(heartbeat) /\ doubt' = FALSE
          ELSE UNCHANGED <<heartbeat, doubt>>
  /\ UNCHANGED <<now, opening, link, pinged, parser, given>>

-----------------------------------------------------------------------------
(* The parser *)

ParseFrame ==
  /\ link = "open" /\ IsConnected(parser.health)
  /\ \E f \in Frames, t \in Times :
       LET parsed == Parse(parser, f, t) IN
       /\ parser' = parsed[1]
       /\ given' = IF parsed[2] THEN Append(given, f) ELSE given
  /\ UNCHANGED <<now, opening, socket, health, heard, settled, pulse>>

\* A malformed frame, or on_gap.
BreakParser ==
  /\ link = "open" /\ IsConnected(parser.health)
  /\ parser' = Broken(parser, now)
  /\ UNCHANGED <<now, opening, socket, health, given, heard, settled, pulse>>

-----------------------------------------------------------------------------
(* The heartbeat *)

\* Mutant: a late acceptance ends the doubt.
ClassifyLatest(previous, accepted) == IF accepted THEN "CONFIRMED" ELSE "UNCERTAIN"

Classify(previous, accepted) ==
  IF accepted /\ previous # "UNCERTAIN" THEN "CONFIRMED" ELSE "UNCERTAIN"

\* The answer or the timeout of a heartbeat.  Any number are in flight, so an
\* acceptance may come after a timeout, and after the reads that followed it.
HeartbeatAnswered ==
  /\ Running
  /\ \E accepted \in BOOLEAN :
       /\ heartbeat' = Classify(heartbeat, accepted)
       /\ doubt' = (doubt \/ ~accepted)
  /\ UNCHANGED <<now, opening, socket, feed>>

Next ==
  \/ Open \/ Opened
  \/ Tick \/ Drop \/ NoticeDrop \/ Reopen
  \/ SendPing \/ TakePong \/ Check \/ ProtocolError
  \/ CompleteReads
  \/ ParseFrame \/ BreakParser
  \/ HeartbeatAnswered

Spec == Init /\ [][Next]_vars
=============================================================================
