---------------------------- MODULE UserStreamProofs ----------------------------
(* Proofs about the live feed, for every interval, frame and limit. *)
EXTENDS UserStreamProperties, FiniteSetTheorems, TLAPS

\* What the calls on health keep: each builds a value its constructor accepts.
Good(h) == h \in Healths /\ Valid(h)

LEMMA ConnectedGood ==
  ASSUME NEW t \in Nat
  PROVE  Good(Connected(t)) /\ IsConnected(Connected(t))
<1>1. Connected(t).at = t /\ Connected(t).next = t + Interval /\ Connected(t).pong = None
      /\ Connected(t).reason = None /\ Connected(t).phase = "NONE"
  BY DEF Connected
<1>2. Connected(t) \in Healths
  BY IntervalAssumption DEF Healths, Connected, Phases
<1>3. Valid(Connected(t))
  BY <1>1, IntervalAssumption, NoneAssumption DEF Valid, Reasons
<1> QED BY <1>1, <1>2, <1>3 DEF Good, IsConnected

LEMMA KillGood ==
  ASSUME NEW h, Good(h), NEW t \in Nat, NEW reason \in Reasons
  PROVE  /\ Good(Kill(h, reason, t)) /\ ~IsConnected(Kill(h, reason, t))
         /\ Kill(h, reason, t).at >= h.at
<1> DEFINE k == [at |-> Larger(h.at, t), next |-> Larger(h.next, t), pong |-> None,
                 reason |-> reason,
                 phase |-> IF reason = "DISCONNECTED" THEN "AWAITING_BOTH"
                           ELSE "READS_REQUIRED"]
<1>1. h.at \in Nat /\ h.next \in Nat /\ h.at <= h.next /\ h.next - h.at <= Interval
  BY DEF Good, Healths, Valid
<1>2. /\ Larger(h.at, t) \in Nat /\ Larger(h.next, t) \in Nat
      /\ Larger(h.at, t) <= Larger(h.next, t)
      /\ Larger(h.next, t) - Larger(h.at, t) <= Interval
      /\ Larger(h.at, t) >= h.at
  BY <1>1, IntervalAssumption DEF Larger
<1>3. k \in Healths
  BY <1>2 DEF Healths, Reasons, Phases
<1>4. Valid(k) /\ ~IsConnected(k)
  BY <1>2, NoneAssumption DEF Valid, IsConnected, Reasons
<1> QED BY <1>1, <1>2, <1>3, <1>4 DEF Good, Kill

\* A time before the last one kills; the rest of a call may assume it is not.
LEMMA InOrderGood ==
  ASSUME NEW h, Good(h), NEW t \in Nat, NEW x, t >= h.at => Good(x)
  PROVE  /\ Good(InOrder(h, t, x))
         /\ InOrder(h, t, x) = x \/ ~IsConnected(InOrder(h, t, x))
         /\ t >= h.at => InOrder(h, t, x) = x
         /\ IsConnected(h) /\ IsConnected(InOrder(h, t, x)) => t >= h.at
<1>1. h.at \in Nat
  BY DEF Good, Healths
<1>2. CASE t < h.at
  <2>1. "PROTOCOL_ERROR" \in Reasons
    BY DEF Reasons
  <2>2. InOrder(h, t, x) = Kill(h, "PROTOCOL_ERROR", h.at)
    BY <1>2 DEF InOrder
  <2> QED BY <1>1, <1>2, <2>1, <2>2, KillGood
<1>3. CASE ~(t < h.at)
  BY <1>1, <1>3 DEF InOrder
<1> QED BY <1>2, <1>3

LEMMA RecoveringGood ==
  ASSUME NEW h, Good(h), NEW t \in Nat, NEW final, NEW first \in Phases,
         NEW then \in Phases,
         h.phase = first /\ h.phase \notin final =>
           /\ first = "AWAITING_BOTH"
           /\ then \in {"AWAITING_RECONNECT", "AWAITING_READS"}
  PROVE  Good(Recovering(h, t, final, first, then))
<1> DEFINE y == [h EXCEPT !.at = t, !.next = Larger(@, t),
                          !.phase = IF @ = first THEN then ELSE @]
           x == CASE IsConnected(h) -> h
                  [] ~IsConnected(h) /\ h.phase \in final -> Connected(t)
                  [] OTHER -> y
<1>1. h.at \in Nat /\ h.next \in Nat /\ h.at <= h.next /\ h.next - h.at <= Interval
  BY DEF Good, Healths, Valid
<1>2. ASSUME t >= h.at, ~IsConnected(h), h.phase \notin final
      PROVE  Good(y)
  <2>1. Larger(h.next, t) \in Nat /\ t <= Larger(h.next, t)
        /\ Larger(h.next, t) - t <= Interval
    BY <1>1, <1>2, IntervalAssumption DEF Larger
  <2>2. h.pong = None
    BY <1>2 DEF Good, Valid, IsConnected
  <2>3. y \in Healths
    BY <2>1 DEF Good, Healths, Phases
  <2>4. /\ y.at = t /\ y.next = Larger(h.next, t) /\ y.pong = h.pong
        /\ y.reason = h.reason /\ y.phase = IF h.phase = first THEN then ELSE h.phase
    BY DEF Good, Healths
  <2>5. h.reason = "DISCONNECTED" => y.phase \in {"AWAITING_BOTH", "AWAITING_RECONNECT",
                                                  "AWAITING_READS"}
    BY <2>4, <1>2 DEF Good, Valid
  <2>6. h.reason \in Reasons \ {"DISCONNECTED"} => y.phase = "READS_REQUIRED"
    BY <2>4, <1>2 DEF Good, Valid
  <2> QED BY <1>2, <2>1, <2>2, <2>3, <2>4, <2>5, <2>6 DEF Good, Valid, IsConnected
<1>3. t >= h.at => Good(x)
  BY <1>2, ConnectedGood
<1> QED BY <1>3, InOrderGood DEF Recovering

----------------------------------------------------------------------------
(* Pings, pongs and deadlines *)

\* How long a trusted stream may go without a sign of life after time s.
Sounded(h, s) ==
  /\ h.pong = None => h.next <= s + Interval
  /\ h.pong # None => h.pong <= s + 2 * Interval

LEMMA ConnectedSounded ==
  ASSUME NEW t \in Nat
  PROVE  Connected(t).at = t /\ Sounded(Connected(t), t)
BY IntervalAssumption DEF Connected, Sounded

LEMMA ReasonsGood ==
  /\ "DISCONNECTED" \in Reasons /\ "PROTOCOL_ERROR" \in Reasons
  /\ "PING_MISSED" \in Reasons /\ "PONG_MISSED" \in Reasons
BY DEF Reasons

\* A call that cannot recover leaves a killed stream as it is, and kills into the
\* first phase of a recovery.
Hardens(h, x) ==
  /\ ~IsConnected(h) => x = h
  /\ IsConnected(h) /\ ~IsConnected(x) => x.phase \in {"AWAITING_BOTH", "READS_REQUIRED"}

LEMMA KillHardens ==
  ASSUME NEW h, NEW t \in Nat, NEW reason \in Reasons
  PROVE  Hardens(h, Kill(h, reason, t))
BY DEF Hardens, Kill

LEMMA InOrderHardens ==
  ASSUME NEW h, Good(h), NEW t \in Nat, NEW x, Hardens(h, x)
  PROVE  Hardens(h, InOrder(h, t, x))
<1>1. h.at \in Nat
  BY DEF Good, Healths
<1> QED BY <1>1, KillHardens, ReasonsGood DEF InOrder

LEMMA PingGood ==
  ASSUME NEW h, Good(h), NEW t \in Nat, NEW s \in Nat, IsConnected(h) => Sounded(h, s)
  PROVE  LET x == OnPingSent(h, t) IN
         Good(x) /\ Hardens(h, x) /\ (IsConnected(x) => Sounded(x, s))
<1> DEFINE sent == [h EXCEPT !.at = t, !.next = h.next + Interval, !.pong = t + Interval]
           ready == IsConnected(h) /\ h.pong = None
           x == CASE ~ready -> Kill(h, "PROTOCOL_ERROR", t)
                  [] ready /\ t > h.next -> Kill(h, "PING_MISSED", t)
                  [] ready /\ t < h.next -> Kill(h, "PROTOCOL_ERROR", t)
                  [] OTHER -> sent
<1>0. h.next \in Nat /\ h.at \in Nat
  BY DEF Good, Healths
<1>1. ASSUME IsConnected(h), h.pong = None, t = h.next
      PROVE  Good(sent) /\ IsConnected(sent) /\ Sounded(sent, s)
  <2>1. /\ sent.at = t /\ sent.next = h.next + Interval /\ sent.pong = t + Interval
        /\ sent.reason = None /\ sent.phase = "NONE"
    BY <1>1 DEF Good, Healths, Valid, IsConnected
  <2>2. sent \in Healths
    <3>1. h.next + Interval \in Nat /\ t + Interval \in Nat \cup {None}
      BY <1>0, IntervalAssumption
    <3> QED BY <3>1 DEF Good, Healths
  <2>3. Valid(sent)
    <3>1. sent.at <= sent.next /\ sent.next - sent.at <= Interval
          /\ sent.pong > sent.at /\ sent.pong = sent.next
      BY <2>1, <1>0, <1>1, IntervalAssumption
    <3> QED BY <2>1, <3>1, NoneAssumption, ReasonsGood DEF Valid
  <2>4. Sounded(sent, s)
    BY <2>1, <1>0, <1>1, IntervalAssumption, NoneAssumption DEF Sounded
  <2> QED BY <2>1, <2>2, <2>3, <2>4 DEF Good, IsConnected
<1>2. \/ x = sent /\ IsConnected(h) /\ h.pong = None /\ t = h.next
      \/ \E reason \in Reasons : x = Kill(h, reason, t)
  <2>1. CASE IsConnected(h) /\ h.pong = None /\ t = h.next
    BY <2>1, <1>0
  <2>2. CASE ~IsConnected(h) \/ h.pong # None
    BY <2>2, ReasonsGood
  <2>3. CASE IsConnected(h) /\ h.pong = None /\ t > h.next
    <3>1. x = Kill(h, "PING_MISSED", t)
      BY <2>3, <1>0
    <3> QED BY <3>1, ReasonsGood
  <2>4. CASE IsConnected(h) /\ h.pong = None /\ t < h.next
    <3>1. x = Kill(h, "PROTOCOL_ERROR", t)
      BY <2>4, <1>0
    <3> QED BY <3>1, ReasonsGood
  <2> QED BY <2>1, <2>2, <2>3, <2>4, <1>0
<1> HIDE DEF x, sent
<1>3. Good(x) /\ Hardens(h, x) /\ (IsConnected(x) => Sounded(x, s))
  BY <1>1, <1>2, KillGood, KillHardens DEF Hardens
<1>4. OnPingSent(h, t) = InOrder(h, t, x)
  BY DEF OnPingSent, x, sent, ready
<1> QED BY <1>3, <1>4, InOrderGood, InOrderHardens

LEMMA PongGood ==
  ASSUME NEW h, Good(h), NEW t \in Nat
  PROVE  LET x == OnPong(h, t) IN
         Good(x) /\ Hardens(h, x) /\ (IsConnected(x) => Sounded(x, t))
<1> DEFINE heardIt == [h EXCEPT !.at = t, !.pong = None]
           awaited == IsConnected(h) /\ h.pong # None
           x == CASE ~awaited -> Kill(h, "PROTOCOL_ERROR", t)
                  [] awaited /\ t >= h.pong -> Kill(h, "PONG_MISSED", t)
                  [] OTHER -> heardIt
<1>0. h.next \in Nat /\ h.at \in Nat /\ h.pong \in Nat \cup {None}
  BY DEF Good, Healths
<1>1. ASSUME IsConnected(h), h.pong # None, t < h.pong, t >= h.at
      PROVE  Good(heardIt) /\ IsConnected(heardIt) /\ Sounded(heardIt, t)
  <2>1. /\ heardIt.at = t /\ heardIt.next = h.next /\ heardIt.pong = None
        /\ heardIt.reason = None /\ heardIt.phase = "NONE"
    BY <1>1 DEF Good, Healths, Valid, IsConnected
  <2>2. heardIt \in Healths
    BY <1>0 DEF Good, Healths
  <2>3. h.pong = h.next /\ h.next - h.at <= Interval
    BY <1>1 DEF Good, Valid
  <2>4. Valid(heardIt)
    <3>1. heardIt.at <= heardIt.next /\ heardIt.next - heardIt.at <= Interval
      BY <2>1, <2>3, <1>0, <1>1, IntervalAssumption
    <3> QED BY <2>1, <3>1, NoneAssumption, ReasonsGood DEF Valid
  <2>5. Sounded(heardIt, t)
    BY <2>1, <2>3, <1>0, <1>1, IntervalAssumption, NoneAssumption DEF Sounded
  <2> QED BY <2>1, <2>2, <2>4, <2>5 DEF Good, IsConnected
<1>2. \/ x = heardIt /\ IsConnected(h) /\ h.pong # None /\ t < h.pong
      \/ \E reason \in Reasons : x = Kill(h, reason, t)
  <2>1. CASE IsConnected(h) /\ h.pong # None /\ t < h.pong
    BY <2>1, <1>0
  <2>2. CASE ~IsConnected(h) \/ h.pong = None
    BY <2>2, ReasonsGood
  <2>3. CASE IsConnected(h) /\ h.pong # None /\ t >= h.pong
    <3>1. x = Kill(h, "PONG_MISSED", t)
      BY <2>3, <1>0
    <3> QED BY <3>1, ReasonsGood
  <2> QED BY <2>1, <2>2, <2>3, <1>0
<1> HIDE DEF x, heardIt
<1>3. t >= h.at => Good(x) /\ Hardens(h, x) /\ (IsConnected(x) => Sounded(x, t))
  BY <1>1, <1>2, KillGood, KillHardens DEF Hardens
<1>4. OnPong(h, t) = InOrder(h, t, x)
  BY DEF OnPong, x, heardIt, awaited
<1>5. Hardens(h, x)
  <2>1. IsConnected(h) => IsConnected(heardIt)
    BY DEF IsConnected, heardIt, Good, Healths
  <2>2. CASE x = heardIt /\ IsConnected(h)
    BY <2>1, <2>2 DEF Hardens
  <2> QED BY <1>2, <2>2, KillHardens
<1>6. Good(OnPong(h, t)) /\ Hardens(h, OnPong(h, t))
  BY <1>3, <1>4, <1>5, InOrderGood, InOrderHardens
<1>7. ASSUME IsConnected(OnPong(h, t))
      PROVE  Sounded(OnPong(h, t), t)
  <2>1. IsConnected(h)
    BY <1>6, <1>7 DEF Hardens
  <2> QED BY <1>3, <1>4, <1>7, <2>1, InOrderGood
<1> QED BY <1>6, <1>7

LEMMA CheckGood ==
  ASSUME NEW h, Good(h), NEW t \in Nat, NEW s \in Nat, IsConnected(h) => Sounded(h, s)
  PROVE  LET x == CheckDeadlines(h, t) IN
         Good(x) /\ Hardens(h, x) /\ (IsConnected(x) => Sounded(x, s))
<1> DEFINE seen == [h EXCEPT !.at = t]
           x == CASE h.pong # None /\ t >= h.pong -> Kill(h, "PONG_MISSED", t)
                  [] h.pong = None /\ t > h.next  -> Kill(h, "PING_MISSED", t)
                  [] OTHER -> IF IsConnected(h) THEN seen ELSE h
           inTime == (h.pong # None => t < h.pong) /\ (h.pong = None => t <= h.next)
<1>0. h.next \in Nat /\ h.at \in Nat /\ h.pong \in Nat \cup {None}
  BY DEF Good, Healths
<1>1. ASSUME IsConnected(h)
      PROVE  /\ seen.at = t /\ seen.next = h.next /\ seen.pong = h.pong
             /\ seen.reason = None /\ seen.phase = "NONE"
             /\ seen \in Healths /\ IsConnected(seen) /\ Sounded(seen, s)
  BY <1>1 DEF Good, Healths, Valid, IsConnected, Sounded
<1>2. ASSUME IsConnected(h), inTime, t >= h.at
      PROVE  Good(seen)
  <2>1. /\ h.next - h.at <= Interval
        /\ h.pong # None => h.pong = h.next
    BY <1>2 DEF Good, Valid
  <2>2. /\ seen.at <= seen.next /\ seen.next - seen.at <= Interval
        /\ seen.pong # None => seen.pong > seen.at /\ seen.pong = seen.next
    BY <2>1, <1>0, <1>1, <1>2, IntervalAssumption, NoneAssumption
  <2> QED BY <1>1, <1>2, <2>2, NoneAssumption, ReasonsGood DEF Good, Valid
<1>3. \/ x = h /\ ~IsConnected(h)
      \/ x = seen /\ IsConnected(h) /\ inTime
      \/ \E reason \in Reasons : x = Kill(h, reason, t)
  <2>1. CASE ~IsConnected(h)
    BY <2>1 DEF Kill
  <2>2. CASE IsConnected(h) /\ inTime
    BY <2>2, <1>0, NoneAssumption
  <2>3. CASE IsConnected(h) /\ h.pong # None /\ t >= h.pong
    <3>1. x = Kill(h, "PONG_MISSED", t)
      BY <2>3
    <3> QED BY <3>1, ReasonsGood
  <2>4. CASE IsConnected(h) /\ h.pong = None /\ t > h.next
    <3>1. x = Kill(h, "PING_MISSED", t)
      BY <2>4
    <3> QED BY <3>1, ReasonsGood
  <2> QED BY <2>1, <2>2, <2>3, <2>4, <1>0, NoneAssumption
<1>4. CheckDeadlines(h, t) = InOrder(h, t, x)
  BY DEF CheckDeadlines
<1> HIDE DEF x, seen, inTime
<1>5. Hardens(h, x)
  BY <1>1, <1>3, KillHardens DEF Hardens
<1>6. t >= h.at => Good(x)
  BY <1>2, <1>3, KillGood
<1>7. IsConnected(x) => Sounded(x, s)
  BY <1>1, <1>3, KillGood
<1> QED BY <1>4, <1>5, <1>6, <1>7, InOrderGood, InOrderHardens

----------------------------------------------------------------------------
(* Recovery *)

\* What each of the two ends makes of a killed stream.
LEMMA ReconnectGood ==
  ASSUME NEW h, Good(h), NEW t \in Nat
  PROVE  LET x == OnReconnect(h, t) IN
         /\ Good(x)
         /\ IsConnected(h) /\ IsConnected(x) => x = h /\ t >= h.at
         /\ IsConnected(h) /\ ~IsConnected(x) => x.phase \in {"AWAITING_BOTH", "READS_REQUIRED"}
         /\ ~IsConnected(h) /\ IsConnected(x) => h.phase = "AWAITING_RECONNECT" /\ x = Connected(t)
         /\ ~IsConnected(h) /\ ~IsConnected(x) => x.phase \in {h.phase, "AWAITING_READS"}
<1> DEFINE y == [h EXCEPT !.at = t, !.next = Larger(@, t),
                          !.phase = IF @ = "AWAITING_BOTH" THEN "AWAITING_READS" ELSE @]
<1>1. Good(OnReconnect(h, t))
  <2>1. "AWAITING_BOTH" \in Phases /\ "AWAITING_READS" \in Phases
    BY DEF Phases
  <2> QED BY <2>1, RecoveringGood DEF OnReconnect
<1>2. h.at \in Nat
  BY DEF Good, Healths
<1>3. ~IsConnected(h) => ~IsConnected(y) /\ y.phase \in {h.phase, "AWAITING_READS"}
  BY DEF Good, Healths, IsConnected
<1>4. CASE t < h.at
  <2>1. OnReconnect(h, t) = Kill(h, "PROTOCOL_ERROR", h.at)
    BY <1>4 DEF OnReconnect, Recovering, InOrder
  <2> QED BY <1>1, <1>2, <2>1, KillGood, KillHardens, ReasonsGood DEF Hardens
<1>5. CASE t >= h.at /\ IsConnected(h)
  <2>1. OnReconnect(h, t) = h
    BY <1>2, <1>5 DEF OnReconnect, Recovering, InOrder
  <2> QED BY <1>5, <2>1
<1>6. CASE t >= h.at /\ ~IsConnected(h) /\ h.phase = "AWAITING_RECONNECT"
  <2>1. OnReconnect(h, t) = Connected(t)
    BY <1>2, <1>6 DEF OnReconnect, Recovering, InOrder
  <2> QED BY <1>1, <1>6, <2>1, ConnectedGood
<1>7. CASE t >= h.at /\ ~IsConnected(h) /\ h.phase # "AWAITING_RECONNECT"
  <2>1. OnReconnect(h, t) = y
    BY <1>2, <1>7 DEF OnReconnect, Recovering, InOrder
  <2> QED BY <1>1, <1>3, <1>7, <2>1
<1> QED BY <1>2, <1>4, <1>5, <1>6, <1>7

LEMMA ReadsGood ==
  ASSUME NEW h, Good(h), NEW t \in Nat
  PROVE  LET x == OnReadsCompleted(h, t) IN
         /\ Good(x)
         /\ IsConnected(h) /\ IsConnected(x) => x = h
         /\ IsConnected(h) /\ ~IsConnected(x) => x.phase \in {"AWAITING_BOTH", "READS_REQUIRED"}
         /\ ~IsConnected(h) /\ IsConnected(x) =>
              h.phase \in {"READS_REQUIRED", "AWAITING_READS"} /\ x = Connected(t)
         /\ ~IsConnected(h) /\ ~IsConnected(x) => x.phase \in {h.phase, "AWAITING_RECONNECT"}
<1> DEFINE y == [h EXCEPT !.at = t, !.next = Larger(@, t),
                          !.phase = IF @ = "AWAITING_BOTH" THEN "AWAITING_RECONNECT" ELSE @]
           last == {"READS_REQUIRED", "AWAITING_READS"}
<1>1. Good(OnReadsCompleted(h, t))
  <2>1. "AWAITING_BOTH" \in Phases /\ "AWAITING_RECONNECT" \in Phases
    BY DEF Phases
  <2> QED BY <2>1, RecoveringGood DEF OnReadsCompleted
<1>2. h.at \in Nat
  BY DEF Good, Healths
<1>3. ~IsConnected(h) => ~IsConnected(y) /\ y.phase \in {h.phase, "AWAITING_RECONNECT"}
  BY DEF Good, Healths, IsConnected
<1>4. CASE t < h.at
  <2>1. OnReadsCompleted(h, t) = Kill(h, "PROTOCOL_ERROR", h.at)
    BY <1>4 DEF OnReadsCompleted, Recovering, InOrder
  <2> QED BY <1>1, <1>2, <2>1, KillGood, KillHardens, ReasonsGood DEF Hardens
<1>5. CASE t >= h.at /\ IsConnected(h)
  <2>1. OnReadsCompleted(h, t) = h
    BY <1>2, <1>5 DEF OnReadsCompleted, Recovering, InOrder
  <2> QED BY <1>5, <2>1
<1>6. CASE t >= h.at /\ ~IsConnected(h) /\ h.phase \in last
  <2>1. OnReadsCompleted(h, t) = Connected(t)
    BY <1>2, <1>6 DEF OnReadsCompleted, Recovering, InOrder
  <2> QED BY <1>1, <1>6, <2>1, ConnectedGood
<1>7. CASE t >= h.at /\ ~IsConnected(h) /\ h.phase \notin last
  <2>1. OnReadsCompleted(h, t) = y
    BY <1>2, <1>7 DEF OnReadsCompleted, Recovering, InOrder
  <2> QED BY <1>1, <1>3, <1>7, <2>1
<1> QED BY <1>2, <1>4, <1>5, <1>6, <1>7

----------------------------------------------------------------------------
(* The invariant *)

\* The deadlines a trusted stream is under, and what a phase has behind it.
Trust ==
  /\ IsConnected(health) => Sounded(health, heard)
  /\ health.phase = "AWAITING_RECONNECT" => "reads" \in settled
  /\ health.phase = "AWAITING_READS" => "reconnect" \in settled

\* An open is under way only in OPENING, once, before the frame is sent.
Opening ==
  /\ session.state = "OPENING" => session.opens = 1
  /\ session.state # "OPENING" => session.opens = 0
  /\ session.state \in {"READY", "OPENING"} => subscribed = 0
  /\ SubscribesOnce

\* The parser remembers what it gave.
Remembered ==
  /\ IsFiniteSet(parser.seen) /\ Cardinality(parser.seen) = Len(given)
  /\ \A n \in 1..Len(given) : given[n] \in parser.seen
  /\ EventsOnceInOrder

Inv == TypeOK /\ Trust /\ Opening /\ Remembered /\ DoubtNeedsReads

LEMMA TimesAreNat == ASSUME now \in 0..MaxTime, NEW t \in Times PROVE t \in Nat
BY IntervalAssumption DEF Times

LEMMA InitInv == Init => Inv
<1> SUFFICES ASSUME Init PROVE Inv
  OBVIOUS
<1>1. Good(Connected(0)) /\ Sounded(Connected(0), 0)
  BY ConnectedGood, ConnectedSounded
<1>2. TypeOK
  <2>1. health \in Healths /\ Valid(health)
    BY <1>1 DEF Init, Good
  <2>2. parser = [health |-> Connected(0), seen |-> {}]
    BY DEF Init, NewParser
  <2>3. parser \in [health : Healths, seen : SUBSET Frames] /\ Valid(parser.health)
    BY <1>1, <2>2 DEF Good
  <2>4. given \in Seq(Frames) /\ now \in 0..MaxTime
    BY IntervalAssumption DEF Init
  <2>5. session \in [state : {"READY", "OPENING", "SUCCEEDED", "FAILED"}, opens : 0..2]
    BY DEF Init
  <2> QED BY <2>1, <2>3, <2>4, <2>5 DEF Init, TypeOK
<1>3. Trust
  BY <1>1 DEF Init, Trust, Connected
<1>4. Opening /\ DoubtNeedsReads
  BY DEF Init, Opening, SubscribesOnce, DoubtNeedsReads
<1>5. Remembered
  BY FS_EmptySet, LimitAssumption DEF Init, Remembered, EventsOnceInOrder, NewParser
<1> QED BY <1>2, <1>3, <1>4, <1>5 DEF Inv

\* A call on health that keeps its promises keeps the invariant's part of it.
HealthOK(h, s, e) ==
  /\ Good(h) /\ s \in Nat /\ e \subseteq {"reads", "reconnect"}
  /\ IsConnected(h) => Sounded(h, s)
  /\ h.phase = "AWAITING_RECONNECT" => "reads" \in e
  /\ h.phase = "AWAITING_READS" => "reconnect" \in e

LEMMA HealthInv ==
  Inv => HealthOK(health, heard, settled)
BY DEF Inv, TypeOK, Trust, HealthOK, Good

\* A call that cannot recover: pings, pongs, deadlines and failures.
LEMMA BecomesHard ==
  ASSUME HealthOK(health, heard, settled), NEW h, Good(h), Hardens(health, h),
         NEW sound \in Nat \cup {None},
         IsConnected(h) => Sounded(h, IF sound = None THEN heard ELSE sound),
         Becomes(h, sound, {})
  PROVE  HealthOK(health', heard', settled')
<1>1. CASE IsConnected(h)
  <2>1. IsConnected(health)
    BY <1>1 DEF Hardens
  <2>2. health' = h /\ heard' = (IF sound = None THEN heard ELSE sound) /\ settled' = {}
    BY <1>1, <2>1 DEF Becomes
  <2>3. h.phase = "NONE"
    BY <1>1 DEF Good, Valid, IsConnected
  <2> QED BY <1>1, <2>2, <2>3 DEF HealthOK
<1>2. CASE ~IsConnected(h) /\ IsConnected(health)
  <2>1. health' = h /\ heard' = heard /\ settled' = {}
    BY <1>2 DEF Becomes
  <2>2. h.phase \in {"AWAITING_BOTH", "READS_REQUIRED"}
    BY <1>2 DEF Hardens
  <2> QED BY <1>2, <2>1, <2>2 DEF HealthOK
<1>3. CASE ~IsConnected(h) /\ ~IsConnected(health)
  <2>1. health' = health /\ heard' = heard /\ settled' = settled
    BY <1>3 DEF Becomes, Hardens
  <2> QED BY <2>1 DEF HealthOK
<1> QED BY <1>1, <1>2, <1>3

LEMMA HardCalls ==
  ASSUME HealthOK(health, heard, settled), NEW t \in Nat,
         \/ Becomes(OnDisconnect(health, t), None, {})
         \/ Becomes(OnProtocolError(health, t), None, {})
         \/ Becomes(OnPingSent(health, t), None, {})
         \/ Becomes(OnPong(health, t), t, {})
         \/ Becomes(CheckDeadlines(health, t), None, {})
  PROVE  /\ HealthOK(health', heard', settled')
         /\ ~IsConnected(health) => health' = health
<1>0. Good(health) /\ heard \in Nat /\ (IsConnected(health) => Sounded(health, heard))
  BY DEF HealthOK
<1>1. ASSUME NEW reason \in Reasons, Becomes(Kill(health, reason, t), None, {})
      PROVE  HealthOK(health', heard', settled') /\ (~IsConnected(health) => health' = health)
  <2>1. Good(Kill(health, reason, t)) /\ ~IsConnected(Kill(health, reason, t))
        /\ Hardens(health, Kill(health, reason, t))
    BY <1>0, KillGood, KillHardens
  <2>2. HealthOK(health', heard', settled')
    BY <1>1, <2>1, BecomesHard
  <2> QED BY <1>1, <2>1, <2>2 DEF Becomes, Hardens
<1>2. CASE Becomes(OnDisconnect(health, t), None, {})
  BY <1>1, <1>2, ReasonsGood DEF OnDisconnect
<1>3. CASE Becomes(OnProtocolError(health, t), None, {})
  BY <1>1, <1>3, ReasonsGood DEF OnProtocolError
<1>4. CASE Becomes(OnPingSent(health, t), None, {})
  <2>1. LET x == OnPingSent(health, t) IN
        Good(x) /\ Hardens(health, x) /\ (IsConnected(x) => Sounded(x, heard))
    BY <1>0, PingGood
  <2>2. HealthOK(health', heard', settled')
    BY <1>4, <2>1, BecomesHard
  <2> QED BY <1>4, <2>1, <2>2 DEF Becomes, Hardens
<1>5. CASE Becomes(OnPong(health, t), t, {})
  <2>1. LET x == OnPong(health, t) IN
        Good(x) /\ Hardens(health, x) /\ (IsConnected(x) => Sounded(x, t))
    BY <1>0, PongGood
  <2>2. t # None
    BY NoneAssumption
  <2>3. HealthOK(health', heard', settled')
    BY <1>5, <2>1, <2>2, BecomesHard
  <2> QED BY <1>5, <2>1, <2>3 DEF Becomes, Hardens
<1>6. CASE Becomes(CheckDeadlines(health, t), None, {})
  <2>1. LET x == CheckDeadlines(health, t) IN
        Good(x) /\ Hardens(health, x) /\ (IsConnected(x) => Sounded(x, heard))
    BY <1>0, CheckGood
  <2>2. HealthOK(health', heard', settled')
    BY <1>6, <2>1, BecomesHard
  <2> QED BY <1>6, <2>1, <2>2 DEF Becomes, Hardens
<1> QED BY <1>2, <1>3, <1>4, <1>5, <1>6

LEMMA RecoveryCalls ==
  ASSUME HealthOK(health, heard, settled), NEW t \in Nat,
         \/ Becomes(OnReconnect(health, t), t, {"reconnect"})
         \/ Becomes(OnReadsCompleted(health, t), None, {"reads"})
  PROVE  /\ HealthOK(health', heard', settled')
         /\ ~IsConnected(health) /\ IsConnected(health') =>
              /\ "reads" \in settled'
              /\ health.reason = "DISCONNECTED" => "reconnect" \in settled'
<1>0. Good(health) /\ heard \in Nat /\ (IsConnected(health) => Sounded(health, heard))
      /\ settled \subseteq {"reads", "reconnect"} /\ t # None
  BY NoneAssumption DEF HealthOK
<1>1. CASE Becomes(OnReconnect(health, t), t, {"reconnect"})
  <2> DEFINE x == OnReconnect(health, t)
  <2>1. /\ Good(x)
        /\ IsConnected(health) /\ IsConnected(x) => x = health /\ t >= health.at
        /\ IsConnected(health) /\ ~IsConnected(x) =>
             x.phase \in {"AWAITING_BOTH", "READS_REQUIRED"}
        /\ ~IsConnected(health) /\ IsConnected(x) =>
             health.phase = "AWAITING_RECONNECT" /\ x = Connected(t)
        /\ ~IsConnected(health) /\ ~IsConnected(x) =>
             x.phase \in {health.phase, "AWAITING_READS"}
    BY <1>0, ReconnectGood
  <2> HIDE DEF x
  <2>2. health' = x
    BY <1>1 DEF Becomes, x
  <2>3. CASE IsConnected(health) /\ IsConnected(x)
    <3>1. heard' = t /\ settled' = {}
      BY <1>0, <1>1, <2>3 DEF Becomes, x
    <3>2. Sounded(x, t) /\ x.phase = "NONE"
      <4>1. x.next - x.at <= Interval /\ (x.pong # None => x.pong = x.next)
            /\ x.phase = "NONE" /\ x.next \in Nat /\ x.at \in Nat /\ t >= x.at
        BY <2>1, <2>3 DEF Good, Valid, Healths, IsConnected
      <4>2. x.next <= t + Interval /\ x.next <= t + 2 * Interval
        BY <4>1, IntervalAssumption
      <4> QED BY <4>1, <4>2 DEF Sounded
    <3> QED BY <2>1, <2>2, <2>3, <3>1, <3>2 DEF HealthOK
  <2>4. CASE IsConnected(health) /\ ~IsConnected(x)
    <3>1. heard' = heard /\ settled' = {}
      BY <1>1, <2>4 DEF Becomes, x
    <3> QED BY <1>0, <2>1, <2>2, <2>4, <3>1 DEF HealthOK
  <2>5. CASE ~IsConnected(health) /\ IsConnected(x)
    <3>1. heard' = t /\ settled' = settled \cup {"reconnect"}
      BY <1>1, <2>1, <2>5, ConnectedSounded DEF Becomes, x
    <3>2. "reads" \in settled
      BY <2>1, <2>5 DEF HealthOK
    <3>3. Sounded(x, t) /\ x.phase = "NONE"
      BY <2>1, <2>5, ConnectedSounded DEF Connected
    <3> QED BY <1>0, <2>1, <2>2, <2>5, <3>1, <3>2, <3>3 DEF HealthOK
  <2>6. CASE ~IsConnected(health) /\ ~IsConnected(x)
    <3>1. heard' = heard /\ settled' = settled \cup {"reconnect"}
      BY <1>1, <2>6 DEF Becomes, x
    <3> QED BY <1>0, <2>1, <2>2, <2>6, <3>1 DEF HealthOK
  <2> QED BY <2>3, <2>4, <2>5, <2>6
<1>2. CASE Becomes(OnReadsCompleted(health, t), None, {"reads"})
  <2> DEFINE x == OnReadsCompleted(health, t)
  <2>1. /\ Good(x)
        /\ IsConnected(health) /\ IsConnected(x) => x = health
        /\ IsConnected(health) /\ ~IsConnected(x) =>
             x.phase \in {"AWAITING_BOTH", "READS_REQUIRED"}
        /\ ~IsConnected(health) /\ IsConnected(x) =>
             health.phase \in {"READS_REQUIRED", "AWAITING_READS"} /\ x = Connected(t)
        /\ ~IsConnected(health) /\ ~IsConnected(x) =>
             x.phase \in {health.phase, "AWAITING_RECONNECT"}
    BY <1>0, ReadsGood
  <2> HIDE DEF x
  <2>2. health' = x
    BY <1>2 DEF Becomes, x
  <2>3. CASE IsConnected(health) /\ IsConnected(x)
    <3>1. heard' = heard /\ settled' = {}
      BY <1>2, <2>3 DEF Becomes, x
    <3>2. x.phase = "NONE"
      BY <2>1, <2>3 DEF Good, Valid, IsConnected
    <3> QED BY <1>0, <2>1, <2>2, <2>3, <3>1, <3>2 DEF HealthOK
  <2>4. CASE IsConnected(health) /\ ~IsConnected(x)
    <3>1. heard' = heard /\ settled' = {}
      BY <1>2, <2>4 DEF Becomes, x
    <3> QED BY <1>0, <2>1, <2>2, <2>4, <3>1 DEF HealthOK
  <2>5. CASE ~IsConnected(health) /\ IsConnected(x)
    <3>1. heard' = t /\ settled' = settled \cup {"reads"}
      BY <1>2, <2>1, <2>5, ConnectedSounded DEF Becomes, x
    <3>2. health.reason = "DISCONNECTED" => "reconnect" \in settled
      BY <1>0, <2>1, <2>5 DEF HealthOK, Good, Valid
    <3>3. Sounded(x, t) /\ x.phase = "NONE"
      BY <2>1, <2>5, ConnectedSounded DEF Connected
    <3> QED BY <1>0, <2>1, <2>2, <2>5, <3>1, <3>2, <3>3 DEF HealthOK
  <2>6. CASE ~IsConnected(health) /\ ~IsConnected(x)
    <3>1. heard' = heard /\ settled' = settled \cup {"reads"}
      BY <1>2, <2>6 DEF Becomes, x
    <3> QED BY <1>0, <2>1, <2>2, <2>6, <3>1 DEF HealthOK
  <2> QED BY <2>3, <2>4, <2>5, <2>6
<1> QED BY <1>1, <1>2

----------------------------------------------------------------------------
(* The parser *)

ParserOK == /\ parser \in [health : Healths, seen : SUBSET Frames]
            /\ Valid(parser.health) /\ given \in Seq(Frames) /\ Remembered

LEMMA ParserHealthGood ==
  ASSUME NEW p \in [health : Healths, seen : SUBSET Frames], Valid(p.health), NEW t \in Nat
  PROVE  /\ Looked(p, t) \in [health : Healths, seen : SUBSET Frames]
         /\ Valid(Looked(p, t).health) /\ Looked(p, t).seen = p.seen
         /\ Broken(p, t) \in [health : Healths, seen : SUBSET Frames]
         /\ Valid(Broken(p, t).health) /\ Broken(p, t).seen = p.seen
<1> DEFINE h == p.health
<1>1. Good(h)
  BY DEF Good
<1>2. h.next \in Nat /\ (IsConnected(h) => Sounded(h, h.next))
  <2>1. h.next \in Nat /\ (h.pong # None => h.pong = h.next)
    BY <1>1 DEF Good, Healths, Valid
  <2>2. h.next <= h.next + Interval /\ h.next <= h.next + 2 * Interval
    BY <2>1, IntervalAssumption
  <2> QED BY <2>1, <2>2 DEF Sounded
<1>3. Good(CheckDeadlines(h, t))
  BY <1>1, <1>2, CheckGood
<1>4. Good(OnProtocolError(h, t))
  BY <1>1, KillGood, ReasonsGood DEF OnProtocolError
<1> QED BY <1>3, <1>4 DEF Looked, Broken, Good

\* A frame the parser accepts comes after every other of its occurrence.
LEMMA AcceptedNext ==
  ASSUME ParserOK, NEW f \in Frames, f \notin parser.seen, Acceptable(parser, f),
         given' = Append(given, f), parser'.seen = parser.seen \cup {f}
  PROVE  Remembered'
<1>1. /\ given \in Seq(Frames) /\ given' \in Seq(Frames) /\ Len(given') = Len(given) + 1
      /\ \A n \in 1..Len(given) : given'[n] = given[n]
      /\ given'[Len(given) + 1] = f /\ Len(given) \in Nat
  BY DEF ParserOK
<1>2. IsFiniteSet(parser'.seen) /\ Cardinality(parser'.seen) = Len(given')
  <2>1. IsFiniteSet(parser.seen) /\ Cardinality(parser.seen) = Len(given)
    BY DEF ParserOK, Remembered
  <2>2. IsFiniteSet(parser.seen \cup {f})
        /\ Cardinality(parser.seen \cup {f}) = Cardinality(parser.seen) + 1
    BY <2>1, FS_AddElement
  <2> QED BY <1>1, <2>1, <2>2
<1>3. \A n \in 1..Len(given') : given'[n] \in parser'.seen
  BY <1>1 DEF ParserOK, Remembered
<1>4. Len(given') <= IdentityLimit
  <2>1. Cardinality(parser.seen) < IdentityLimit /\ Cardinality(parser.seen) = Len(given)
    BY DEF Acceptable, ParserOK, Remembered
  <2> QED BY <1>1, <2>1, LimitAssumption
<1>5. ASSUME NEW m \in 1..Len(given'), NEW n \in 1..Len(given'), m < n,
             given'[m].identity = given'[n].identity
      PROVE  given'[m].stamp < given'[n].stamp
  <2>1. CASE n \in 1..Len(given)
    <3>1. m \in 1..Len(given)
      BY <1>1, <1>5, <2>1
    <3>2. given'[m] = given[m] /\ given'[n] = given[n]
      BY <1>1, <2>1, <3>1
    <3> QED BY <1>5, <2>1, <3>1, <3>2 DEF ParserOK, Remembered, EventsOnceInOrder
  <2>2. CASE n = Len(given) + 1
    <3>1. m \in 1..Len(given) /\ given'[n] = f
      BY <1>1, <1>5, <2>2
    <3>2. given'[m] = given[m] /\ given[m] \in parser.seen /\ given[m] \in Frames
      BY <1>1, <3>1 DEF ParserOK, Remembered
    <3> DEFINE g == given[m]
    <3>3. g \in Kin(parser, f) /\ g.identity = f.identity
      BY <1>5, <3>1, <3>2 DEF Kin
    <3>4. g.stamp <= f.stamp /\ g.stamp # f.stamp
      BY <3>3 DEF Acceptable, Same
    <3>5. g.stamp \in Nat /\ f.stamp \in Nat
      BY <3>2, StampAssumption DEF Frames
    <3> QED BY <3>1, <3>2, <3>4, <3>5
  <2> QED BY <1>1, <2>1, <2>2
<1> QED BY <1>2, <1>3, <1>4, <1>5 DEF Remembered, EventsOnceInOrder

LEMMA ParseFrameInv ==
  ASSUME ParserOK, now \in 0..MaxTime, ParseFrame
  PROVE  ParserOK'
<1>1. PICK f \in Frames, t \in Times :
        /\ parser' = Parse(parser, f, t)[1]
        /\ given' = IF Parse(parser, f, t)[2] THEN Append(given, f) ELSE given
  BY DEF ParseFrame
<1> DEFINE looked == Looked(parser, t)
<1>2. t \in Nat
  BY TimesAreNat
<1>3. /\ looked \in [health : Healths, seen : SUBSET Frames]
      /\ Valid(looked.health) /\ looked.seen = parser.seen
      /\ Broken(looked, t) \in [health : Healths, seen : SUBSET Frames]
      /\ Valid(Broken(looked, t).health) /\ Broken(looked, t).seen = parser.seen
  <2>1. /\ looked \in [health : Healths, seen : SUBSET Frames]
        /\ Valid(looked.health) /\ looked.seen = parser.seen
    BY <1>2, ParserHealthGood DEF ParserOK
  <2> HIDE DEF looked
  <2> QED BY <1>2, <2>1, ParserHealthGood
<1> DEFINE live == IsConnected(looked.health)
           more == [looked EXCEPT !.seen = @ \cup {f}]
<1>4. \/ parser' = looked /\ given' = given
      \/ parser' = Broken(looked, t) /\ given' = given
      \/ /\ parser' = more /\ given' = Append(given, f)
         /\ f \notin parser.seen /\ Acceptable(parser, f)
  <2> HIDE DEF looked
  <2>0. Parse(parser, f, t) =
          CASE ~live -> <<looked, FALSE>>
            [] live /\ f \in parser.seen -> <<looked, FALSE>>
            [] live /\ f \notin parser.seen /\ Acceptable(parser, f) -> <<more, TRUE>>
            [] OTHER -> <<Broken(looked, t), FALSE>>
    BY DEF Parse, looked
  <2>1. CASE ~live \/ f \in parser.seen
    <3>1. Parse(parser, f, t) = <<looked, FALSE>>
      BY <2>0, <2>1
    <3> QED BY <1>1, <3>1
  <2>2. CASE live /\ f \notin parser.seen /\ Acceptable(parser, f)
    <3>1. Parse(parser, f, t) = <<more, TRUE>>
      BY <2>0, <2>2
    <3> QED BY <1>1, <2>2, <3>1
  <2>3. CASE live /\ f \notin parser.seen /\ ~Acceptable(parser, f)
    <3>1. Parse(parser, f, t) = <<Broken(looked, t), FALSE>>
      BY <2>0, <2>3
    <3> QED BY <1>1, <3>1
  <2> QED BY <2>1, <2>2, <2>3
<1>5. /\ more \in [health : Healths, seen : SUBSET Frames]
      /\ more.health = looked.health /\ more.seen = parser.seen \cup {f}
  <2> HIDE DEF looked
  <2> QED BY <1>3
<1> HIDE DEF looked, more
<1>6. CASE given' = given /\ parser'.seen = parser.seen
           /\ parser' \in [health : Healths, seen : SUBSET Frames] /\ Valid(parser'.health)
  BY <1>6 DEF ParserOK, Remembered, EventsOnceInOrder
<1>7. CASE parser' = more /\ given' = Append(given, f)
           /\ f \notin parser.seen /\ Acceptable(parser, f)
  <2>1. Remembered'
    BY <1>5, <1>7, AcceptedNext
  <2>2. given' \in Seq(Frames)
    BY <1>7 DEF ParserOK
  <2> QED BY <1>3, <1>5, <1>7, <2>1, <2>2 DEF ParserOK
<1> QED BY <1>3, <1>4, <1>6, <1>7

----------------------------------------------------------------------------
(* Every step *)

\* The parts of the invariant, by what a step leaves alone.
SocketOK ==
  /\ now \in 0..MaxTime /\ link \in {"unopened", "open", "down", "closed"}
  /\ pinged \in BOOLEAN

SessionOK ==
  /\ session \in [state : {"READY", "OPENING", "SUCCEEDED", "FAILED"}, opens : 0..2]
  /\ subscribed \in Nat /\ Opening

PulseOK ==
  /\ heartbeat \in {"INITIAL", "CONFIRMED", "UNCERTAIN", "RECOVERED"}
  /\ doubt \in BOOLEAN /\ DoubtNeedsReads

FeedOK == HealthOK(health, heard, settled) /\ ParserOK

LEMMA InvParts == Inv <=> SocketOK /\ SessionOK /\ PulseOK /\ FeedOK
BY DEF Inv, TypeOK, Trust, HealthOK, ParserOK, Good, SocketOK, SessionOK, PulseOK, FeedOK

LEMMA InvPartsNext == Inv' <=> SocketOK' /\ SessionOK' /\ PulseOK' /\ FeedOK'
BY InvParts, PTL

LEMMA UnchangedParts ==
  /\ SocketOK /\ UNCHANGED <<now, socket>> => SocketOK'
  /\ SessionOK /\ UNCHANGED opening => SessionOK'
  /\ PulseOK /\ UNCHANGED pulse => PulseOK'
  /\ FeedOK /\ UNCHANGED feed => FeedOK'
  /\ HealthOK(health, heard, settled) /\ UNCHANGED <<health, heard, settled>>
       => HealthOK(health', heard', settled')
  /\ ParserOK /\ UNCHANGED <<parser, given>> => ParserOK'
<1>1. SocketOK /\ UNCHANGED <<now, socket>> => SocketOK'
  BY DEF SocketOK, socket
<1>2. SessionOK /\ UNCHANGED opening => SessionOK'
  BY DEF SessionOK, opening, Opening, SubscribesOnce
<1>3. PulseOK /\ UNCHANGED pulse => PulseOK'
  BY DEF PulseOK, pulse, DoubtNeedsReads
<1>4. HealthOK(health, heard, settled) /\ UNCHANGED <<health, heard, settled>>
       => HealthOK(health', heard', settled')
  OBVIOUS
<1>5. ParserOK /\ UNCHANGED <<parser, given>> => ParserOK'
  BY DEF ParserOK, Remembered, EventsOnceInOrder
<1>6. FeedOK /\ UNCHANGED feed => FeedOK'
  BY <1>4, <1>5 DEF FeedOK, feed
<1> QED BY <1>1, <1>2, <1>3, <1>4, <1>5, <1>6

LEMMA NextInv == Inv /\ [Next]_vars => Inv'
<1> SUFFICES ASSUME Inv, [Next]_vars PROVE Inv'
  OBVIOUS
<1>0. /\ SocketOK /\ SessionOK /\ PulseOK /\ FeedOK
      /\ HealthOK(health, heard, settled) /\ ParserOK /\ now \in 0..MaxTime
  BY InvParts DEF FeedOK, SocketOK
<1> USE <1>0
<1>1. CASE Open
  <2>1. SessionOK'
    BY <1>1 DEF Open, MayOpen, SessionOK, Opening, SubscribesOnce
  <2> QED BY <1>1, <2>1, UnchangedParts, InvPartsNext DEF Open
<1>2. CASE Opened
  <2>1. SessionOK'
    BY <1>2 DEF Opened, SessionOK, Opening, SubscribesOnce
  <2>2. SocketOK'
    BY <1>2 DEF Opened, SocketOK
  <2> QED BY <1>2, <2>1, <2>2, UnchangedParts, InvPartsNext DEF Opened
<1>3. CASE Tick
  <2>1. SocketOK'
    BY <1>3, IntervalAssumption DEF Tick, SocketOK, socket
  <2> QED BY <1>3, <2>1, UnchangedParts, InvPartsNext DEF Tick
<1>4. CASE Drop
  <2>1. SocketOK'
    BY <1>4 DEF Drop, SocketOK
  <2> QED BY <1>4, <2>1, UnchangedParts, InvPartsNext DEF Drop
<1>5. CASE NoticeDrop
  <2>1. SocketOK'
    BY <1>5 DEF NoticeDrop, SocketOK
  <2>2. FeedOK'
    BY <1>5, TimesAreNat, HardCalls, UnchangedParts DEF NoticeDrop, FeedOK
  <2> QED BY <1>5, <2>1, <2>2, UnchangedParts, InvPartsNext DEF NoticeDrop
<1>6. CASE Reopen
  <2>1. SocketOK'
    BY <1>6 DEF Reopen, SocketOK
  <2>2. HealthOK(health', heard', settled')
    BY <1>6, TimesAreNat, RecoveryCalls DEF Reopen
  <2>3. ParserOK'
    <3>1. now \in Nat
      BY IntervalAssumption
    <3>2. parser' = [health |-> Connected(now), seen |-> {}] /\ given' = <<>>
      BY <1>6 DEF Reopen, NewParser
    <3>3. Good(Connected(now))
      BY <3>1, ConnectedGood
    <3>4. Remembered'
      BY <3>2, FS_EmptySet, LimitAssumption DEF Remembered, EventsOnceInOrder
    <3>5. /\ parser' \in [health : Healths, seen : SUBSET Frames]
          /\ Valid(parser'.health) /\ given' \in Seq(Frames)
      BY <3>2, <3>3 DEF Good
    <3> QED BY <3>4, <3>5 DEF ParserOK
  <2> QED BY <1>6, <2>1, <2>2, <2>3, UnchangedParts, InvPartsNext DEF Reopen, FeedOK
<1>7. CASE SendPing
  <2>1. SocketOK'
    BY <1>7 DEF SendPing, SocketOK
  <2>2. FeedOK'
    BY <1>7, TimesAreNat, HardCalls, UnchangedParts DEF SendPing, FeedOK
  <2> QED BY <1>7, <2>1, <2>2, UnchangedParts, InvPartsNext DEF SendPing
<1>8. CASE TakePong
  <2>1. SocketOK'
    BY <1>8 DEF TakePong, SocketOK
  <2>2. FeedOK'
    BY <1>8, TimesAreNat, HardCalls, UnchangedParts DEF TakePong, FeedOK
  <2> QED BY <1>8, <2>1, <2>2, UnchangedParts, InvPartsNext DEF TakePong
<1>9. CASE Check
  <2>1. FeedOK'
    BY <1>9, TimesAreNat, HardCalls, UnchangedParts DEF Check, FeedOK
  <2> QED BY <1>9, <2>1, UnchangedParts, InvPartsNext DEF Check
<1>10. CASE ProtocolError
  <2>1. FeedOK'
    BY <1>10, TimesAreNat, HardCalls, UnchangedParts DEF ProtocolError, FeedOK
  <2> QED BY <1>10, <2>1, UnchangedParts, InvPartsNext DEF ProtocolError
<1>11. CASE CompleteReads
  <2>1. SocketOK'
    BY <1>11 DEF CompleteReads, SocketOK
  <2>2. PICK whom \in SUBSET {"stream", "heartbeat"} :
          /\ IF "stream" \in whom
             THEN \E t \in Times : Becomes(OnReadsCompleted(health, t), None, {"reads"})
             ELSE UNCHANGED <<health, heard, settled>>
          /\ IF "heartbeat" \in whom
             THEN heartbeat' = HeartbeatReadsCompleted(heartbeat) /\ doubt' = FALSE
             ELSE UNCHANGED <<heartbeat, doubt>>
    BY <1>11 DEF CompleteReads
  <2>3. HealthOK(health', heard', settled')
    BY <2>2, TimesAreNat, RecoveryCalls
  <2>4. PulseOK'
    BY <2>2 DEF PulseOK, DoubtNeedsReads, HeartbeatReadsCompleted
  <2> QED BY <1>11, <2>1, <2>3, <2>4, UnchangedParts, InvPartsNext DEF CompleteReads, FeedOK
<1>12. CASE ParseFrame
  <2>1. ParserOK'
    BY <1>12, ParseFrameInv
  <2> QED BY <1>12, <2>1, UnchangedParts, InvPartsNext DEF ParseFrame, FeedOK
<1>13. CASE BreakParser
  <2>1. ParserOK'
    <3>1. now \in Nat
      BY IntervalAssumption
    <3>2. parser' = Broken(parser, now) /\ given' = given
      BY <1>13 DEF BreakParser
    <3>3. /\ parser' \in [health : Healths, seen : SUBSET Frames]
          /\ Valid(parser'.health) /\ parser'.seen = parser.seen
      BY <3>1, <3>2, ParserHealthGood DEF ParserOK
    <3> QED BY <3>2, <3>3 DEF ParserOK, Remembered, EventsOnceInOrder
  <2> QED BY <1>13, <2>1, UnchangedParts, InvPartsNext DEF BreakParser, FeedOK
<1>14. CASE HeartbeatAnswered
  <2>1. PulseOK'
    BY <1>14 DEF HeartbeatAnswered, PulseOK, DoubtNeedsReads, Classify
  <2> QED BY <1>14, <2>1, UnchangedParts, InvPartsNext DEF HeartbeatAnswered
<1>15. CASE UNCHANGED vars
  BY <1>15, UnchangedParts, InvPartsNext DEF vars
<1> QED BY <1>1, <1>2, <1>3, <1>4, <1>5, <1>6, <1>7, <1>8, <1>9, <1>10, <1>11, <1>12,
           <1>13, <1>14, <1>15 DEF Next

LEMMA SpecInv == Spec => []Inv
BY InitInv, NextInv, PTL DEF Spec

----------------------------------------------------------------------------
(* The theorems *)

\* Every value has its type, and every health passes the tests of its own
\* constructor: no legal call raises USER_STREAM_HEALTH_INVALID.
THEOREM TypesHold == Spec => []TypeOK
<1>1. Inv => TypeOK
  BY DEF Inv
<1> QED BY <1>1, SpecInv, PTL

\* One subscription frame, whatever the guard and the transport call back.
THEOREM OneSubscription == Spec => []SubscribesOnce
<1>1. Inv => SubscribesOnce
  BY DEF Inv, Opening
<1> QED BY <1>1, SpecInv, PTL

\* A trusted stream was never silent for two intervals at its last check.
THEOREM SilenceEnds == Spec => []SilenceNoticed
<1>1. Inv => SilenceNoticed
  <2> SUFFICES ASSUME Inv, IsConnected(health)
      PROVE  health.at - heard < 2 * Interval
    BY DEF SilenceNoticed
  <2>1. /\ health.at \in Nat /\ health.next \in Nat /\ health.at <= health.next
        /\ health.pong \in Nat \cup {None} /\ heard \in Nat
        /\ health.pong # None => health.pong > health.at
        /\ Sounded(health, heard)
    BY DEF Inv, TypeOK, Trust, Healths, Valid
  <2>2. CASE health.pong = None
    BY <2>1, <2>2, IntervalAssumption DEF Sounded
  <2>3. CASE health.pong # None
    <3>1. health.pong \in Nat /\ health.pong > health.at
          /\ health.pong <= heard + 2 * Interval
      BY <2>1, <2>3 DEF Sounded
    <3> QED BY <2>1, <3>1, IntervalAssumption
  <2> QED BY <2>2, <2>3
<1> QED BY <1>1, SpecInv, PTL

\* The parser's events: once each, in order, within the limit.
THEOREM EventsInOrder == Spec => []EventsOnceInOrder
<1>1. Inv => EventsOnceInOrder
  BY DEF Inv, Remembered
<1> QED BY <1>1, SpecInv, PTL

\* A failed heartbeat is not forgotten by a late acceptance.
THEOREM DoubtsLast == Spec => []DoubtNeedsReads
<1>1. Inv => DoubtNeedsReads
  BY DEF Inv
<1> QED BY <1>1, SpecInv, PTL

\* No stream is trusted again without the reads, nor after a gap without the
\* reconnect.
THEOREM ResumesRead == Spec => ResumeNeedsReads
<1>1. Inv /\ [Next]_vars =>
        [ (~IsConnected(health) /\ IsConnected(health')) =>
            /\ "reads" \in settled'
            /\ health.reason = "DISCONNECTED" => "reconnect" \in settled' ]_vars
  <2> SUFFICES ASSUME Inv, Next, ~IsConnected(health), IsConnected(health')
      PROVE  /\ "reads" \in settled'
             /\ health.reason = "DISCONNECTED" => "reconnect" \in settled'
    OBVIOUS
  <2>1. HealthOK(health, heard, settled) /\ now \in 0..MaxTime
    BY InvParts DEF FeedOK, SocketOK
  <2>2. health' # health
    OBVIOUS
  <2>3. ~NoticeDrop /\ ~SendPing /\ ~TakePong /\ ~Check /\ ~ProtocolError
    BY <2>1, <2>2, TimesAreNat, HardCalls
    DEF NoticeDrop, SendPing, TakePong, Check, ProtocolError
  <2>4. ~Open /\ ~Opened /\ ~Tick /\ ~Drop /\ ~ParseFrame /\ ~BreakParser
        /\ ~HeartbeatAnswered
    BY <2>2 DEF Open, Opened, Tick, Drop, ParseFrame, BreakParser,
                HeartbeatAnswered, feed
  <2>5. CASE Reopen
    BY <2>1, <2>5, TimesAreNat, RecoveryCalls DEF Reopen
  <2>6. CASE CompleteReads
    <3>1. PICK whom \in SUBSET {"stream", "heartbeat"} :
            IF "stream" \in whom
            THEN \E t \in Times : Becomes(OnReadsCompleted(health, t), None, {"reads"})
            ELSE UNCHANGED <<health, heard, settled>>
      BY <2>6 DEF CompleteReads
    <3>2. \E t \in Times : Becomes(OnReadsCompleted(health, t), None, {"reads"})
      BY <2>2, <3>1
    <3> QED BY <2>1, <3>2, TimesAreNat, RecoveryCalls
  <2> QED BY <2>3, <2>4, <2>5, <2>6 DEF Next
<1> QED BY <1>1, SpecInv, PTL DEF Spec, ResumeNeedsReads
=============================================================================
