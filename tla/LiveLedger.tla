------------------------------ MODULE LiveLedger ------------------------------
(***************************************************************************)
(* The live ledger: stored trade events, authoritative economics, postings *)
(* and reconciliation reports, the functions that derive one from another  *)
(* (predictions/execution/ledger.py and reconciliation.py), and the two    *)
(* places that judge a stored report again (predictions/storage/store.py   *)
(* and the recovery scan of execution/coordinator.py).                     *)
(*                                                                         *)
(* The account at the venue moves on its own.  A bookkeeper, whom the      *)
(* repository leaves to an operator, reads the account family by family,   *)
(* reconciles, and appends postings and report one at a time; he may stop  *)
(* anywhere and begin again.  One cash asset, one outcome token, no        *)
(* allowance changes and no realized P&L.                                  *)
(***************************************************************************)
EXTENDS Integers, FiniteSets, FiniteSetsExt

CONSTANTS
  Intents,
  Trades,      \* venue trade ids
  Side,        \* of an intent: "buy" or "sell"
  BaseSize,    \* of an intent: the most it may trade
  Size,        \* of a trade, in position quanta
  Notional,    \* price times size of a trade, in cash quanta
  Fee,         \* of a trade, in cash quanta
  Rank,        \* the order in which the pairs of a report are appended
  Cutoffs,     \* instants at which an opening cut of the account exists
  Delays,      \* how long after its stamp each family of a snapshot is read
  MaxTime,     \* bound on the clock: nothing is matched in its last instant
  MaxReports,  \* bound on the stored reports
  MaxEvents,   \* bound on the stored trade events
  None

Terminal == {"CONFIRMED", "FAILED"}

\* MATCHED stands for every state that is not terminal.
Seen == {"MATCHED"} \cup Terminal
Accounts == {"venue_cash", "venue_position", "fees_paid"}
Families == {"TRADES", "SETTLEMENTS"} \cup Accounts

Legs == {"CASH", "POSITION", "FEE"}

ASSUME LedgerAssumption ==
  /\ Side \in [ Intents -> {"buy", "sell"} ]
  /\ BaseSize \in [ Intents -> Nat ]
  /\ Size \in [ Trades -> Nat \ {0} ]
  /\ Notional \in [ Trades -> Nat \ {0} ]
  /\ Fee \in [ Trades -> Nat ]
  /\ MaxTime \in Nat /\ MaxReports \in Nat /\ MaxEvents \in Nat
  /\ Rank \in [ Legs -> Nat ]
  /\ Cutoffs \subseteq Nat
  /\ Delays \subseteq [ Families -> Nat ]
  /\ None \notin Nat /\ None \notin Seen

VARIABLES
  now,
  open,      \* intents whose order can still trade at the venue
  intent,    \* whose order each trade filled
  state,     \* what the venue has made of it
  matchedAt, \* when it was matched: the economics' occurred_at
  settledAt, \* when it was settled or failed
  events,    \* stored trade events
  econ,      \* information cutoff of each stored economics record
  rows,      \* stored posting pairs
  reports,   \* stored reconciliations
  sess,      \* the cuts of the snapshot the bookkeeper is reading
  report     \* the reconciliation he has not stored yet

venue == << open, intent, state, matchedAt, settledAt >>
store == << events, econ, rows, reports >>
work  == << sess, report >>
vars  == << now, venue, store, work >>

------------------------------------------------------------------------------
(* Trade histories.  No writer gives a trade event a sequence number, so    *)
(* receipt times alone order a history.                                     *)

\* Nothing may be received with or after a terminal event of the same trade.
Contradicted(E) ==
  \E e, f \in E : /\ e # f /\ e.trade = f.trade
                  /\ e.state \in Terminal /\ f.received >= e.received

WithState(E, s) == { e.trade : e \in { f \in E : f.state = s } }
Confirmed(E) == WithState(E, "CONFIRMED")
Failed(E) == WithState(E, "FAILED")
Unresolved(E) == { e.trade : e \in E } \ (Confirmed(E) \cup Failed(E))

EventsBy(o) == { e \in events : e.received <= o }
EconBy(o) ==
  { t \in Trades : econ[t] # None /\ matchedAt[t] <= o /\ econ[t] <= o }

------------------------------------------------------------------------------
(* Postings.  A pair is one debit and one credit row of the same amount.    *)

PairsOf(t) ==
  { [ trade |-> t, leg |-> l ] :
      l \in {"CASH", "POSITION"} \cup (IF Fee[t] > 0 THEN {"FEE"} ELSE {}) }

Postings(T) == UNION { PairsOf(t) : t \in T }

\* Mutant: an old report is judged with the postings of today.
PairsOfToday(o) == rows

PairsBy(o) == { r \in rows : matchedAt[r.trade] <= o }

Buys(t) == Side[intent[t]] = "buy"

\* What a pair adds to the debit of an account, less its credit.
Moves(r, account) ==
  CASE account = "venue_cash" /\ r.leg = "CASH" ->
         IF Buys(r.trade) THEN -Notional[r.trade] ELSE Notional[r.trade]
    [] account = "venue_cash" /\ r.leg = "FEE" -> -Fee[r.trade]
    [] account = "venue_position" /\ r.leg = "POSITION" ->
         IF Buys(r.trade) THEN Size[r.trade] ELSE -Size[r.trade]
    [] account = "fees_paid" /\ r.leg = "FEE" -> Fee[r.trade]
    [] OTHER -> 0

Net(R, account) == MapThenSumSet(LAMBDA r : Moves(r, account), R)

TotalSize(T) == MapThenSumSet(LAMBDA t : Size[t], T)

\* The economics are those of the confirmed trades, each is bound to its
\* event, and no intent trades more than it may.
Postable(E, X) ==
  /\ ~Contradicted(E)
  /\ X = Confirmed(E)
  /\ \A e \in E : e.state = "CONFIRMED" =>
       /\ Size[e.trade] <= BaseSize[intent[e.trade]]
       /\ matchedAt[e.trade] <= e.received /\ e.received <= econ[e.trade]
  /\ \A i \in Intents :
       TotalSize({ t \in X : intent[t] = i }) <= BaseSize[i]

------------------------------------------------------------------------------
(* Reconciliation *)

\* Each posted trade lies in the window, and so does its evidence.
Inside(s, T) ==
  \A t \in T : /\ s.cutoff < matchedAt[t] /\ matchedAt[t] <= econ[t]
               /\ econ[t] <= s.observed

BalancesClose(s, R) == \A a \in Accounts : s.gained[a] = Net(R, a)

\* Mutant: what the venue lists beyond the postings is not looked at.
FamiliesConfirm(s, T) ==
  \A t \in T : /\ s.trades[t] = "CONFIRMED" /\ s.settlements[t] = "CONFIRMED"
              /\ Net(PairsOf(t), "venue_cash") # 0

\* Trades and settlements, read separately, are exactly the posted ones.
FamiliesAgree(s, T) ==
  /\ \A t \in T : /\ s.trades[t] = "CONFIRMED" /\ s.settlements[t] = "CONFIRMED"
                  /\ Net(PairsOf(t), "venue_cash") # 0
  /\ { t \in Trades : s.trades[t] # None \/ s.settlements[t] # None } \subseteq T

Explained(s, E, X) ==
  /\ s.orders = {}
  /\ Postable(E, X)
  /\ Failed(E) = {} /\ Unresolved(E) = {}
  /\ Inside(s, X)
  /\ FamiliesAgree(s, X)
  /\ BalancesClose(s, Postings(X))

\* An incomplete report names the postings too when they could be derived.
Report(s) ==
  LET E == EventsBy(s.observed)
      X == EconBy(s.observed)
  IN  [ cutoff |-> s.cutoff, observed |-> s.observed,
        complete |-> Explained(s, E, X),
        expected |-> IF Postable(E, X) THEN Postings(X) ELSE {},
        events |-> E ]

------------------------------------------------------------------------------
(* Judging stored reports *)

\* Rebuilt from the evidence at its own instant, a report still says the same.
Closes(r) ==
  LET E == EventsBy(r.observed)
      X == EconBy(r.observed)
  IN  /\ Postable(E, X)
      /\ PairsBy(r.observed) = Postings(X)
      /\ r.expected = Postings(X)
      /\ Failed(E) = {} /\ Unresolved(E) = {}
      /\ r.events = E

Latest(r) == r \in reports /\ \A q \in reports : q.observed <= r.observed

\* The last report covers all that is stored.
Covers(r) ==
  /\ r.events = events
  /\ \A t \in Trades : econ[t] # None =>
       matchedAt[t] <= r.observed /\ econ[t] <= r.observed
  /\ \A p \in rows : matchedAt[p.trade] <= r.observed
  /\ r.expected = rows

\* Mutant: a report that differs counts like one that does not.
ScanClosesAnyReport ==
  /\ ~Contradicted(events)
  /\ Failed(events) = {} /\ Unresolved(events) = {}
  /\ \A r \in reports : Closes(r)
  /\ \/ events = {} /\ rows = {} /\ \A t \in Trades : econ[t] = None
     \/ \E r \in reports : Latest(r) /\ Covers(r)

\* The recovery scan finds the account's ledger in order.
ScanCloses ==
  /\ ~Contradicted(events)
  /\ Failed(events) = {} /\ Unresolved(events) = {}
  /\ \A r \in reports : r.complete /\ Closes(r)
  /\ \/ events = {} /\ rows = {} /\ \A t \in Trades : econ[t] = None
     \/ \E r \in reports : Latest(r) /\ Covers(r)

------------------------------------------------------------------------------
(* The account at the venue *)

Init ==
  /\ now = 1
  /\ open = Intents
  /\ intent = [ t \in Trades |-> None ]
  /\ state = [ t \in Trades |-> None ]
  /\ matchedAt = [ t \in Trades |-> 0 ]
  /\ settledAt = [ t \in Trades |-> 0 ]
  /\ events = {} /\ rows = {} /\ reports = {}
  /\ econ = [ t \in Trades |-> None ]
  /\ sess = None /\ report = None

Tick ==
  /\ now < MaxTime
  /\ now' = now + 1
  /\ UNCHANGED << venue, store, work >>

Match(t, i) ==
  /\ state[t] = None /\ i \in open /\ now < MaxTime
  /\ intent' = [ intent EXCEPT ![t] = i ]
  /\ state' = [ state EXCEPT ![t] = "MATCHED" ]
  /\ matchedAt' = [ matchedAt EXCEPT ![t] = now ]
  /\ UNCHANGED << now, open, settledAt, store, work >>

Settle(t) ==
  /\ state[t] = "MATCHED"
  /\ \E s \in Terminal : state' = [ state EXCEPT ![t] = s ]
  /\ settledAt' = [ settledAt EXCEPT ![t] = now ]
  /\ UNCHANGED << now, open, intent, matchedAt, store, work >>

CloseOrder(i) ==
  /\ i \in open
  /\ open' = open \ {i}
  /\ UNCHANGED << now, intent, state, matchedAt, settledAt, store, work >>

------------------------------------------------------------------------------
(* Evidence reaches the store.  Its writers stamp a record when they have   *)
(* read it and append it whenever they come to it; the store takes the      *)
(* stamp as given.                                                          *)

\* A frame may be late, seen by two channels, or overtaken by another of its
\* trade.
StoreEvent(t, s, stamp) ==
  LET e == [ trade |-> t, state |-> s, received |-> stamp ]
  IN  /\ state[t] # None /\ matchedAt[t] <= stamp /\ stamp <= now
      /\ s \in Terminal => state[t] = s /\ settledAt[t] <= stamp
      /\ e \notin events
      /\ Cardinality(events) < MaxEvents
      /\ events' = events \cup {e}
      /\ UNCHANGED << now, venue, econ, rows, reports, work >>

\* Economics are read for a trade the venue confirms.
StoreEconomics(t, stamp) ==
  /\ state[t] = "CONFIRMED" /\ econ[t] = None
  /\ settledAt[t] <= stamp /\ stamp <= now
  /\ econ' = [ econ EXCEPT ![t] = stamp ]
  /\ UNCHANGED << now, venue, events, rows, reports, work >>

-------------------------------------------------------------------------------
(* The bookkeeper *)

\* The second cut is stamped before its first read, and nothing else bears its
\* stamp.
BeginRead(c) ==
  /\ sess = None /\ report = None
  /\ c < now /\ now < MaxTime
  /\ sess' = [ cutoff |-> c, observed |-> now ]
  /\ now' = now + 1
  /\ UNCHANGED << venue, store, report >>

\* What the venue showed of a trade at an instant.
StateAt(t, at) ==
  IF state[t] = None \/ matchedAt[t] > at THEN None
  ELSE IF settledAt[t] > at THEN "MATCHED" ELSE state[t]

\* What the account had gained since the opening cut.
Gained(c, at, account) ==
  Net(Postings({ t \in Trades : StateAt(t, at) = "CONFIRMED" /\ settledAt[t] > c }),
      account)

\* Each family is as old as its own read; an order that rests no more never will
\* again, so the latest read is the one that shows the least.
Snapshot(c, o, d) ==
  [ cutoff |-> c, observed |-> o,
    trades |-> [ t \in Trades |->
      IF matchedAt[t] > c THEN StateAt(t, o + d["TRADES"]) ELSE None ],
    settlements |-> [ t \in Trades |->
      LET s == StateAt(t, o + d["SETTLEMENTS"])
      IN  IF matchedAt[t] > c /\ s \in Terminal THEN s ELSE None ],
    gained |-> [ a \in Accounts |-> Gained(c, o + d[a], a) ],
    orders |-> open ]

\* A snapshot with a fact later than its own instant cannot be built.
SnapshotValid(s) ==
  \A t \in Trades :
    s.trades[t] # None \/ s.settlements[t] # None => matchedAt[t] <= s.observed

Reconcile(d) ==
  /\ sess # None
  /\ \A f \in Families : sess.observed + d[f] <= now
  /\ LET s == Snapshot(sess.cutoff, sess.observed, d)
     IN  SnapshotValid(s) /\ report' = Report(s)
  /\ sess' = None
  /\ UNCHANGED << now, venue, store >>

\* Postings are appended in the order of their ids, here a debit with its credit,
\* and the report at any moment.
StorePair(p) ==
  /\ report # None
  /\ p \in report.expected \ rows
  /\ \A q \in report.expected \ rows : Rank[p.leg] <= Rank[q.leg]
  /\ rows' = rows \cup {p}
  /\ UNCHANGED << now, venue, events, econ, reports, work >>

\* Mutant: stored again when there is none.
StoreAnyReport ==
  /\ Cardinality(reports) < MaxReports
  /\ reports' = reports \cup {report}
  /\ report' = None
  /\ UNCHANGED << now, venue, events, econ, rows, sess >>

StoreReport ==
  /\ report # None /\ Cardinality(reports) < MaxReports
  /\ reports' = reports \cup {report}
  /\ report' = None
  /\ UNCHANGED << now, venue, events, econ, rows, sess >>

\* He stops, or his process does: what he has not stored is gone.
Abandon ==
  /\ sess # None \/ report # None
  /\ sess' = None /\ report' = None
  /\ UNCHANGED << now, venue, store >>

------------------------------------------------------------------------------
VenueMoves ==
  \/ \E t \in Trades : Settle(t) \/ \E i \in Intents : Match(t, i)
  \/ \E i \in Intents : CloseOrder(i)

EvidenceArrives ==
  \E t \in Trades, stamp \in 1..now :
    StoreEconomics(t, stamp) \/ \E s \in Seen : StoreEvent(t, s, stamp)

BookkeeperWorks ==
  \/ \E c \in Cutoffs : BeginRead(c)
  \/ \E d \in Delays : Reconcile(d)
  \/ report # None /\ \E p \in report.expected : StorePair(p)
  \/ StoreReport
  \/ Abandon

Next == Tick \/ VenueMoves \/ EvidenceArrives \/ BookkeeperWorks

Spec == Init /\ [][Next]_vars
==============================================================================
