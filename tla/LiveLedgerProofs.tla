---------------------------- MODULE LiveLedgerProofs ----------------------------
(***************************************************************************)
(* Proofs about the live ledger, for any account, intents and read delays. *)
(* What a report says of its window is settled when it is made, because    *)
(* whatever the venue does later is later (Past); and all that is stored,  *)
(* however late, is about trades the venue had made when it was stamped    *)
(* (Grounded).                                                             *)
(***************************************************************************)
EXTENDS LiveLedgerProperties, TLAPS

\* Every report was stamped before now.
Past ==
  /\ now >= 1
  /\ sess # None => sess.observed < now
  /\ report # None => report.observed < now
  /\ \A r \in reports : r.observed < now

Pending == IF report # None THEN report.expected ELSE {}

\* Evidence and postings are of trades the venue made, and of what it confirmed.
Grounded ==
  /\ \A t \in Trades : state[t] # None => matchedAt[t] >= 1
  /\ \A e \in events : state[e.trade] # None /\ matchedAt[e.trade] <= e.received
  /\ \A t \in Trades : econ[t] # None => state[t] = "CONFIRMED"
  /\ \A p \in rows \cup Pending :
       state[p.trade] = "CONFIRMED" /\ p \in PairsOf(p.trade)

Inv == TypeOK /\ Past /\ Grounded /\ CompleteIsTrue

------------------------------------------------------------------------------
(* Facts about the operators *)

\* A posting pair belongs to its trade.
LEMMA PairTypes ==
  ASSUME NEW T \in SUBSET Trades, NEW p \in Postings(T)
  PROVE  p.trade \in T /\ p \in PairsOf(p.trade) /\ p \in Pairs
<1>1. PICK t \in T : p \in PairsOf(t)
  BY DEF Postings
<1>2. p.trade = t /\ p.leg \in Legs /\ p = [ trade |-> t, leg |-> p.leg ]
  BY <1>1 DEF PairsOf, Legs
<1> QED BY <1>1, <1>2 DEF Pairs

\* The venue does not unmake what it showed.
LEMMA ShownStays ==
  ASSUME TypeOK, NEW t \in Trades, NEW at \in Nat
  PROVE  /\ StateAt(t, at) = "CONFIRMED" => state[t] = "CONFIRMED"
         /\ state[t] # None /\ matchedAt[t] <= at => StateAt(t, at) # None
  BY LedgerAssumption DEF StateAt, TypeOK, Seen, Terminal, States

\* A complete report names the trades of its window.
LEMMA CompleteReport ==
  ASSUME TypeOK, NEW c \in Nat, NEW o \in Nat, NEW d \in [ Families -> Nat ],
         Report(Snapshot(c, o, d)).complete
  PROVE  TellsTruth(Report(Snapshot(c, o, d)))
<1> DEFINE s == Snapshot(c, o, d)
           E == EventsBy(o)
           X == EconBy(o)
           M == MatchedWithin(c, o)
           r == Report(s)
<1>1. s.cutoff = c /\ s.observed = o
  BY DEF Snapshot
<1>2. /\ r.complete = Explained(s, E, X)
      /\ r.expected = IF Postable(E, X) THEN Postings(X) ELSE {}
      /\ r.cutoff = c /\ r.observed = o
  BY <1>1 DEF Report
<1>3. Postable(E, X) /\ Inside(s, X) /\ FamiliesAgree(s, X)
  BY <1>2 DEF Explained
<1>4. "TRADES" \in Families /\ o + d["TRADES"] \in Nat /\ o <= o + d["TRADES"]
  BY DEF Families
<1>5. ASSUME NEW t \in Trades
      PROVE  s.trades[t] =
               IF matchedAt[t] > c THEN StateAt(t, o + d["TRADES"]) ELSE None
  BY <1>5 DEF Snapshot
<1>6. ASSUME NEW t \in X
      PROVE  t \in M /\ state[t] = "CONFIRMED"
  <2>1. t \in Trades /\ matchedAt[t] <= o
    BY <1>6 DEF EconBy
  <2>2. c < matchedAt[t]
    BY <1>6, <1>3, <1>1 DEF Inside
  <2>3. s.trades[t] = "CONFIRMED"
    BY <1>6, <1>3 DEF FamiliesAgree
  <2>4. StateAt(t, o + d["TRADES"]) = "CONFIRMED"
    BY <2>1, <2>2, <2>3, <1>5 DEF TypeOK
  <2>5. state[t] = "CONFIRMED"
    BY <2>1, <2>4, <1>4, ShownStays
  <2> QED BY <2>1, <2>2, <2>5, LedgerAssumption DEF MatchedWithin, Seen, Terminal
<1>7. ASSUME NEW t \in M
      PROVE  t \in X
  <2>1. t \in Trades /\ state[t] # None /\ c < matchedAt[t] /\ matchedAt[t] <= o
    BY <1>7 DEF MatchedWithin
  <2>2. matchedAt[t] <= o + d["TRADES"]
    BY <2>1, <1>4 DEF TypeOK
  <2>3. s.trades[t] # None
    BY <2>1, <2>2, <1>4, <1>5, ShownStays DEF TypeOK
  <2> QED BY <2>1, <2>3, <1>3 DEF FamiliesAgree
<1>8. X = M
  BY <1>6, <1>7
<1>9. /\ r.expected = Postings(M)
      /\ \A t \in M : state[t] = "CONFIRMED"
      /\ \A i \in Intents : TotalSize({ t \in M : intent[t] = i }) <= BaseSize[i]
  BY <1>2, <1>3, <1>6, <1>8 DEF Postable
<1> QED BY <1>2, <1>9 DEF TellsTruth

------------------------------------------------------------------------------
(* Types *)

\* A report has its type, and its postings are of confirmed trades.
LEMMA ReportTypes ==
  ASSUME TypeOK, Grounded, NEW s, s.cutoff \in Nat, s.observed \in Nat
  PROVE  /\ Report(s) \in Reports
         /\ Report(s).observed = s.observed
         /\ \A p \in Report(s).expected :
              state[p.trade] = "CONFIRMED" /\ p \in PairsOf(p.trade)
<1> DEFINE E == EventsBy(s.observed)
           X == EconBy(s.observed)
<1>1. E \subseteq Events
  BY DEF EventsBy, TypeOK
<1>2. X \subseteq Trades /\ \A t \in X : state[t] = "CONFIRMED"
  BY DEF EconBy, Grounded
<1>3. \A p \in Postings(X) :
        p \in Pairs /\ state[p.trade] = "CONFIRMED" /\ p \in PairsOf(p.trade)
  BY <1>2, PairTypes
<1>4. Report(s).expected = {} \/ Report(s).expected = Postings(X)
  BY DEF Report
<1>5. Report(s).expected \subseteq Pairs
  BY <1>3, <1>4
<1>6. Explained(s, E, X) \in BOOLEAN
  BY DEF Explained
<1>7. Report(s) = [ cutoff |-> s.cutoff, observed |-> s.observed,
                    complete |-> Explained(s, E, X),
                    expected |-> Report(s).expected, events |-> E ]
  BY DEF Report
<1> QED BY <1>1, <1>3, <1>4, <1>5, <1>6, <1>7 DEF Reports

\* The account starts empty.
LEMMA InitInv == Init => Inv
  BY LedgerAssumption
  DEF Init, Inv, TypeOK, Past, Grounded, CompleteIsTrue, Pending, States

\* Every action keeps the types, the stamps and the grounds.
LEMMA StepInv ==
  ASSUME TypeOK, Past, Grounded, [Next]_vars
  PROVE  TypeOK' /\ Past' /\ Grounded'
<1> USE LedgerAssumption
<1>0. /\ now \in Nat
      /\ sess # None => sess.observed \in Nat
      /\ report # None => report.observed \in Nat
      /\ \A r \in reports : r.observed \in Nat
  BY DEF TypeOK, Sessions, Reports
<1>1. CASE Tick
  <2>1. TypeOK' /\ Grounded'
    BY <1>1 DEF Tick, TypeOK, Grounded, Pending, PairsOf, venue, store, work
  <2>2. Past'
    BY <1>0, <1>1 DEF Tick, Past, store, work
  <2> QED BY <2>1, <2>2
<1>2. ASSUME NEW t \in Trades, NEW i \in Intents, Match(t, i)
      PROVE  TypeOK' /\ Past' /\ Grounded'
  <2>1. TypeOK'
    BY <1>2 DEF Match, TypeOK, States, Seen, store, work
  <2>2. Past'
    BY <1>2 DEF Match, Past, store, work
  <2>3. /\ \A u \in Trades : u # t => state'[u] = state[u] /\ matchedAt'[u] = matchedAt[u]
        /\ state[t] = None /\ state'[t] = "MATCHED" /\ matchedAt'[t] = now
        /\ events' = events /\ econ' = econ /\ rows' = rows /\ report' = report
    BY <1>2 DEF Match, TypeOK, store, work
  <2>4. \A e \in events : e.trade \in Trades
    BY DEF TypeOK, Events
  <2>5. \A p \in rows \cup Pending : p.trade \in Trades
    BY DEF TypeOK, Pairs, Pending, Reports
  <2>6. Pending' = Pending
    BY <2>3 DEF Pending
  <2>7. None # "CONFIRMED" /\ None # "MATCHED"
    BY DEF Seen, Terminal
  <2>8. \A u \in Trades : state'[u] # None => matchedAt'[u] >= 1
    BY <2>3, <2>7 DEF Grounded, Past
  <2>9. \A e \in events' : state'[e.trade] # None /\ matchedAt'[e.trade] <= e.received
    BY <2>3, <2>4, <2>7 DEF Grounded
  <2>10. \A u \in Trades : econ'[u] # None => state'[u] = "CONFIRMED"
    BY <2>3, <2>7 DEF Grounded
  <2>11. \A p \in rows' \cup Pending' :
           state'[p.trade] = "CONFIRMED" /\ p \in PairsOf(p.trade)
    BY <2>3, <2>5, <2>6, <2>7 DEF Grounded
  <2> QED BY <2>1, <2>2, <2>8, <2>9, <2>10, <2>11 DEF Grounded, PairsOf
<1>3. ASSUME NEW t \in Trades, Settle(t)
      PROVE  TypeOK' /\ Past' /\ Grounded'
  <2>1. TypeOK'
    BY <1>3 DEF Settle, TypeOK, States, Seen, store, work
  <2>2. Past'
    BY <1>3 DEF Settle, Past, store, work
  <2>3. /\ \A u \in Trades : u # t => state'[u] = state[u]
        /\ state[t] = "MATCHED" /\ state'[t] \in Terminal /\ matchedAt' = matchedAt
        /\ events' = events /\ econ' = econ /\ rows' = rows /\ report' = report
    BY <1>3 DEF Settle, TypeOK, store, work
  <2>4. \A e \in events : e.trade \in Trades
    BY DEF TypeOK, Events
  <2>5. \A p \in rows \cup Pending : p.trade \in Trades
    BY DEF TypeOK, Pairs, Pending, Reports
  <2>6. Pending' = Pending
    BY <2>3 DEF Pending
  <2>7. None \notin Terminal /\ None # "MATCHED"
    BY DEF Seen
  <2>8. \A u \in Trades : state'[u] # None => matchedAt'[u] >= 1
    BY <2>3, <2>7 DEF Grounded
  <2>9. \A e \in events' : state'[e.trade] # None /\ matchedAt'[e.trade] <= e.received
    BY <2>3, <2>4, <2>7 DEF Grounded
  <2>10. \A u \in Trades : econ'[u] # None => state'[u] = "CONFIRMED"
    BY <2>3, <2>7 DEF Grounded
  <2>11. \A p \in rows' \cup Pending' :
           state'[p.trade] = "CONFIRMED" /\ p \in PairsOf(p.trade)
    BY <2>3, <2>5, <2>6, <2>7 DEF Grounded
  <2> QED BY <2>1, <2>2, <2>8, <2>9, <2>10, <2>11 DEF Grounded, PairsOf
<1>4. ASSUME NEW i \in Intents, CloseOrder(i)
      PROVE  TypeOK' /\ Past' /\ Grounded'
  BY <1>4 DEF CloseOrder, TypeOK, Past, Grounded, Pending, store, work
<1>5. ASSUME NEW t \in Trades, NEW stamp \in 1..now, StoreEconomics(t, stamp)
      PROVE  TypeOK' /\ Past' /\ Grounded'
  BY <1>5 DEF StoreEconomics, TypeOK, Past, Grounded, Pending, venue, work
<1>6. ASSUME NEW t \in Trades, NEW s \in Seen, NEW stamp \in 1..now,
             StoreEvent(t, s, stamp)
      PROVE  TypeOK' /\ Past' /\ Grounded'
  <2> DEFINE e == [ trade |-> t, state |-> s, received |-> stamp ]
  <2>1. e \in Events /\ e.trade = t /\ e.received = stamp
    BY <1>0 DEF Events
  <2>2. state[t] # None /\ matchedAt[t] <= stamp /\ events' = events \cup {e}
    BY <1>6 DEF StoreEvent
  <2> HIDE DEF e
  <2> QED BY <1>6, <2>1, <2>2
          DEF StoreEvent, TypeOK, Past, Grounded, Pending, PairsOf, venue, work
<1>7. ASSUME NEW c \in Cutoffs, BeginRead(c)
      PROVE  TypeOK' /\ Past' /\ Grounded'
  <2>1. c \in Nat /\ sess' = [ cutoff |-> c, observed |-> now ]
    BY <1>7 DEF BeginRead
  <2>2. TypeOK'
    BY <1>0, <1>7, <2>1 DEF BeginRead, TypeOK, Sessions, venue, store
  <2>3. Past'
    BY <1>0, <1>7, <2>1 DEF BeginRead, Past, store
  <2>4. Grounded'
    BY <1>7 DEF BeginRead, Grounded, Pending, PairsOf, venue, store
  <2> QED BY <2>2, <2>3, <2>4
<1>8. ASSUME NEW d \in Delays, Reconcile(d)
      PROVE  TypeOK' /\ Past' /\ Grounded'
  <2> DEFINE s == Snapshot(sess.cutoff, sess.observed, d)
  <2>1. sess \in Sessions /\ sess.observed < now
    BY <1>8 DEF Reconcile, TypeOK, Past
  <2>2. s.cutoff = sess.cutoff /\ s.observed = sess.observed
    BY DEF Snapshot
  <2>3. s.cutoff \in Nat /\ s.observed \in Nat
    BY <2>1, <2>2 DEF Sessions
  <2> HIDE DEF s
  <2>4. report' = Report(s) /\ sess' = None
    BY <1>8 DEF Reconcile, s
  <2>5. /\ report' \in Reports /\ report'.observed < now
        /\ \A p \in report'.expected :
             state[p.trade] = "CONFIRMED" /\ p \in PairsOf(p.trade)
    BY <2>1, <2>2, <2>3, <2>4, ReportTypes
  <2> QED BY <1>8, <2>4, <2>5
          DEF Reconcile, TypeOK, Past, Grounded, Pending, PairsOf, venue, store
<1>9. ASSUME NEW p \in report.expected, report # None, StorePair(p)
      PROVE  TypeOK' /\ Past' /\ Grounded'
  <2>1. p \in Pairs /\ p \in Pending
    BY <1>9 DEF TypeOK, Reports, Pending
  <2> QED BY <1>9, <2>1
          DEF StorePair, TypeOK, Past, Grounded, Pending, PairsOf, venue, work
<1>10. CASE StoreReport
  BY <1>10 DEF StoreReport, TypeOK, Past, Grounded, Pending, PairsOf, venue
<1>11. CASE Abandon
  BY <1>11 DEF Abandon, TypeOK, Past, Grounded, Pending, PairsOf, venue, store
<1>12. CASE UNCHANGED vars
  BY <1>12 DEF vars, venue, store, work, TypeOK, Past, Grounded, Pending, PairsOf
<1> QED BY <1>1, <1>2, <1>3, <1>4, <1>5, <1>6, <1>7, <1>8, <1>9, <1>10, <1>11, <1>12
        DEF Next, VenueMoves, EvidenceArrives, BookkeeperWorks

------------------------------------------------------------------------------
(* The truth of reports *)

\* What is stamped before now stays true: the window has closed, and what was
\* confirmed in it stays confirmed.
LEMMA TruthStays ==
  ASSUME TypeOK, Past, Grounded, [Next]_vars,
         NEW c \in Nat, NEW o \in Nat, o < now
  PROVE  LET M == MatchedWithin(c, o)
         IN  /\ M' = M
             /\ (\A t \in M : state[t] = "CONFIRMED") =>
                  \A t \in M : state'[t] = "CONFIRMED" /\ intent'[t] = intent[t]
<1> USE LedgerAssumption
<1> DEFINE M == MatchedWithin(c, o)
<1>1. ASSUME UNCHANGED << state, matchedAt, intent >>
      PROVE  M' = M /\ \A t \in M : state'[t] = state[t] /\ intent'[t] = intent[t]
  BY <1>1 DEF MatchedWithin
<1>2. ASSUME NEW u \in Trades, NEW i \in Intents, Match(u, i)
      PROVE  M' = M /\ \A t \in M : state'[t] = state[t] /\ intent'[t] = intent[t]
  <2>1. \A t \in Trades : t # u => /\ state'[t] = state[t] /\ intent'[t] = intent[t]
                                   /\ matchedAt'[t] = matchedAt[t]
    BY <1>2 DEF Match, TypeOK
  <2>2. state[u] = None /\ matchedAt'[u] = now
    BY <1>2 DEF Match, TypeOK
  <2>3. u \notin M /\ u \notin M'
    BY <2>2 DEF MatchedWithin, TypeOK
  <2> QED BY <2>1, <2>3 DEF MatchedWithin
<1>3. ASSUME NEW u \in Trades, Settle(u)
      PROVE  /\ M' = M
             /\ \A t \in M : /\ state[t] = "CONFIRMED" => state'[t] = "CONFIRMED"
                             /\ intent'[t] = intent[t]
  <2>1. /\ \A t \in Trades : t # u => state'[t] = state[t]
        /\ intent' = intent /\ matchedAt' = matchedAt
        /\ state[u] = "MATCHED" /\ state'[u] \in Terminal
    BY <1>3 DEF Settle, TypeOK
  <2>2. None \notin Terminal /\ None # "MATCHED"
    BY DEF Seen
  <2> QED BY <2>1, <2>2 DEF MatchedWithin
<1>4. \/ UNCHANGED << state, matchedAt, intent >>
      \/ \E u \in Trades, i \in Intents : Match(u, i)
      \/ \E u \in Trades : Settle(u)
  BY DEF Next, VenueMoves, EvidenceArrives, BookkeeperWorks, Tick, CloseOrder,
         StoreEconomics, StoreEvent, BeginRead, Reconcile, StorePair, StoreReport,
         Abandon, vars, venue
<1> QED BY <1>1, <1>2, <1>3, <1>4

\* A true report stays true.
LEMMA ReportStays ==
  ASSUME TypeOK, Past, Grounded, [Next]_vars,
         NEW r, r \in Reports, r.observed < now, TellsTruth(r)
  PROVE  TellsTruth(r)'
<1> DEFINE M == MatchedWithin(r.cutoff, r.observed)
<1>1. r.cutoff \in Nat /\ r.observed \in Nat
  BY DEF Reports
<1>2. M' = M /\ \A t \in M : state'[t] = "CONFIRMED" /\ intent'[t] = intent[t]
  BY <1>1, TruthStays DEF TellsTruth
<1>3. Postings(M)' = Postings(M)
  BY <1>2 DEF Postings, PairsOf
<1>4. ASSUME NEW i \in Intents
      PROVE  { t \in M : intent[t] = i }' = { t \in M : intent[t] = i }
  BY <1>2
<1>5. ASSUME NEW i \in Intents
      PROVE  TotalSize({ t \in M : intent[t] = i })' <= BaseSize[i]
  <2>1. PICK T : T = { t \in M : intent[t] = i }
    OBVIOUS
  <2>2. TotalSize(T) <= BaseSize[i]
    BY <2>1 DEF TellsTruth
  <2>3. T = { t \in M : intent[t] = i }'
    BY <2>1, <1>4
  <2> HIDE DEF M
  <2> QED BY <2>2, <2>3
<1> QED BY <1>2, <1>3, <1>5 DEF TellsTruth

\* Every action keeps complete reports true.
LEMMA CompleteStep ==
  ASSUME Inv, [Next]_vars
  PROVE  CompleteIsTrue'
<1>0. TypeOK /\ Past /\ Grounded /\ CompleteIsTrue
  BY DEF Inv
<1>1. ASSUME NEW r \in Reports, r.observed < now, r.complete => TellsTruth(r)
      PROVE  r.complete => TellsTruth(r)'
  <2>1. CASE TellsTruth(r)
    BY <1>0, <1>1, <2>1, ReportStays
  <2>2. CASE ~r.complete
    BY <2>2
  <2> QED BY <1>1, <2>1, <2>2
<1>2. /\ \A r \in reports : r \in Reports /\ r.observed < now
      /\ report # None => report \in Reports /\ report.observed < now
  BY <1>0 DEF TypeOK, Past
<1>3. \A r \in reports : r.complete => TellsTruth(r)'
  BY <1>0, <1>1, <1>2 DEF CompleteIsTrue
<1>4. ASSUME NEW r, r = report, report # None
      PROVE  r.complete => TellsTruth(r)'
  <2>1. r \in Reports /\ r.observed < now
    BY <1>2, <1>4
  <2>2. r.complete => TellsTruth(r)
    BY <1>0, <1>4 DEF CompleteIsTrue
  <2> QED BY <1>1, <2>1, <2>2
<1>5. ASSUME NEW r, r = report', NEW d \in Delays, Reconcile(d)
      PROVE  r.complete => TellsTruth(r)'
  <2> DEFINE s == Snapshot(sess.cutoff, sess.observed, d)
  <2>1. /\ sess \in Sessions /\ sess.observed < now
        /\ sess.cutoff \in Nat /\ sess.observed \in Nat
    BY <1>0, <1>5 DEF Reconcile, TypeOK, Past, Sessions
  <2>2. s.cutoff = sess.cutoff /\ s.observed = sess.observed
    BY DEF Snapshot
  <2>3. d \in [ Families -> Nat ]
    BY LedgerAssumption
  <2>4. Report(s).complete => TellsTruth(Report(s))
    BY <1>0, <2>1, <2>3, CompleteReport
  <2> HIDE DEF s
  <2>5. r = Report(s)
    BY <1>5 DEF Reconcile, s
  <2>6. r \in Reports /\ r.observed < now
    BY <1>0, <2>1, <2>2, <2>5, ReportTypes
  <2> QED BY <1>1, <2>4, <2>5, <2>6
<1>6. ASSUME NEW r, r = report', report' # None
      PROVE  r.complete => TellsTruth(r)'
  <2>1. report' = report \/ report' = None \/ \E d \in Delays : Reconcile(d)
    BY DEF Next, VenueMoves, EvidenceArrives, BookkeeperWorks, Tick, Match, Settle,
           CloseOrder, StoreEconomics, StoreEvent, BeginRead, StorePair,
           StoreReport, Abandon, vars, work
  <2> QED BY <1>4, <1>5, <1>6, <2>1
<1>7. ASSUME NEW r \in reports'
      PROVE  r.complete => TellsTruth(r)'
  <2>1. \/ reports' = reports
        \/ report # None /\ reports' = reports \cup {report}
    BY DEF Next, VenueMoves, EvidenceArrives, BookkeeperWorks, Tick, Match, Settle,
           CloseOrder, StoreEconomics, StoreEvent, BeginRead, Reconcile, StorePair,
           StoreReport, Abandon, vars, store
  <2>2. CASE r \in reports
    BY <1>3, <2>2
  <2>3. CASE report # None /\ r = report
    BY <1>4, <2>3
  <2> QED BY <1>7, <2>1, <2>2, <2>3
<1>8. PICK r : r = report'
  OBVIOUS
<1>9. report' # None /\ report'.complete => TellsTruth(report)'
  BY <1>6, <1>8 DEF TellsTruth
<1> QED BY <1>7, <1>9 DEF CompleteIsTrue

\* The invariant of the ledger.
THEOREM InvHolds == Spec => []Inv
<1>1. Init => Inv
  BY InitInv
<1>2. Inv /\ [Next]_vars => Inv'
  <2> SUFFICES ASSUME Inv, [Next]_vars PROVE Inv'
    OBVIOUS
  <2>1. TypeOK /\ Past /\ Grounded
    BY DEF Inv
  <2>2. TypeOK' /\ Past' /\ Grounded'
    BY <2>1, StepInv
  <2>3. CompleteIsTrue'
    BY CompleteStep
  <2> QED BY <2>2, <2>3 DEF Inv
<1> QED BY <1>1, <1>2, PTL DEF Spec

\* The variables keep their types.
THEOREM TypesHold == Spec => []TypeOK
<1>1. Inv => TypeOK
  BY DEF Inv
<1> QED BY <1>1, InvHolds, PTL

\* A complete reconciliation tells the truth of its window, however its snapshot
\* was read while the account moved (reconcile_live_account).
THEOREM CompleteReportsAreTrue == Spec => []CompleteIsTrue
<1>1. Inv => CompleteIsTrue
  BY DEF Inv
<1> QED BY <1>1, InvHolds, PTL

\* What the recovery scan accepts is the truth of the last report's window, each
\* trade posted once and entire.
THEOREM AcceptedLedgersAreTrue == Spec => []AcceptedLedgerIsTrue
<1>1. Inv => AcceptedLedgerIsTrue
  <2> SUFFICES ASSUME Inv, ScanCloses, NEW r \in reports, Latest(r)
               PROVE  rows = Postings(MatchedWithin(r.cutoff, r.observed))
                      /\ TellsTruth(r)
    BY DEF AcceptedLedgerIsTrue
  <2>1. TellsTruth(r) /\ Closes(r)
    BY DEF Inv, CompleteIsTrue, ScanCloses
  <2>2. r.expected = rows
    <3>1. CASE events = {} /\ rows = {} /\ \A t \in Trades : econ[t] = None
      <4>1. EconBy(r.observed) = {}
        BY <3>1 DEF EconBy
      <4>2. r.expected = Postings({})
        BY <2>1, <4>1 DEF Closes
      <4> QED BY <3>1, <4>2 DEF Postings
    <3>2. ASSUME NEW q \in reports, Latest(q), Covers(q)
          PROVE  r.expected = rows
      <4>1. q.observed = r.observed
        BY <3>2 DEF Latest, Inv, TypeOK, Reports
      <4>2. Closes(q)
        BY DEF ScanCloses
      <4> QED BY <2>1, <3>2, <4>1, <4>2 DEF Closes, Covers
    <3> QED BY <3>1, <3>2 DEF ScanCloses
  <2> QED BY <2>1, <2>2 DEF TellsTruth
<1> QED BY <1>1, InvHolds, PTL

------------------------------------------------------------------------------
(* Closed reports *)

\* A frame stamped up to an instant that is appended in this step.
NewBy(o) == { e \in events' \ events : e.received <= o }

\* The facts of a trade stay, and of its evidence up to an instant nothing goes.
LEMMA FactsStay ==
  ASSUME TypeOK, Past, Grounded, [Next]_vars
  PROVE  /\ \A t \in Trades : state[t] # None =>
              matchedAt'[t] = matchedAt[t] /\ intent'[t] = intent[t]
         /\ \A t \in Trades : econ[t] # None => econ'[t] = econ[t]
         /\ events \subseteq events'
<1> USE LedgerAssumption
<1>1. CASE UNCHANGED << matchedAt, intent, events, econ >>
  BY <1>1
<1>2. ASSUME NEW u \in Trades, NEW i \in Intents, Match(u, i)
      PROVE  /\ \A t \in Trades : t # u =>
                  matchedAt'[t] = matchedAt[t] /\ intent'[t] = intent[t]
             /\ state[u] = None /\ events' = events /\ econ' = econ
  BY <1>2 DEF Match, TypeOK, store
<1>3. ASSUME NEW u \in Trades, NEW s \in Seen, NEW stamp \in 1..now, StoreEvent(u, s, stamp)
      PROVE  UNCHANGED << matchedAt, intent, econ >> /\ events \subseteq events'
  BY <1>3 DEF StoreEvent, venue
<1>4. ASSUME NEW u \in Trades, NEW stamp \in 1..now, StoreEconomics(u, stamp)
      PROVE  /\ UNCHANGED << matchedAt, intent, events >>
             /\ \A t \in Trades : econ[t] # None => econ'[t] = econ[t]
  BY <1>4 DEF StoreEconomics, TypeOK, venue
<1>5. \/ UNCHANGED << matchedAt, intent, events, econ >>
      \/ \E u \in Trades, i \in Intents : Match(u, i)
      \/ \E u \in Trades, stamp \in 1..now : StoreEconomics(u, stamp)
      \/ \E u \in Trades, s \in Seen, stamp \in 1..now : StoreEvent(u, s, stamp)
  BY DEF Next, VenueMoves, EvidenceArrives, BookkeeperWorks, Tick, CloseOrder, Settle,
         BeginRead, Reconcile, StorePair, StoreReport, Abandon, vars, venue, store
<1> QED BY <1>1, <1>2, <1>3, <1>4, <1>5

\* The economics up to an instant are all there once the window is posted whole;
\* a late record is of a trade that had none.
LEMMA EconStays ==
  ASSUME TypeOK, Past, Grounded, [Next]_vars, NEW o \in Nat, o < now,
         MatchedWithin(0, o) \subseteq EconBy(o)
  PROVE  EconBy(o)' = EconBy(o)
<1> USE LedgerAssumption
<1>1. ASSUME UNCHANGED << matchedAt, econ >>
      PROVE  EconBy(o)' = EconBy(o)
  BY <1>1 DEF EconBy
<1>2. ASSUME NEW u \in Trades, NEW i \in Intents, Match(u, i)
      PROVE  EconBy(o)' = EconBy(o)
  <2>1. /\ \A t \in Trades : t # u => matchedAt'[t] = matchedAt[t]
        /\ state[u] = None /\ econ' = econ
    BY <1>2 DEF Match, TypeOK, store
  <2>2. econ[u] = None
    BY <2>1 DEF Grounded, Seen, Terminal
  <2> QED BY <2>1, <2>2 DEF EconBy
<1>3. ASSUME NEW u \in Trades, NEW stamp \in 1..now, StoreEconomics(u, stamp)
      PROVE  EconBy(o)' = EconBy(o)
  <2>1. /\ \A t \in Trades : t # u => econ'[t] = econ[t]
        /\ state[u] = "CONFIRMED" /\ econ[u] = None /\ matchedAt' = matchedAt
    BY <1>3 DEF StoreEconomics, TypeOK, venue
  <2>2. ~(matchedAt[u] <= o)
    <3>1. SUFFICES ASSUME matchedAt[u] <= o PROVE FALSE
      OBVIOUS
    <3>2. state[u] # None /\ 0 < matchedAt[u]
      BY <2>1 DEF Grounded, TypeOK, Seen, Terminal
    <3>3. u \in EconBy(o)
      BY <3>1, <3>2 DEF MatchedWithin
    <3> QED BY <2>1, <3>3 DEF EconBy
  <2> QED BY <2>1, <2>2 DEF EconBy
<1>4. \/ UNCHANGED << matchedAt, econ >>
      \/ \E u \in Trades, i \in Intents : Match(u, i)
      \/ \E u \in Trades, stamp \in 1..now : StoreEconomics(u, stamp)
  BY DEF Next, VenueMoves, EvidenceArrives, BookkeeperWorks, Tick, CloseOrder, Settle,
         StoreEvent, BeginRead, Reconcile, StorePair, StoreReport, Abandon, vars, venue,
         store
<1> QED BY <1>1, <1>2, <1>3, <1>4

\* Without a new frame stamped up to an instant, the events up to it stay.
LEMMA EventsStay ==
  ASSUME TypeOK, Past, Grounded, [Next]_vars, NEW o, NewBy(o) = {}
  PROVE  EventsBy(o)' = EventsBy(o)
  BY FactsStay DEF EventsBy, NewBy

\* A new frame stamped in a window is of a trade of the window.
LEMMA NewIsOfWindow ==
  ASSUME TypeOK, TypeOK', Past, Grounded, Grounded', [Next]_vars,
         NEW o \in Nat, o < now, NEW e \in NewBy(o)
  PROVE  e.trade \in MatchedWithin(0, o)
<1> USE LedgerAssumption
<1>1. e \in events' /\ e \notin events /\ e.received <= o
  BY DEF NewBy
<1>2. PICK u \in Trades, s \in Seen, stamp \in 1..now : StoreEvent(u, s, stamp)
  BY <1>1
  DEF Next, VenueMoves, EvidenceArrives, BookkeeperWorks, Tick, CloseOrder, Settle,
      Match, StoreEconomics, BeginRead, Reconcile, StorePair, StoreReport, Abandon,
      vars, store
<1>3. /\ state[u] # None /\ matchedAt[u] <= stamp
      /\ events' = events \cup { [ trade |-> u, state |-> s, received |-> stamp ] }
  BY <1>2 DEF StoreEvent
<1>4. e = [ trade |-> u, state |-> s, received |-> stamp ]
  BY <1>1, <1>3
<1>5. e.trade = u /\ stamp <= o
  BY <1>1, <1>4
<1>6. matchedAt[u] \in Nat /\ 1 <= matchedAt[u]
  BY <1>3 DEF Grounded, TypeOK
<1>7. matchedAt[u] <= o /\ 0 < matchedAt[u]
  BY <1>3, <1>5, <1>6 DEF TypeOK
<1> QED BY <1>3, <1>5, <1>7 DEF MatchedWithin

\* What could be posted can be posted.
LEMMA PostableStays ==
  ASSUME TypeOK, Past, Grounded, [Next]_vars, NEW o \in Nat,
         EventsBy(o)' = EventsBy(o), EconBy(o)' = EconBy(o),
         Postable(EventsBy(o), EconBy(o))
  PROVE  Postable(EventsBy(o), EconBy(o))'
<1>1. PICK E, X : E = EventsBy(o) /\ X = EconBy(o)
  OBVIOUS
<1>2. EventsBy(o)' = E /\ EconBy(o)' = X
  BY <1>1
<1>3. X \subseteq Trades /\ \A t \in X : econ[t] # None /\ state[t] # None
  BY <1>1, LedgerAssumption DEF EconBy, Grounded, Seen, Terminal
<1>4. \A t \in X : /\ intent'[t] = intent[t] /\ econ'[t] = econ[t]
                   /\ matchedAt'[t] = matchedAt[t]
  BY <1>3, FactsStay
<1>5. ~Contradicted(E) /\ X = Confirmed(E)
  BY <1>1 DEF Postable
<1>6. ASSUME NEW e \in E, e.state = "CONFIRMED"
      PROVE  /\ Size[e.trade] <= BaseSize[intent'[e.trade]]
             /\ matchedAt'[e.trade] <= e.received /\ e.received <= econ'[e.trade]
  <2>1. e.trade \in X
    BY <1>5, <1>6 DEF Confirmed, WithState
  <2> QED BY <1>1, <1>4, <1>6, <2>1 DEF Postable
<1>7. ASSUME NEW i \in Intents
      PROVE  TotalSize({ t \in X : intent[t] = i })' <= BaseSize[i]
  <2>1. PICK T : T = { t \in X : intent[t] = i }
    OBVIOUS
  <2>2. TotalSize(T) <= BaseSize[i]
    BY <1>1, <2>1 DEF Postable
  <2>3. T = { t \in X : intent[t] = i }'
    BY <1>4, <2>1
  <2> QED BY <2>2, <2>3
<1> QED BY <1>2, <1>5, <1>6, <1>7 DEF Postable

\* Nothing is posted into a window that is posted whole.
LEMMA RowsStay ==
  ASSUME TypeOK, Past, Grounded, [Next]_vars, NEW o \in Nat, o < now,
         PairsBy(o) = Postings(MatchedWithin(0, o))
  PROVE  PairsBy(o)' = PairsBy(o)
<1> USE LedgerAssumption
<1>1. \A p \in rows : p.trade \in Trades /\ state[p.trade] # None
  BY DEF TypeOK, Pairs, Grounded, Seen, Terminal
<1>2. \A p \in rows : matchedAt'[p.trade] = matchedAt[p.trade]
  BY <1>1, FactsStay
<1>3. CASE rows' = rows
  BY <1>2, <1>3 DEF PairsBy
<1>4. ASSUME report # None, NEW p \in report.expected, StorePair(p)
      PROVE  PairsBy(o)' = PairsBy(o)
  <2>1. rows' = rows \cup {p} /\ matchedAt' = matchedAt /\ p \notin rows
    BY <1>4 DEF StorePair, venue
  <2>2. /\ p \in Pending /\ p.trade \in Trades
        /\ state[p.trade] # None /\ p \in PairsOf(p.trade)
    BY <1>4 DEF Pending, Grounded, TypeOK, Reports, Pairs, Seen, Terminal
  <2>3. ASSUME matchedAt[p.trade] <= o
        PROVE  FALSE
    <3>1. 0 < matchedAt[p.trade]
      BY <2>2 DEF Grounded, TypeOK
    <3>2. p.trade \in MatchedWithin(0, o)
      BY <2>2, <2>3, <3>1 DEF MatchedWithin
    <3>3. p \in PairsBy(o)
      BY <2>2, <3>2 DEF Postings
    <3> QED BY <2>1, <3>3 DEF PairsBy
  <2> QED BY <2>1, <2>3 DEF PairsBy
<1>5. rows' = rows \/ (report # None /\ \E p \in report.expected : StorePair(p))
  BY DEF Next, VenueMoves, EvidenceArrives, BookkeeperWorks, Tick, Match, Settle,
         CloseOrder, StoreEconomics, StoreEvent, BeginRead, Reconcile, StoreReport,
         Abandon, vars, store
<1> QED BY <1>3, <1>4, <1>5

\* A posting pair names its trade, so two sets of trades with the same postings
\* are the same.
LEMMA PostingsName ==
  ASSUME NEW S \in SUBSET Trades, NEW T \in SUBSET Trades, Postings(S) = Postings(T)
  PROVE  S \subseteq T
<1> SUFFICES ASSUME NEW t \in S PROVE t \in T
  OBVIOUS
<1> DEFINE p == [ trade |-> t, leg |-> "CASH" ]
<1>1. p \in Postings(S) /\ p.trade = t
  BY DEF Postings, PairsOf
<1> QED BY <1>1, PairTypes

\* What closed goes on closing, whatever the venue, the writers of evidence and
\* the bookkeeper do next, until a frame stamped in its window is appended to it
\* (_validate_live_reconciliation_closure).
THEOREM OnlyLateFrames == Spec => OnlyLateFramesReopen
<1>1. ASSUME Inv, [Next]_vars,
             NEW r \in reports, r.complete, r.cutoff = 0, Closes(r)
      PROVE  Closes(r)' \/ LateFrame(r)
  <2> DEFINE o == r.observed
             M == MatchedWithin(0, o)
  <2>1. TypeOK /\ Past /\ Grounded /\ TellsTruth(r)
    BY <1>1 DEF Inv, CompleteIsTrue
  <2>2. o \in Nat /\ o < now
    BY <2>1 DEF TypeOK, Past, Reports
  <2>3. TypeOK' /\ Past' /\ Grounded'
    BY <1>1, <2>1, StepInv
  <2>4. PICK E, X : E = EventsBy(o) /\ X = EconBy(o)
    OBVIOUS
  <2>5. /\ PairsBy(o) = Postings(X) /\ r.expected = Postings(X)
        /\ Failed(E) = {} /\ Unresolved(E) = {} /\ r.events = E
    BY <1>1, <2>4 DEF Closes
  <2>6. r.expected = Postings(M)
    BY <1>1, <2>1 DEF TellsTruth
  <2>7. CASE NewBy(o) # {}
    <3>1. PICK e \in NewBy(o) : e.trade \in M
      BY <1>1, <2>1, <2>2, <2>3, <2>7, NewIsOfWindow
    <3>2. [ trade |-> e.trade, leg |-> "CASH" ] \in r.expected
      BY <2>6, <3>1 DEF Postings, PairsOf
    <3> QED BY <3>1, <3>2 DEF LateFrame, NewBy
  <2>8. CASE NewBy(o) = {}
    <3>1. M \subseteq X
      <4>1. M \in SUBSET Trades /\ X \in SUBSET Trades
        BY <2>4 DEF MatchedWithin, EconBy
      <4> QED BY <2>5, <2>6, <4>1, PostingsName
    <3>2. EventsBy(o)' = E /\ EconBy(o)' = X
      BY <1>1, <2>1, <2>2, <2>4, <2>8, <3>1, EventsStay, EconStays
    <3>3. Postable(EventsBy(o), EconBy(o))'
      BY <1>1, <2>1, <2>2, <2>4, <3>2, PostableStays DEF Closes
    <3>4. PairsBy(o)' = PairsBy(o)
      BY <1>1, <2>1, <2>2, <2>5, <2>6, RowsStay
    <3> QED BY <2>5, <3>2, <3>3, <3>4 DEF Closes
  <2> QED BY <2>7, <2>8
<1>2. Inv /\ [Next]_vars =>
        [ \A r \in reports :
            r.complete /\ r.cutoff = 0 /\ Closes(r) => Closes(r)' \/ LateFrame(r) ]_vars
  BY <1>1
<1> QED BY <1>2, InvHolds, PTL DEF Spec, OnlyLateFramesReopen
==============================================================================
