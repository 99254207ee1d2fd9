-------------------------- MODULE LiveLedgerProperties --------------------------
(* What the live ledger and its reconciliations promise. *)
EXTENDS LiveLedger

States == {None} \cup Seen
Pairs == [ trade : Trades, leg : Legs ]
Events == [ trade : Trades, state : Seen, received : Nat ]
Reports == [ cutoff : Nat, observed : Nat, complete : BOOLEAN,
             expected : SUBSET Pairs, events : SUBSET Events ]
Sessions == [ cutoff : Nat, observed : Nat ]

\* Every variable keeps its type.
TypeOK ==
  /\ now \in Nat
  /\ open \subseteq Intents
  /\ intent \in [ Trades -> Intents \cup {None} ]
  /\ state \in [ Trades -> States ]
  /\ matchedAt \in [ Trades -> Nat ] /\ settledAt \in [ Trades -> Nat ]
  /\ events \subseteq Events
  /\ econ \in [ Trades -> Nat \cup {None} ]
  /\ rows \subseteq Pairs
  /\ reports \subseteq Reports
  /\ sess \in Sessions \cup {None}
  /\ report \in Reports \cup {None}

\* The trades the venue matched after one instant and up to another.
MatchedWithin(c, o) ==
  { t \in Trades : state[t] # None /\ c < matchedAt[t] /\ matchedAt[t] <= o }

\* A report tells the truth of its window: it posts every trade of it, all of
\* them settled, no other, and no intent beyond its size.
TellsTruth(r) ==
  /\ r.expected = Postings(MatchedWithin(r.cutoff, r.observed))
  /\ \A t \in MatchedWithin(r.cutoff, r.observed) : state[t] = "CONFIRMED"
  /\ \A i \in Intents :
       TotalSize({ t \in MatchedWithin(r.cutoff, r.observed) : intent[t] = i })
         <= BaseSize[i]

\* A complete reconciliation (reconcile_live_account), whatever moved while the
\* families of its snapshot were read one after the other.
CompleteIsTrue ==
  /\ \A r \in reports : r.complete => TellsTruth(r)
  /\ report # None /\ report.complete => TellsTruth(report)

\* A ledger the recovery scan accepts holds, up to the instant of its last
\* report, each trade of that report's window once and entire, although it was
\* appended pair by pair by a bookkeeper who may have stopped anywhere.
AcceptedLedgerIsTrue ==
  ScanCloses =>
    \A r \in reports : Latest(r) =>
      /\ rows = Postings(MatchedWithin(r.cutoff, r.observed))
      /\ TellsTruth(r)

\* A frame of a trade the report posts reaches the store with a stamp from the
\* report's own window.
LateFrame(r) ==
  \E e \in events' \ events :
    e.received <= r.observed /\ \E p \in r.expected : p.trade = e.trade

\* A complete report from the opening of the account that closes goes on
\* closing, whatever is traded, appended, reported or read afterwards, with one
\* exception: a frame of one of its own trades that was stamped in its window
\* and appended after it (_validate_live_reconciliation_closure, which judges
\* every stored report again in each scan; append_venue_trade_event).
OnlyLateFramesReopen ==
  [][ \A r \in reports :
        r.complete /\ r.cutoff = 0 /\ Closes(r) => Closes(r)' \/ LateFrame(r) ]_vars
==============================================================================
