---------------------------- MODULE MCLiveLedger ----------------------------
(* A small account for TLC: two trades, each a purchase or a sale. *)
EXTENDS LiveLedgerProperties, TLC

CONSTANTS buyer, seller, t1, t2

\* One intent may not make both trades; a sale undoes a purchase but for fees.
MCSide == buyer :> "buy" @@ seller :> "sell"
MCBaseSize == [ i \in Intents |-> 3 ]
MCSize == [ t \in Trades |-> 2 ]
MCNotional == [ t \in Trades |-> 2 ]
MCFee == [ t \in Trades |-> 1 ]
MCRank == "POSITION" :> 1 @@ "FEE" :> 2 @@ "CASH" :> 3

\* All at the stamp, and some of them later: the balances, the lists, one of each.
MCDelays ==
  { [ f \in Families |-> IF f \in late THEN 1 ELSE 0 ] :
      late \in { {}, Accounts, {"TRADES", "SETTLEMENTS"},
                 {"SETTLEMENTS", "venue_cash"} } }

AnyTrade == Permutations(Trades)
==============================================================================
