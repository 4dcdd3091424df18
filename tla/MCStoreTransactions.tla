------------------------- MODULE MCStoreTransactions -------------------------
(***************************************************************************)
(* Instances of StoreTransactions: three requests, each of which may be    *)
(* any of the operations its behaviour offers.                             *)
(***************************************************************************)
EXTENDS StoreTransactions

CONSTANTS r1, r2, r3, k1, k2

\* Operations that meet on the same rows, and requests that are sent twice or reuse a key.
Meetings == {
  {"evaluate"} \X {k1, k2} \cup {"approve"} \X {k1},
  {"takeover", "resume", "evaluate"} \X {k1},
  {"takeover", "respond", "optOut"} \X {k1},
  {"optOut", "evaluate", "approve"} \X {k1},
  {"takeover", "followUp", "collected"} \X {k1},
  {"book1"} \X {k1, k2} \cup {"book2"} \X {k1},
  {"refund"} \X {k1, k2},
  {"collected"} \X {k1, k2} \cup {"refunded"} \X {k1}}

LedgerRace == {{"collected", "refunded"} \X {k1, k2}}
=============================================================================
