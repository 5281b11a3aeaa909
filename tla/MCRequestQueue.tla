--------------------------- MODULE MCRequestQueue ---------------------------
(* Instances of RequestQueue for TLC.  The path of a request does not      *)
(* depend on what the request says, so one message is enough.              *)
EXTENDS RequestQueue

CONSTANTS p1, pw

Value(amount) ==
  [header    |-> [pid |-> p1, account_id |-> 0, password |-> pw],
   arguments |-> [account_id |-> 1, number |-> amount, password |-> pw]]

OneMessage == {[type |-> "OP_SHUTDOWN", value |-> Value(1)]}
MCGarbage == {[type |-> "OP_CREATE_ACCOUNT", value |-> Value(0)]}
MCPasswords == {pw}
MCPids == {p1}
=============================================================================
