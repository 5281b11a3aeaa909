-------------------------------- MODULE Bank --------------------------------
(***************************************************************************)
(* What the bank promises its users, request by request: the answer and    *)
(* the accounts afterwards, as functions of the accounts before.  Written  *)
(* from the comments of op_type and ret_code in types.h, as a reference    *)
(* for the operations of the bank offices.                                 *)
(*                                                                         *)
(* A ledger maps the ids of the existing accounts to password and balance. *)
(***************************************************************************)
EXTENDS SopeTypes

AdminOps == {"OP_CREATE_ACCOUNT", "OP_SHUTDOWN"}

\* The errors in the order of the enumeration: "if there is more than one
\* error, the first within this list must be returned".
ErrorOrder == <<"RC_LOGIN_FAIL", "RC_OP_NALLOW", "RC_ID_IN_USE", "RC_ID_NOT_FOUND",
                "RC_SAME_ID", "RC_NO_FUNDS", "RC_TOO_HIGH">>

\* The errors that request m has against the ledger.
HasError(ledger, m, code) ==
  LET id     == m.value.header.account_id
      other  == m.value.arguments.account_id
      number == m.value.arguments.number
      exists == DOMAIN ledger
  IN
  CASE code = "RC_LOGIN_FAIL" ->
         ~ (id \in exists /\ ledger[id].password = m.value.header.password)
    [] code = "RC_OP_NALLOW" ->
         (m.type \in AdminOps) # (id = ADMIN_ACCOUNT_ID)
    [] code = "RC_ID_IN_USE" -> m.type = "OP_CREATE_ACCOUNT" /\ other \in exists
    [] code = "RC_ID_NOT_FOUND" -> m.type = "OP_TRANSFER" /\ other \notin exists
    [] code = "RC_SAME_ID" -> m.type = "OP_TRANSFER" /\ other = id
    [] code = "RC_NO_FUNDS" ->
         m.type = "OP_TRANSFER" /\ id \in exists /\ ledger[id].balance < MIN_BALANCE + number
    [] code = "RC_TOO_HIGH" ->
         m.type = "OP_TRANSFER" /\ other \in exists /\ ledger[other].balance + number > MAX_BALANCE

Errors(ledger, m) == {i \in DOMAIN ErrorOrder : HasError(ledger, m, ErrorOrder[i])}

RetCode(ledger, m) ==
  LET errors == Errors(ledger, m) IN
  IF errors = {} THEN "RC_OK"
  ELSE ErrorOrder[CHOOSE i \in errors : \A j \in errors : i <= j]

\* The ledger after request m.  A request that fails changes nothing.
LedgerAfter(ledger, m) ==
  LET id     == m.value.header.account_id
      other  == m.value.arguments.account_id
      number == m.value.arguments.number
  IN
  IF RetCode(ledger, m) # "RC_OK" \/ m.type \notin {"OP_CREATE_ACCOUNT", "OP_TRANSFER"}
  THEN ledger
  ELSE IF m.type = "OP_CREATE_ACCOUNT"
  THEN [i \in DOMAIN ledger \union {other} |->
          IF i = other THEN [password |-> m.value.arguments.password, balance |-> number]
                       ELSE ledger[i]]
  ELSE [ledger EXCEPT ![id].balance = @ - number, ![other].balance = @ + number]

\* The number that goes with the answer: the balance asked for, the balance
\* left after a transfer, or the amount of a transfer that failed after login.
HasNumber(ledger, m) ==
  \/ m.type = "OP_BALANCE" /\ RetCode(ledger, m) = "RC_OK"
  \/ m.type = "OP_TRANSFER" /\ RetCode(ledger, m) # "RC_LOGIN_FAIL"

Number(ledger, m) ==
  IF RetCode(ledger, m) = "RC_OK"
  THEN LedgerAfter(ledger, m)[m.value.header.account_id].balance
  ELSE m.value.arguments.number
=============================================================================
