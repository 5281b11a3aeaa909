----------------------------- MODULE SopeTypes -----------------------------
(***************************************************************************)
(* The messages, accounts and limits that the server and its users share   *)
(* (types.h, constants.h).                                                 *)
(*                                                                         *)
(* A request travels over the server's FIFO as type, length, value.  The   *)
(* value is a header followed by the arguments of the operation, if it has *)
(* any.  Creation and transfer arguments are overlaid in one union: both   *)
(* begin with an account id and a number (the balance of the new account   *)
(* or the amount to transfer), and creation goes on with a password.       *)
(***************************************************************************)
EXTENDS Integers, FiniteSets

CONSTANTS
  MAX_BANK_ACCOUNTS,      \* slots of the accounts table (4096 in the code)
  MIN_BALANCE,            \* lowest balance a client account may have (1)
  MAX_BALANCE,            \* highest balance an account may have (10^9)
  Passwords,              \* the passwords that users type
  Pids                    \* process ids of the user programs

ASSUME LimitsAssumption ==
  /\ MAX_BANK_ACCOUNTS \in Nat \ {0}
  /\ MIN_BALANCE \in Nat \ {0}
  /\ MAX_BALANCE \in Nat
  /\ MIN_BALANCE <= MAX_BALANCE

ADMIN_ACCOUNT_ID == 0
ADMIN_ACCOUNT_BALLANCE == 0

AccountIds == 0 .. MAX_BANK_ACCOUNTS - 1

op_type == {"OP_CREATE_ACCOUNT", "OP_BALANCE", "OP_TRANSFER", "OP_SHUTDOWN"}

ret_code == {"RC_OK", "RC_LOGIN_FAIL", "RC_OP_NALLOW", "RC_ID_IN_USE",
             "RC_ID_NOT_FOUND", "RC_SAME_ID", "RC_NO_FUNDS", "RC_TOO_HIGH"}

req_header == [pid : Pids, account_id : AccountIds, password : Passwords]

\* The union of req_create_account and req_transfer, as bytes in memory.
req_arguments == [account_id : AccountIds, number : Nat, password : Passwords]

req_value == [header : req_header, arguments : req_arguments]

\* The struct in the server's memory that a message is read into.
tlv_request == [type : op_type, value : req_value]

(***************************************************************************)
(* The arguments that a message of each type carries.  The length of the   *)
(* message covers these fields and no others.                              *)
(***************************************************************************)
ArgumentFields(type) ==
  CASE type = "OP_CREATE_ACCOUNT" -> {"account_id", "number", "password"}
    [] type = "OP_TRANSFER"       -> {"account_id", "number"}
    [] OTHER                      -> {}

(***************************************************************************)
(* The value in memory after reading message m, of m.length bytes, over    *)
(* what was there before: the arguments m does not carry keep old bytes.   *)
(***************************************************************************)
ValueRead(old, m) ==
  [header    |-> m.value.header,
   arguments |-> [f \in {"account_id", "number", "password"} |->
                    IF f \in ArgumentFields(m.type) THEN m.value.arguments[f]
                                                    ELSE old.arguments[f]]]
=============================================================================
