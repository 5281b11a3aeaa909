--------------------------- MODULE MCBankMessages ---------------------------
(* Requests for the instances of the bank server.  Every account but the   *)
(* administrator's is created with the password pcli.                      *)
EXTENDS UserRequests

CONSTANTS padm, pcli

Creation(pid, id, password, other, number) ==
  createAccountRequest(pid, id, password, other, number, pcli)
Balance(pid, id, password) == createBalanceRequest(pid, id, password)
Transfer(pid, id, password, other, number) ==
  createTransferRequest(pid, id, password, other, number)
ShutDownRequest(pid, id, password) == createShutDownRequest(pid, id, password)

MCPasswords == {padm, pcli}

\* The struct on main's stack happens to hold zeros.
MCGarbage ==
  {Request("OP_CREATE_ACCOUNT", CHOOSE p \in Pids : TRUE, 0, pcli, 0, 0, pcli)}
=============================================================================
