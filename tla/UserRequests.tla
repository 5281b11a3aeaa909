---------------------------- MODULE UserRequests ----------------------------
(***************************************************************************)
(* The requests that the user program sends: what it builds from its       *)
(* command line, and the command lines it refuses (user.c).  Who the user  *)
(* is and whether the operation is allowed is for the server to say.       *)
(***************************************************************************)
EXTENDS SopeTypes

\* No user can ask for the creation of the administrator's account, or for a
\* transfer to it.
TargetAccepted(account_id) == account_id \in AccountIds \ {ADMIN_ACCOUNT_ID}

AmountAccepted(number) == number \in MIN_BALANCE .. MAX_BALANCE

\* The request struct; what the user leaves out of it is not sent either.
Request(type, pid, id, password, target, number, newPassword) ==
  [type  |-> type,
   value |-> [header    |-> [pid |-> pid, account_id |-> id, password |-> password],
              arguments |-> [account_id |-> target, number |-> number,
                             password |-> newPassword]]]

createAccountRequest(pid, id, password, target, balance, newPassword) ==
  Request("OP_CREATE_ACCOUNT", pid, id, password, target, balance, newPassword)

createBalanceRequest(pid, id, password) ==
  Request("OP_BALANCE", pid, id, password, 0, 0, password)

createTransferRequest(pid, id, password, target, amount) ==
  Request("OP_TRANSFER", pid, id, password, target, amount, password)

createShutDownRequest(pid, id, password) ==
  Request("OP_SHUTDOWN", pid, id, password, 0, 0, password)

\* The user program does not send m if it is not one of these.
SentByUsers(m) ==
  \/ m.type \in {"OP_BALANCE", "OP_SHUTDOWN"}
  \/ /\ m.type \in {"OP_CREATE_ACCOUNT", "OP_TRANSFER"}
     /\ TargetAccepted(m.value.arguments.account_id)
     /\ AmountAccepted(m.value.arguments.number)
=============================================================================
