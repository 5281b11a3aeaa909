-------------------------- MODULE BankServerSerial --------------------------
(***************************************************************************)
(* The server with users who come one after another, as in the log the     *)
(* repository holds (slog.txt): the answers and the accounts are those of  *)
(* module Bank, and the server as a whole implements AtomicBank.  The      *)
(* history variable before holds the ledger at the moment an office took   *)
(* the request up.                                                         *)
(***************************************************************************)
EXTENDS BankServer

ASSUME OneUserAtATime == MaxOutstanding = 1

VARIABLE before

Ledger == [id \in DOMAIN bankAccounts |-> [password |-> bankAccounts[id].hash[1],
                                           balance  |-> bankAccounts[id].balance]]

\* A request is served when the office has nothing left to do but to count
\* out and to send the reply; until then the accounts are those it began with.
Accounts == IF \E o \in Offices : step[o] \notin {"idle", "begin", "leave", "send"}
            THEN before ELSE Ledger
Asked == IF waiting = {} THEN {} ELSE {incoming}
Answer == {[to |-> header.pid, reply |-> reply[o]] :
             o \in {p \in Offices : step[p] \in {"leave", "send"}}}

BankOf == INSTANCE AtomicBank WITH accounts <- Accounts, asked <- Asked, answer <- Answer

serialVars == <<serverVars, before>>

SerialInit == BankInit /\ before = <<>>

SerialNext ==
  /\ BankNext
  /\ before' = IF \E o \in Offices : step[o] = "begin" /\ step'[o] = "login"
               THEN Ledger
               ELSE IF \E o \in Offices : step'[o] \notin {"idle", "begin"}
               THEN before ELSE <<>>

SerialSpec == SerialInit /\ [][SerialNext]_serialVars

\* The message that is being served is the last one that main read.
Expected == BankOf!RetCode(before, incoming)

\* Every reply that is about to be sent says what Bank says of the ledger when
\* the request was taken up: the operation, the first error in the order of
\* types.h, the account and the balance; and it goes to the user who asked.
AnswerIsRight ==
  \A o \in Offices : step[o] = "send" =>
    /\ reply[o].type = incoming.type
    /\ reply[o].ret_code = Expected
    /\ Expected = "RC_OK" => reply[o].account_id = incoming.value.header.account_id
    /\ BankOf!HasNumber(before, incoming) => reply[o].number = BankOf!Number(before, incoming)
    /\ waiting = {incoming.value.header.pid}
    /\ header.pid \in waiting

\* The accounts are then what Bank says they are, except after a transfer that
\* failed because the other account would hold too much.
LedgerIsRight ==
  \A o \in Offices : step[o] = "send" /\ Expected # "RC_TOO_HIGH" =>
    Ledger = BankOf!LedgerAfter(before, incoming)

\* However many offices there are and wherever they block, users in turn see a
\* bank that serves each request in one step and answers it once, and whose
\* accounts nothing else changes.
ServesAtomically == BankOf!AtomicSpec

\* types.h:28-29: a transfer that the limits forbid only reports so:
\* it leaves the accounts as they were.
FailedTransferKeepsMoney ==
  \A o \in Offices : step[o] = "send" /\ Expected = "RC_TOO_HIGH" => Ledger = before
=============================================================================
