----------------------------- MODULE AtomicBank -----------------------------
(***************************************************************************)
(* The bank as its users see it when they come one after another: a        *)
(* request is asked, served in one step, and answered.  Serving changes    *)
(* the accounts and settles the answer as module Bank says, with the one   *)
(* exception that the code makes: a transfer that is refused because the   *)
(* other account would hold too much takes the amount all the same.        *)
(***************************************************************************)
EXTENDS Bank

CONSTANTS
  Messages,          \* the requests that users send
  AdminPassword

VARIABLES
  accounts,   \* the ledger
  asked,      \* the request that waits for its answer, if there is one
  answer      \* the answer that is ready for it, if there is one

atomicVars == <<accounts, asked, answer>>

AtomicInit ==
  /\ accounts = [id \in {ADMIN_ACCOUNT_ID} |-> [password |-> AdminPassword,
                                                balance  |-> ADMIN_ACCOUNT_BALLANCE]]
  /\ asked = {}
  /\ answer = {}

\* What the answer to request m has to say of the ledger it met.  Fields that
\* the operation leaves open may say anything.
RightAnswer(ledger, m, a) ==
  /\ a.to = m.value.header.pid
  /\ a.reply.type = m.type
  /\ a.reply.ret_code = RetCode(ledger, m)
  /\ RetCode(ledger, m) = "RC_OK" => a.reply.account_id = m.value.header.account_id
  /\ HasNumber(ledger, m) => a.reply.number = Number(ledger, m)

LedgerLeft(ledger, m) ==
  IF RetCode(ledger, m) = "RC_TOO_HIGH"
  THEN [ledger EXCEPT ![m.value.header.account_id].balance = @ - m.value.arguments.number]
  ELSE LedgerAfter(ledger, m)

Ask(m) ==
  /\ asked = {}
  /\ asked' = {m}
  /\ UNCHANGED <<accounts, answer>>

Serve(m) ==
  /\ answer = {}
  /\ \E a \in answer' : answer' = {a} /\ RightAnswer(accounts, m, a)
  /\ accounts' = LedgerLeft(accounts, m)
  /\ UNCHANGED asked

Send ==
  /\ answer # {}
  /\ answer' = {}
  /\ asked' = {}
  /\ UNCHANGED accounts

AtomicNext ==
  \/ \E m \in Messages : Ask(m)
  \/ \E m \in asked : Serve(m)
  \/ Send

AtomicSpec == AtomicInit /\ [][AtomicNext]_atomicVars
=============================================================================
