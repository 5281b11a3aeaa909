---------------------------- MODULE MCBankServer ----------------------------
(* Two users at a time: the second may write while an office is at work on *)
(* the request of the first, which is the same struct in memory.  And      *)
(* users one at a time, against two offices.                               *)
EXTENDS BankServer, MCBankMessages

CONSTANTS p1, p2, salt

MCPids == {p1, p2}
MCSalts == {salt}

\* Two accounts, a transfer between them, and the balance of an account that
\* may not exist yet.
Operations ==
  {Creation(p1, 0, padm, 1, 2), Creation(p1, 0, padm, 2, 1),
   Transfer(p2, 1, pcli, 2, 1), Balance(p2, 2, pcli)}

\* Two administrators create one and the same account, each with a password.
SameAccount ==
  {createAccountRequest(p1, 0, padm, 1, 2, pcli), createAccountRequest(p2, 0, padm, 1, 1, padm)}

\* Users one at a time: enough to lock accounts for ever and to go on with the
\* others, a wrong password, and a shutdown.
OneByOne ==
  {Creation(p1, 0, padm, 1, 2), Creation(p1, 0, padm, 2, 1),
   Balance(p1, 1, pcli), Balance(p1, 1, padm),
   Transfer(p1, 1, pcli, 2, 1), ShutDownRequest(p1, 0, padm)}
=============================================================================
