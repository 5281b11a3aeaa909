------------------------- MODULE MCBankServerSerial -------------------------
(* One user after another, with every kind of request and of error. *)
EXTENDS BankServerSerial, MCBankMessages

CONSTANTS p1, salt

MCPids == {p1}
MCSalts == {salt}

\* Every operation with every error.
EveryKind ==
  {Creation(p1, 0, padm, 1, 2), Creation(p1, 0, padm, 2, 1), Creation(p1, 0, padm, 2, 2),
   Creation(p1, 1, pcli, 2, 1),
   Balance(p1, 1, pcli), Balance(p1, 1, padm), Balance(p1, 0, padm),
   Transfer(p1, 1, pcli, 2, 1), Transfer(p1, 2, pcli, 1, 1), Transfer(p1, 1, pcli, 1, 1),
   Transfer(p1, 0, padm, 1, 1),
   ShutDownRequest(p1, 0, padm), ShutDownRequest(p1, 1, pcli)}
=============================================================================
