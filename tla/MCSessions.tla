----------------------------- MODULE MCSessions -----------------------------
(* Two users, each of whom may be anybody: an administrator who asks for a *)
(* shutdown, somebody who asks for something else, or one whose command    *)
(* line is refused.                                                        *)
EXTENDS Sessions

CONSTANTS p1, p2, pw

MCPids == {p1, p2}
MCPasswords == {pw}
\* A delay that is allowed and one that is not.
MCUninitialised == {4, 5}

ShutDownLine == <<0, pw, 1, 3, <<"">>>>
BalanceLine == <<1, pw, NotANumber, 1, <<"">>>>

MCCommandLines == [u \in MCPids |-> IF u = p1 THEN {ShutDownLine, BalanceLine} ELSE {BalanceLine}]

MCMessages ==
  {createShutDownRequest(u, 0, pw) : u \in MCPids} \union {createBalanceRequest(u, 1, pw) : u \in MCPids}

MCGarbage == {createBalanceRequest(p1, 0, pw)}
=============================================================================
