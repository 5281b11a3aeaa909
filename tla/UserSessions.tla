---------------------------- MODULE UserSessions ----------------------------
(***************************************************************************)
(* What a run of the user program promises to whoever started it, from     *)
(* the return codes of types.h: a user sends at most one request, the      *)
(* server takes a request at most once and only if it was sent, and the    *)
(* first line that the user logs about the outcome is final.  It says that *)
(* the server answered, which it does only for a request it took; or that  *)
(* the request timed out, taken or not; or that the server was down, and   *)
(* then the request was not sent at all.                                   *)
(***************************************************************************)
CONSTANT Users

VARIABLES
  outcome,   \* of each user: "none" so far, or what it logged first
  sent,      \* users that have sent their request
  taken      \* users whose request the server has taken

sessionsVars == <<outcome, sent, taken>>

Outcomes == {"none", "answer", "timeout", "down"}

SessionsInit ==
  /\ outcome = [u \in Users |-> "none"]
  /\ sent = {}
  /\ taken = {}

Concludes(u, code) ==
  /\ outcome[u] = "none"
  /\ outcome' = [outcome EXCEPT ![u] = code]
  /\ UNCHANGED <<sent, taken>>

Send(u) ==
  /\ outcome[u] = "none"
  /\ u \notin sent
  /\ sent' = sent \union {u}
  /\ UNCHANGED <<outcome, taken>>

\* The user may have given up by then.
Take(u) ==
  /\ u \in sent \ taken
  /\ taken' = taken \union {u}
  /\ UNCHANGED <<outcome, sent>>

IsAnswered(u) == u \in taken /\ Concludes(u, "answer")
TimesOut(u)   == u \in sent /\ Concludes(u, "timeout")
IsRefused(u)  == u \notin sent /\ Concludes(u, "down")

\* A user that was refused does not send any more: Send asks for no outcome.
SessionsNext ==
  \E u \in Users : Send(u) \/ Take(u) \/ IsAnswered(u) \/ TimesOut(u) \/ IsRefused(u)

SessionsSpec == SessionsInit /\ [][SessionsNext]_sessionsVars
=============================================================================
