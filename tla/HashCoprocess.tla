---------------------------- MODULE HashCoprocess ----------------------------
(***************************************************************************)
(* generateHash: a thread of the server forks a child that runs sha256sum, *)
(* sends it the text through one pipe and reads the hash from another.     *)
(* Bank offices do this at the same time, and fork copies every descriptor *)
(* that the server has open at that moment, also those of other threads'   *)
(* calls.  exec closes none of them.                                       *)
(*                                                                         *)
(* A step is a system call.  The external program sha256sum reads its      *)
(* standard input to the end, writes the hash and exits.                   *)
(***************************************************************************)
EXTENDS Integers, FiniteSets

CONSTANTS
  Callers,    \* threads that call generateHash
  MaxCalls    \* bound: calls that each thread makes

ASSUME HashAssumption == MaxCalls \in Nat \ {0}

Calls == Callers \X (1 .. MaxCalls)
Ends == {"fd1[READ]", "fd1[WRITE]", "fd2[READ]", "fd2[WRITE]"}

VARIABLES
  at,         \* where each thread is in generateHash
  call,       \* number of calls each thread has begun
  serverFds,  \* ends of pipes that the server has open
  childFds,   \* ends of pipes that the child of each call has open
  child,      \* state of the child of each call
  hash        \* calls whose hash lies in the pipe back to the server

serverVars == <<at, call, serverFds>>
childVars == <<childFds, child>>
vars == <<serverVars, childVars, hash>>

Init ==
  /\ at = [t \in Callers |-> "out"]
  /\ call = [t \in Callers |-> 0]
  /\ serverFds = {}
  /\ childFds = [c \in Calls |-> {}]
  /\ child = [c \in Calls |-> "none"]
  /\ hash = {}

Call(t) == <<t, call[t]>>

Goes(t, from, to) == at[t] = from /\ at' = [at EXCEPT ![t] = to]

\* Nobody can write to this end of the pipe any more.
NoWriter(c, end) ==
  /\ <<c, end>> \notin serverFds
  /\ \A d \in Calls : <<c, end>> \notin childFds[d]

-----------------------------------------------------------------------------
(* The thread that calls.                                                  *)

FirstPipe(t) ==
  /\ Goes(t, "out", "pipe")
  /\ call[t] < MaxCalls
  /\ call' = [call EXCEPT ![t] = @ + 1]
  /\ serverFds' = serverFds \union {<<<<t, call'[t]>>, e>> : e \in {"fd1[READ]", "fd1[WRITE]"}}
  /\ UNCHANGED <<childVars, hash>>

SecondPipe(t) ==
  /\ Goes(t, "pipe", "fork")
  /\ serverFds' = serverFds \union {<<Call(t), e>> : e \in {"fd2[READ]", "fd2[WRITE]"}}
  /\ UNCHANGED <<call, childVars, hash>>

Fork(t) ==
  /\ Goes(t, "fork", "closeOut")
  /\ child' = [child EXCEPT ![Call(t)] = "forked"]
  /\ childFds' = [childFds EXCEPT ![Call(t)] = serverFds]
  /\ UNCHANGED <<call, serverFds, hash>>

Close(t, end) == serverFds' = serverFds \ {<<Call(t), end>>}

CloseOut(t) ==
  /\ Goes(t, "closeOut", "closeIn")
  /\ Close(t, "fd2[WRITE]")
  /\ UNCHANGED <<call, childVars, hash>>

CloseIn(t) ==
  /\ Goes(t, "closeIn", "write")
  /\ Close(t, "fd1[READ]")
  /\ UNCHANGED <<call, childVars, hash>>

\* The text fits in the pipe: write() does not block.
WriteText(t) ==
  /\ Goes(t, "write", "closeText")
  /\ UNCHANGED <<call, serverFds, childVars, hash>>

\* Seeded fault: the end that is closed already is closed again.
CloseTextWrongEnd(t) ==
  /\ Goes(t, "closeText", "read")
  /\ Close(t, "fd2[WRITE]")
  /\ UNCHANGED <<call, childVars, hash>>

CloseText(t) ==
  /\ Goes(t, "closeText", "read")
  /\ Close(t, "fd1[WRITE]")
  /\ UNCHANGED <<call, childVars, hash>>

ReadHash(t) ==
  /\ Goes(t, "read", "closeHash")
  /\ Call(t) \in hash \/ NoWriter(Call(t), "fd2[WRITE]")
  /\ hash' = hash \ {Call(t)}
  /\ UNCHANGED <<call, serverFds, childVars>>

\* Seeded fault: the end that the hash was read from stays open.
CloseHashForgotten(t) ==
  /\ Goes(t, "closeHash", "out")
  /\ UNCHANGED <<call, serverFds, childVars, hash>>

CloseHash(t) ==
  /\ Goes(t, "closeHash", "out")
  /\ Close(t, "fd2[READ]")
  /\ UNCHANGED <<call, childVars, hash>>

-----------------------------------------------------------------------------
(* The child.  It closes the two ends of its own call that it does not     *)
(* need; dup2 leaves the others open.                                      *)

Becomes(c, from, to) == child[c] = from /\ child' = [child EXCEPT ![c] = to]

\* Seeded fault: the child keeps the write end of its own input.
ChildClosesOne(c) ==
  /\ Becomes(c, "forked", "sha256sum")
  /\ childFds' = [childFds EXCEPT ![c] = @ \ {<<c, "fd2[READ]">>}]
  /\ UNCHANGED <<serverVars, hash>>

ChildCloses(c) ==
  /\ Becomes(c, "forked", "sha256sum")
  /\ childFds' = [childFds EXCEPT ![c] = @ \ {<<c, "fd2[READ]">>, <<c, "fd1[WRITE]">>}]
  /\ UNCHANGED <<serverVars, hash>>

\* sha256sum has seen the end of its input.
Sha256sum(c) ==
  /\ Becomes(c, "sha256sum", "written")
  /\ NoWriter(c, "fd1[WRITE]")
  /\ hash' = hash \union {c}
  /\ UNCHANGED <<serverVars, childFds>>

ChildExits(c) ==
  /\ Becomes(c, "written", "exited")
  /\ childFds' = [childFds EXCEPT ![c] = {}]
  /\ UNCHANGED <<serverVars, hash>>

-----------------------------------------------------------------------------
InCall(t) ==
  \/ SecondPipe(t) \/ Fork(t) \/ CloseOut(t) \/ CloseIn(t) \/ WriteText(t)
  \/ CloseText(t) \/ ReadHash(t) \/ CloseHash(t)

InChild(c) == ChildCloses(c) \/ Sha256sum(c) \/ ChildExits(c)

AllReturned ==
  /\ \A t \in Callers : at[t] = "out" /\ call[t] = MaxCalls
  /\ UNCHANGED vars

Next ==
  \/ \E t \in Callers : FirstPipe(t) \/ InCall(t)
  \/ \E c \in Calls : InChild(c)
  \/ AllReturned

\* A thread in the middle of a call and a child go on when they can.
Fairness ==
  /\ \A t \in Callers : WF_vars(InCall(t))
  /\ \A c \in Calls : WF_vars(InChild(c))

Spec == Init /\ [][Next]_vars
FairSpec == Spec /\ Fairness

-----------------------------------------------------------------------------
(* Properties.                                                             *)

\* The server keeps no descriptor of a call that has returned, in whatever
\* order the calls overlap: no number of logins uses its descriptors up.
NoDescriptorLeak ==
  \A c \in Calls, e \in Ends : <<c, e>> \in serverFds => c[2] = call[c[1]] /\ at[c[1]] # "out"

\* The ends that the server may have open for a thread at this place.
EndsOpenAt(place) ==
  CASE place = "out"                   -> {}
    [] place = "pipe"                  -> {"fd1[READ]", "fd1[WRITE]"}
    [] place \in {"fork", "closeOut"}  -> Ends
    [] place = "closeIn"               -> Ends \ {"fd2[WRITE]"}
    [] place \in {"write", "closeText"} -> {"fd1[WRITE]", "fd2[READ]"}
    [] place \in {"read", "closeHash"} -> {"fd2[READ]"}

Places == {"out", "pipe", "fork", "closeOut", "closeIn", "write", "closeText", "read",
           "closeHash"}

\* Every descriptor of the server belongs to the present call of some thread,
\* which has not come to the step that closes it: the inductive form of
\* NoDescriptorLeak, and the type of the state it speaks of.
DescriptorInv ==
  /\ at \in [Callers -> Places]
  /\ call \in [Callers -> 0 .. MaxCalls]
  /\ \A d \in serverFds :
       \E t \in Callers : \E e \in EndsOpenAt(at[t]) : d = <<Call(t), e>>

\* The child of another call holds the input of call c open.
HeldOpen(c) == \E d \in Calls : d # c /\ <<c, "fd1[WRITE]">> \in childFds[d]

\* A call returns if no other call forks while its own pipe to the child is
\* open in the server.
UndisturbedCallReturns ==
  \A t \in Callers :
    [](\A c \in Calls : c[1] = t => ~HeldOpen(c)) => (at[t] # "out" ~> at[t] = "out")

\* README.md:2: bank offices avoid deadlocks: every call returns.
EveryCallReturns == \A t \in Callers : at[t] # "out" ~> at[t] = "out"
=============================================================================
