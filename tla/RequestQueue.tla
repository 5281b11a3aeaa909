---------------------------- MODULE RequestQueue ----------------------------
(***************************************************************************)
(* How a request reaches a bank office, and how the offices are stopped:   *)
(* the main thread's loop over the server's FIFO, the circular queue, the  *)
(* two semaphores around it, the loop of the bank offices, and the         *)
(* shutdown (the drain loop of readRequestServer and closeBankOffices).    *)
(* What an office does with its request is one step here ("process");      *)
(* module BankServer opens it up.                                          *)
(*                                                                         *)
(* A step of a thread goes from one blocking or synchronising call to the  *)
(* next.  The sections under queueLock are straight-line code, so each is  *)
(* one step.  Accesses to serverDown and itemsNo outside the lock are      *)
(* steps of their own.                                                     *)
(***************************************************************************)
EXTENDS SopeTypes

CONSTANTS
  BankOfficesNo,   \* number of bank offices, and of slots of the queue
  Messages,        \* what users may write to the server's FIFO
  Garbage,         \* what the uninitialised struct on main's stack may hold
  MaxUnderflow     \* bound: itemsNo is followed down to -MaxUnderflow

ASSUME QueueAssumption ==
  /\ BankOfficesNo \in Nat \ {0}
  /\ Messages \subseteq tlv_request
  /\ Garbage \subseteq tlv_request
  /\ MaxUnderflow \in Nat

Offices == 1 .. BankOfficesNo
Slots == 0 .. BankOfficesNo - 1

VARIABLES
  main,        \* where the main thread is
  n,           \* result of main's last read(), 0 at end of file
  request,     \* the one struct on main's stack that every message is read into
  incoming,    \* the message whose type has been read, its value still in the FIFO
  requests,    \* the slots of the queue: "unset" or "request" (main's struct)
  read_p, write_p, itemsNo,
  notFull, notEmpty,
  serverDown,
  posted,      \* how many offices closeBankOffices has woken up
  office,      \* where each office's thread is
  held,        \* the request pointer of each office
  crashed      \* an office dereferenced a slot that was never written

mainVars   == <<main, n, request, incoming, posted>>
queueVars  == <<requests, read_p, write_p, itemsNo>>
semVars    == <<notFull, notEmpty>>
officeVars == <<office, held>>
vars == <<mainVars, queueVars, semVars, officeVars, serverDown, crashed>>

MainSteps == {"open", "loop", "type", "value", "waitNotFull", "write", "post",
              "drain", "drainWait", "drainPost", "close", "join", "done"}
OfficeSteps == {"waitNotEmpty", "check", "read", "post", "process", "exited"}

\* Seeded fault: the index does not wrap around.
NextSlotUnwrapped(p) == p + 1

NextSlot(p) == (p + 1) % BankOfficesNo

\* The process has not been killed.
Running == ~crashed

MainGoes(from, to) == Running /\ main = from /\ main' = to
OfficeGoes(o, from, to) ==
  Running /\ office[o] = from /\ office' = [office EXCEPT ![o] = to]

\* The semaphores (synch.c).
waitNotFull  == notFull > 0 /\ notFull' = notFull - 1
waitNotEmpty == notEmpty > 0 /\ notEmpty' = notEmpty - 1
postNotFull  == notFull' = notFull + 1
postNotEmpty == notEmpty' = notEmpty + 1

-----------------------------------------------------------------------------
(* initServer, up to the first openFifo.  The heap block of the queue is   *)
(* fresh, so the indices, which createQueue does not set, start at 0.      *)

createQueue ==
  /\ requests = [s \in Slots |-> "unset"]
  /\ read_p = 0
  /\ write_p = 0
  /\ itemsNo = 0

\* Seeded fault: one slot more than the queue has.
initSynchOneTooMany ==
  /\ notFull = BankOfficesNo + 1
  /\ notEmpty = 0

initSynch ==
  /\ notFull = BankOfficesNo
  /\ notEmpty = 0

createBankOffices ==
  /\ office = [o \in Offices |-> "waitNotEmpty"]
  /\ held = [o \in Offices |-> "own"]

Init ==
  /\ createQueue
  /\ initSynch
  /\ createBankOffices
  /\ main = "open"
  /\ n = 0
  /\ request \in Garbage
  /\ incoming = request
  /\ posted = 0
  /\ serverDown = FALSE
  /\ crashed = FALSE

-----------------------------------------------------------------------------
(* The main thread: openFifo, readRequestServer, processRequestServer.     *)

\* open() returns once some user opens the FIFO for writing.
OpenFifo ==
  /\ MainGoes("open", "loop")
  /\ UNCHANGED <<n, request, incoming, posted, queueVars, semVars, officeVars,
                 serverDown, crashed>>

\* Seeded fault: main leaves its loop although the FIFO is not at its end.
LoopTestFlagOnly ==
  /\ MainGoes("loop", IF ~serverDown THEN "type" ELSE "drain")
  /\ UNCHANGED <<n, request, incoming, posted, queueVars, semVars, officeVars,
                 serverDown, crashed>>

LoopTest ==
  /\ MainGoes("loop", IF ~serverDown \/ n # 0 THEN "type" ELSE "drain")
  /\ UNCHANGED <<n, request, incoming, posted, queueVars, semVars, officeVars,
                 serverDown, crashed>>

\* The first read() of a message stores its type straight into request.
ReadType(m) ==
  /\ MainGoes("type", "value")
  /\ n' = 1
  /\ request' = [request EXCEPT !.type = m.type]
  /\ incoming' = m
  /\ UNCHANGED <<posted, queueVars, semVars, officeVars, serverDown, crashed>>

\* The last writer closed the FIFO: main closes it and opens it again.
ReadEOF ==
  /\ MainGoes("type", "open")
  /\ n' = 0
  /\ UNCHANGED <<request, incoming, posted, queueVars, semVars, officeVars,
                 serverDown, crashed>>

ReadValue ==
  /\ MainGoes("value", "waitNotFull")
  /\ request' = [request EXCEPT !.value = ValueRead(request.value, incoming)]
  /\ UNCHANGED <<n, incoming, posted, queueVars, semVars, officeVars,
                 serverDown, crashed>>

WaitNotFull ==
  /\ MainGoes("waitNotFull", "write")
  /\ waitNotFull
  /\ UNCHANGED <<n, request, incoming, posted, queueVars, notEmpty, officeVars,
                 serverDown, crashed>>

\* Seeded fault: the write index stays behind.
writeRequestInPlace ==
  /\ requests' = [requests EXCEPT ![write_p] = "request"]
  /\ itemsNo' = itemsNo + 1
  /\ UNCHANGED <<read_p, write_p>>

writeRequest ==
  /\ requests' = [requests EXCEPT ![write_p] = "request"]
  /\ write_p' = NextSlot(write_p)
  /\ itemsNo' = itemsNo + 1
  /\ UNCHANGED read_p

WriteRequest ==
  /\ MainGoes("write", "post")
  /\ writeRequest
  /\ UNCHANGED <<n, request, incoming, posted, semVars, officeVars, serverDown,
                 crashed>>

PostNotEmpty ==
  /\ MainGoes("post", "loop")
  /\ postNotEmpty
  /\ UNCHANGED <<n, request, incoming, posted, queueVars, notFull, officeVars,
                 serverDown, crashed>>

-----------------------------------------------------------------------------
(* Shutdown: the drain loop and then, from exit(), closeBankOffices.       *)

DrainTest ==
  /\ MainGoes("drain", IF itemsNo # 0 THEN "drainWait" ELSE "close")
  /\ UNCHANGED <<n, request, incoming, posted, queueVars, semVars, officeVars,
                 serverDown, crashed>>

DrainWait ==
  /\ MainGoes("drainWait", "drainPost")
  /\ waitNotFull
  /\ UNCHANGED <<n, request, incoming, posted, queueVars, notEmpty, officeVars,
                 serverDown, crashed>>

DrainPost ==
  /\ MainGoes("drainPost", "drain")
  /\ postNotEmpty
  /\ UNCHANGED <<n, request, incoming, posted, queueVars, notFull, officeVars,
                 serverDown, crashed>>

\* Seeded fault: the loop of wake-ups ends one too early.
WakeAllButOne ==
  /\ MainGoes("close", IF posted + 1 = BankOfficesNo THEN "join" ELSE "close")
  /\ posted' = posted + 1
  /\ IF posted + 1 = BankOfficesNo THEN UNCHANGED notEmpty ELSE postNotEmpty
  /\ UNCHANGED <<n, request, incoming, queueVars, notFull, officeVars, serverDown,
                 crashed>>

WakeOffice ==
  /\ MainGoes("close", IF posted + 1 = BankOfficesNo THEN "join" ELSE "close")
  /\ posted < BankOfficesNo
  /\ posted' = posted + 1
  /\ postNotEmpty
  /\ UNCHANGED <<n, request, incoming, queueVars, notFull, officeVars, serverDown,
                 crashed>>

\* pthread_join of every office in turn; then the process ends.
JoinOffices ==
  /\ MainGoes("join", "done")
  /\ \A o \in Offices : office[o] = "exited"
  /\ UNCHANGED <<n, request, incoming, posted, queueVars, semVars, officeVars,
                 serverDown, crashed>>

-----------------------------------------------------------------------------
(* The loop of a bank office: runBankOffice.                               *)

WaitNotEmpty(o) ==
  /\ OfficeGoes(o, "waitNotEmpty", "check")
  /\ waitNotEmpty
  /\ UNCHANGED <<mainVars, queueVars, notFull, held, serverDown, crashed>>

\* Seeded fault: a shutdown ends an office although requests are queued.
CheckDownFlagOnly(o) ==
  /\ OfficeGoes(o, "check", IF serverDown THEN "exited" ELSE "read")
  /\ UNCHANGED <<mainVars, queueVars, semVars, held, serverDown, crashed>>

CheckDown(o) ==
  /\ OfficeGoes(o, "check", IF serverDown /\ itemsNo = 0 THEN "exited" ELSE "read")
  /\ UNCHANGED <<mainVars, queueVars, semVars, held, serverDown, crashed>>

readRequest(o) ==
  /\ held' = [held EXCEPT ![o] = requests[read_p]]
  /\ read_p' = NextSlot(read_p)
  /\ itemsNo' = itemsNo - 1
  /\ UNCHANGED <<requests, write_p>>

\* The line after readRequest dereferences the pointer it got.
ReadRequest(o) ==
  /\ OfficeGoes(o, "read", "post")
  /\ itemsNo > -MaxUnderflow
  /\ readRequest(o)
  /\ crashed' = (requests[read_p] = "unset")
  /\ UNCHANGED <<mainVars, semVars, serverDown>>

\* Seeded fault: the slot is not given back.
PostNotFullForgotten(o) ==
  /\ OfficeGoes(o, "post", "process")
  /\ UNCHANGED <<mainVars, queueVars, semVars, held, serverDown, crashed>>

PostNotFull(o) ==
  /\ OfficeGoes(o, "post", "process")
  /\ postNotFull
  /\ UNCHANGED <<mainVars, queueVars, notEmpty, held, serverDown, crashed>>

\* The office sets serverDown while it processes a shutdown request.
OPShutDown(o) ==
  /\ Running
  /\ office[o] = "process"
  /\ serverDown' = TRUE
  /\ UNCHANGED <<mainVars, queueVars, semVars, officeVars, crashed>>

\* processRequest and sendReply are over.
FinishRequest(o) ==
  /\ OfficeGoes(o, "process", "waitNotEmpty")
  /\ UNCHANGED <<mainVars, queueVars, semVars, held, serverDown, crashed>>

-----------------------------------------------------------------------------
MainStep ==
  \/ LoopTest \/ ReadValue \/ WaitNotFull \/ WriteRequest \/ PostNotEmpty
  \/ DrainTest \/ DrainWait \/ DrainPost \/ WakeOffice \/ JoinOffices

\* What users do to the server's FIFO.
UserStep == OpenFifo \/ ReadEOF \/ \E m \in Messages : ReadType(m)

LoopStep(o) ==
  WaitNotEmpty(o) \/ CheckDown(o) \/ ReadRequest(o) \/ PostNotFull(o)

\* The process has exited, or was killed by the bad dereference.
Stopped ==
  /\ main = "done" \/ crashed
  /\ UNCHANGED vars

Next ==
  \/ MainStep
  \/ UserStep
  \/ \E o \in Offices : LoopStep(o) \/ OPShutDown(o) \/ FinishRequest(o)
  \/ Stopped

(***************************************************************************)
(* Every thread that can take a step eventually does: nothing else is      *)
(* assumed of the scheduler.  Users need not do anything, and a shutdown   *)
(* need not be requested.                                                  *)
(***************************************************************************)
Fairness ==
  /\ WF_vars(MainStep)
  /\ \A o \in Offices : WF_vars(LoopStep(o) \/ FinishRequest(o))

Spec == Init /\ [][Next]_vars
FairSpec == Spec /\ Fairness
-----------------------------------------------------------------------------
(* Properties.                                                             *)

\* Types of the state.  In particular the indices stay inside the queue.
TypeOK ==
  /\ main \in MainSteps
  /\ n \in {0, 1}
  /\ request \in tlv_request
  /\ incoming \in tlv_request
  /\ requests \in [Slots -> {"unset", "request"}]
  /\ read_p \in Slots
  /\ write_p \in Slots
  /\ itemsNo \in Int
  /\ notFull \in Nat
  /\ notEmpty \in Nat
  /\ serverDown \in BOOLEAN
  /\ posted \in 0 .. BankOfficesNo
  /\ office \in [Offices -> OfficeSteps]
  /\ held \in [Offices -> {"own", "unset", "request"}]
  /\ crashed \in BOOLEAN

\* The main thread has not left the loop of readRequestServer.
Serving == main \in {"open", "loop", "type", "value", "waitNotFull", "write", "post"}

OfficesAt(steps) == Cardinality({o \in Offices : office[o] \in steps})
MainAt(step) == IF main = step THEN 1 ELSE 0

\* Every slot of the queue is free, about to be written, occupied, or read and
\* not yet given back.
SlotBalance ==
  Serving => notFull + MainAt("write") + itemsNo + OfficesAt({"post"}) = BankOfficesNo

\* Every request in the queue has one wake-up: posted, about to be posted, or
\* taken by an office that has not read its request yet.
TokenBalance ==
  Serving => notEmpty + MainAt("post") + OfficesAt({"check", "read"}) = itemsNo

\* Slot s lies between the read and the write index.
Occupied(s) ==
  \/ read_p <= s /\ s < read_p + itemsNo
  \/ s + BankOfficesNo < read_p + itemsNo

\* The queue is a ring: the write index is itemsNo slots ahead of the read
\* index, and every slot in between has been written.
Ring ==
  Serving =>
    /\ write_p = read_p + itemsNo \/ write_p = read_p + itemsNo - BankOfficesNo
    /\ \A s \in Slots : Occupied(s) => requests[s] = "request"

\* While the server serves, the queue holds between 0 and BankOfficesNo
\* requests (queue.h: size is the "maximum size of the queue"), so main never
\* overwrites a slot that no office has read.
QueueNeverOverruns == Serving => itemsNo \in 0 .. BankOfficesNo

\* While the server serves no office leaves its loop, even when a shutdown has
\* been accepted: whoever is woken up finds a request (runBankOffice's test of
\* serverDown and itemsNo, made without the queue's lock, never ends an office
\* early), and the request pointer it reads is one that was written.
NoOfficeLeavesEarly ==
  Serving => /\ ~crashed
             /\ \A o \in Offices :
                  /\ office[o] # "exited"
                  /\ office[o] \in {"check", "read"} => itemsNo > 0
                  /\ office[o] = "read" => requests[read_p] = "request"

\* The inductive invariant that the two properties above rest on.
NobodyLeft == Serving => ~crashed /\ \A o \in Offices : office[o] # "exited"

QueueInv == TypeOK /\ SlotBalance /\ TokenBalance /\ Ring /\ NobodyLeft

\* A message that main has read from the FIFO gets into the queue, whatever
\* the offices are doing: main waits for a slot but not for ever.
ProducerProgress == main = "waitNotFull" ~> main = "write"

\* Every slot that holds a request is read by some office, also when a shutdown
\* is accepted or main leaves its loop before the office gets there.
EveryRequestRead == \A s \in Slots : Occupied(s) ~> ~Occupied(s)

\* When main finds the queue empty after a shutdown, closeBankOffices wakes
\* every office and joins all of them.
CleanTermination ==
  [](main # "drainWait") => (main = "close" ~> main = "done")
=============================================================================
