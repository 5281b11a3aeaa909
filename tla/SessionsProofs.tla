---------------------------- MODULE SessionsProofs ----------------------------
(***************************************************************************)
(* Proofs about Sessions, for any number of users and offices, any command *)
(* lines and any limits.                                                   *)
(***************************************************************************)
EXTENDS Sessions, RequestQueueProofs

-----------------------------------------------------------------------------
(* Types.                                                                  *)

\* How many lines a user has logged at most: its own thread logs at the step
\* before "delete" or "refused", its timer when it takes the exit.
LinesOfThread(u) == IF user[u] \in {"delete", "finished", "refused"} THEN 1 ELSE 0
LinesOfTimer(u) == IF ending[u] = "no" THEN 0 ELSE 1
LogBound == \A u \in Pids : Len(ulog[u]) <= LinesOfThread(u) + LinesOfTimer(u)

\* What a user sends is its own request.
OwnRequests == \A u \in Pids : \A m \in sending[u] : m.value.header.pid = u

TypesInv == SystemTypeOK /\ LogBound /\ OwnRequests

LEMMA RequestIsOwn ==
  ASSUME NEW line, NEW memory, NEW u, NEW m \in RequestsOf(line, memory, u)
  PROVE  m.value.header.pid = u
<1> DEFINE options == parse_args(line, memory)
<1>1. m \in RequestsFor(options, u)
  BY DEF RequestsOf
<1>2. QED
  BY <1>1 DEF RequestsFor, createAccountRequest, createBalanceRequest, createTransferRequest,
              createShutDownRequest, Request

LEMMA OutcomesAre == Promise!Outcomes = {"none", "answer", "timeout", "down"}
BY DEF Promise!Outcomes

\* A line more in the log of a user.
LEMMA LogGrows ==
  ASSUME NEW log \in Seq(Promise!Outcomes), NEW c \in Promise!Outcomes
  PROVE  /\ Append(log, c) \in Seq(Promise!Outcomes)
         /\ Len(Append(log, c)) = Len(log) + 1
OBVIOUS

LEMMA TypesInit == SessionsInitial => TypesInv
<1> SUFFICES ASSUME SessionsInitial PROVE TypesInv
  OBVIOUS
<1>1. SystemTypeOK
  <2>1. /\ user \in [Pids -> UserSteps]
        /\ ending \in [Pids -> EndingSteps]
        /\ sending \in [Pids -> SUBSET Messages]
    BY DEF SessionsInitial, UserSteps, EndingSteps
  <2>2. /\ code \in [Pids -> Promise!Outcomes]
        /\ ulog \in [Pids -> Seq(Promise!Outcomes)]
        /\ \A u \in Pids : Len(ulog[u]) <= 2
    BY OutcomesAre DEF SessionsInitial
  <2>3. replyFd \in [Pids -> BOOLEAN] /\ killed \in BOOLEAN
    BY Zenon DEF SessionsInitial
  <2>4. replies \in [Pids -> Nat] /\ fifo \in Seq(Messages) /\ taken \subseteq Pids
    BY DEF SessionsInitial
  <2>5. mode \in {"rw", "r", "absent"} /\ fifoFd \in {"closed", "blocked", "open"}
    BY DEF SessionsInitial
  <2>6. stage \in [Offices -> Stages] /\ fdReply \in [Offices -> Pids \union {Nobody}]
    BY DEF SessionsInitial, Stages
  <2>7. QED
    BY <2>1, <2>2, <2>3, <2>4, <2>5, <2>6 DEF SystemTypeOK
<1>2. LogBound /\ OwnRequests
  BY DEF SessionsInitial, LogBound, OwnRequests, LinesOfThread, LinesOfTimer
<1>3. QED
  BY <1>1, <1>2 DEF TypesInv

LEMMA FifoType ==
  ASSUME fifo \in Seq(Messages), UNCHANGED fifo \/ \E W, r : fifo' = KeptBy(W, r)
  PROVE  fifo' \in Seq(Messages)
<1>1. ASSUME NEW W, NEW r PROVE KeptBy(W, r) \in Seq(Messages)
  BY DEF KeptBy
<1>2. QED
  BY <1>1

LEMMA RepliesType ==
  ASSUME replies \in [Pids -> Nat], NEW u \in Pids,
         \/ UNCHANGED replies
         \/ replies' = [replies EXCEPT ![u] = 0]
         \/ replies[u] > 0 /\ replies' = [replies EXCEPT ![u] = @ - 1]
         \/ replies' = [replies EXCEPT ![u] = @ + 1]
  PROVE  replies' \in [Pids -> Nat]
OBVIOUS

\* A user goes to one of its places or stays.
LEMMA UserMoves ==
  ASSUME NEW u \in Pids,
         createClient(u) \/ UserThread(u) \/ thread_handler(u) \/ ExitHandlers(u)
  PROVE  UNCHANGED user \/ \E to \in UserSteps : user' = [user EXCEPT ![u] = to]
<1>1. CASE createClient(u)
  BY <1>1 DEF createClient, UserSteps
<1>2. CASE thread_handler(u) \/ ExitHandlers(u)
  BY <1>2 DEF thread_handler, ExitHandlers, closeReplyFifo, deleteReplyFifo, EndProcess
<1>3. CASE UserThread(u)
  <2>1. \/ \E to \in {"open", "refused"} : UserGoes(u, "args", to)
        \/ \E to \in {"write", "opening", "refused"} : UserGoes(u, "open", to)
        \/ \E to \in {"arm", "killed"} : UserGoes(u, "write", to)
        \/ UserGoes(u, "arm", "armed")
        \/ \E to \in {"openReply", "read"} : UserGoes(u, "armed", to)
        \/ UserGoes(u, "read", "log") \/ UserGoes(u, "log", "delete")
        \/ UserGoes(u, "delete", "finished")
    BY <1>3 DEF UserThread, BuildRequest, Quit, OpenRequestFifo, BlockInOpen, ServerDown,
                sendRequest, BrokenPipe, timer_settime, openReplyFifo, readReply, LogReply, Finish
  <2>2. QED
    BY <2>1 DEF UserGoes, UserSteps
<1>4. QED
  BY <1>1, <1>2, <1>3

\* The steps of a user keep the types.
LEMMA UserKeepsTypes ==
  ASSUME TypesInv, NEW u \in Pids,
         createClient(u) \/ UserThread(u) \/ thread_handler(u) \/ ExitHandlers(u)
  PROVE  TypesInv'
<1>1. user' \in [Pids -> UserSteps]
  BY UserMoves DEF TypesInv, SystemTypeOK
<1> USE DEF createClient, UserThread, BuildRequest, OpenRequestFifo, BlockInOpen, ServerDown,
            sendRequest, BrokenPipe, timer_settime, openReplyFifo, readReply, LogReply, Finish,
            thread_handler, ExitHandlers, closeReplyFifo, deleteReplyFifo, EndProcess,
            UserGoes, Quit
<1>2. ending' \in [Pids -> EndingSteps]
  BY DEF TypesInv, SystemTypeOK, EndingSteps
<1>3. sending' \in [Pids -> SUBSET Messages] /\ OwnRequests'
  <2>1. CASE UNCHANGED sending
    BY <2>1 DEF TypesInv, SystemTypeOK, OwnRequests
  <2>2. ASSUME NEW line \in CommandLines[u], NEW memory \in init_options,
               sending' = [sending EXCEPT ![u] = RequestsOf(line, memory, u)]
        PROVE  sending' \in [Pids -> SUBSET Messages] /\ OwnRequests'
    <3>1. RequestsOf(line, memory, u) \in SUBSET Messages
      BY SessionsAssumption
    <3>2. \A m \in RequestsOf(line, memory, u) : m.value.header.pid = u
      BY RequestIsOwn
    <3>3. QED
      BY <2>2, <3>1, <3>2 DEF TypesInv, SystemTypeOK, OwnRequests
  <2>3. QED
    BY <2>1, <2>2
<1>4. code' \in [Pids -> Promise!Outcomes]
  BY OutcomesAre DEF TypesInv, SystemTypeOK
<1>5. ulog' \in [Pids -> Seq(Promise!Outcomes)]
  <2>1. CASE UNCHANGED ulog
    BY <2>1 DEF TypesInv, SystemTypeOK
  <2>2. CASE \E c \in Promise!Outcomes : ulog' = [ulog EXCEPT ![u] = Append(@, c)]
    BY <2>2, LogGrows DEF TypesInv, SystemTypeOK
  <2>3. QED
    BY <2>1, <2>2, OutcomesAre DEF TypesInv, SystemTypeOK
<1>6. LogBound'
  <2>1. \A v \in Pids : v # u => UNCHANGED <<Len(ulog[v]), LinesOfThread(v), LinesOfTimer(v)>>
    <3>1. \A v \in Pids : v # u => UNCHANGED ulog[v]
      BY DEF TypesInv, SystemTypeOK
    <3>2. \A v \in Pids : v # u => UNCHANGED user[v]
      BY DEF TypesInv, SystemTypeOK
    <3>3. \A v \in Pids : v # u => UNCHANGED ending[v]
      BY DEF TypesInv, SystemTypeOK
    <3>4. QED
      BY <3>1, <3>2, <3>3 DEF LinesOfThread, LinesOfTimer
  <2>2. CASE ServerDown(u) \/ LogReply(u) \/ thread_handler(u)
    <3>1. Len(ulog'[u]) = Len(ulog[u]) + 1
      BY <2>2, OutcomesAre, LogGrows DEF TypesInv, SystemTypeOK
    <3>2. LinesOfThread(u)' + LinesOfTimer(u)' >= LinesOfThread(u) + LinesOfTimer(u) + 1
      BY <2>2 DEF TypesInv, SystemTypeOK, LinesOfThread, LinesOfTimer
    <3>3. QED
      BY <2>1, <3>1, <3>2 DEF TypesInv, LogBound, LinesOfThread, LinesOfTimer
  <2>3. CASE ~(ServerDown(u) \/ LogReply(u) \/ thread_handler(u))
    <3>1. UNCHANGED ulog
      BY <2>3
    <3>2. LinesOfThread(u)' + LinesOfTimer(u)' >= LinesOfThread(u) + LinesOfTimer(u)
      <4>1. user[u] \in {"delete", "finished", "refused"} =>
              user'[u] \in {"delete", "finished", "refused"}
        BY DEF TypesInv, SystemTypeOK
      <4>2. ending[u] # "no" => ending'[u] # "no"
        BY DEF TypesInv, SystemTypeOK
      <4>3. QED
        BY <4>1, <4>2 DEF LinesOfThread, LinesOfTimer
    <3>3. QED
      BY <2>1, <3>1, <3>2 DEF TypesInv, LogBound, LinesOfThread, LinesOfTimer
  <2>4. QED
    BY <2>2, <2>3
<1>7. replyFd' \in [Pids -> BOOLEAN]
  BY Zenon DEF TypesInv, SystemTypeOK
<1>8. replies' \in [Pids -> Nat]
  BY RepliesType DEF TypesInv, SystemTypeOK
<1>9. fifoFd' \in {"closed", "blocked", "open"} /\ mode' \in {"rw", "r", "absent"}
  BY DEF TypesInv, SystemTypeOK, fifoVars
<1>10. fifo' \in Seq(Messages)
  <2>1. CASE sendRequest(u)
    BY <2>1 DEF TypesInv, SystemTypeOK
  <2>2. CASE UNCHANGED fifo \/ \E W, r : fifo' = KeptBy(W, r)
    BY <2>2, FifoType DEF TypesInv, SystemTypeOK
  <2>3. QED
    BY <2>1, <2>2 DEF fifoVars
<1>11. stage' \in [Offices -> Stages] /\ fdReply' \in [Offices -> Pids \union {Nobody}]
  BY DEF TypesInv, SystemTypeOK, replyVars, Stages
<1>12. taken' \subseteq Pids
  BY DEF TypesInv, SystemTypeOK
<1>13. killed' \in BOOLEAN
  BY Zenon DEF TypesInv, SystemTypeOK
<1>14. \A v \in Pids : Len(ulog'[v]) <= 2
  <2>1. \A v \in Pids : Len(ulog'[v]) \in Nat
    BY <1>5
  <2>2. QED
    BY <1>6, <2>1 DEF LogBound, LinesOfThread, LinesOfTimer
<1>15. QED
  BY <1>1, <1>2, <1>3, <1>4, <1>5, <1>6, <1>7, <1>8, <1>9, <1>10, <1>11, <1>12, <1>13, <1>14
     DEF TypesInv, SystemTypeOK

\* The users that the server's open() calls wake up have not logged more.
LEMMA ServerKeepsLogBound ==
  ASSUME TypesInv, UNCHANGED <<ending, ulog>>,
         \A u \in Pids : LinesOfThread(u)' = LinesOfThread(u)
  PROVE  LogBound'
BY DEF TypesInv, LogBound, LinesOfTimer

LEMMA MainKeepsTypes == TypesInv /\ ServerMain => TypesInv'
<1> SUFFICES ASSUME TypesInv, ServerMain PROVE TypesInv'
  OBVIOUS
<1> USE DEF ServerMain, MainThread, openFifo, ReadRequestType, ReadNothing, CloseFifo,
            sessionVars, userVars, fifoVars, replyVars
<1>1. UNCHANGED <<ending, sending, code, ulog, replyFd, replies, stage, fdReply, killed>>
  OBVIOUS
<1>2. user' \in [Pids -> UserSteps] /\ \A u \in Pids : LinesOfThread(u)' = LinesOfThread(u)
  BY DEF TypesInv, SystemTypeOK, UserSteps, LinesOfThread
<1>3. mode' \in {"rw", "r", "absent"} /\ fifoFd' \in {"closed", "blocked", "open"}
  BY DEF TypesInv, SystemTypeOK, closeServerFifofd, closeServerFifo
<1>4. fifo' \in Seq(Messages) /\ taken' \subseteq Pids
  <2>1. CASE ReadRequestType
    <3>1. fifo # <<>> /\ fifo \in Seq(Messages)
      BY <2>1 DEF TypesInv, SystemTypeOK
    <3>2. Head(fifo) \in Messages /\ Tail(fifo) \in Seq(Messages)
      BY <3>1
    <3>3. Head(fifo).value.header.pid \in Pids
      BY <3>2, QueueAssumption DEF tlv_request, req_value, req_header
    <3>4. QED
      BY <2>1, <3>2, <3>3 DEF TypesInv, SystemTypeOK
  <2>2. CASE ~ReadRequestType
    <3>1. UNCHANGED taken /\ (UNCHANGED fifo \/ \E W, r : fifo' = KeptBy(W, r))
      BY <2>2
    <3>2. QED
      BY <3>1, FifoType DEF TypesInv, SystemTypeOK
  <2>3. QED
    BY <2>1, <2>2
<1>5. LogBound' /\ OwnRequests'
  BY <1>1, <1>2, ServerKeepsLogBound DEF TypesInv, OwnRequests
<1>6. QED
  BY <1>1, <1>2, <1>3, <1>4, <1>5 DEF TypesInv, SystemTypeOK

LEMMA AddresseeType == TypeOK => addressee \in Pids
BY DEF TypeOK, tlv_request, req_value, req_header, addressee

LEMMA OfficeKeepsTypes ==
  ASSUME TypeOK, TypesInv, NEW o \in Offices, OfficeThread(o)
  PROVE  TypesInv'
<1> USE DEF OfficeThread, OfficeLoop, Process, FinishWork, ChmodFifo, SetServerDown, UserDown,
            openFifoReply, sendReply, SigPipe, StageGoes, sessionVars, userVars, fifoVars, replyVars
<1>1. UNCHANGED <<ending, sending, code, ulog, replyFd, fifoFd, fifo, taken>>
  OBVIOUS
<1>2. user' \in [Pids -> UserSteps] /\ \A u \in Pids : LinesOfThread(u)' = LinesOfThread(u)
  BY DEF TypesInv, SystemTypeOK, UserSteps, LinesOfThread
<1>3. mode' \in {"rw", "r", "absent"} /\ stage' \in [Offices -> Stages]
  BY DEF TypesInv, SystemTypeOK, Stages
<1>4. fdReply' \in [Offices -> Pids \union {Nobody}]
  <2>1. CASE openFifoReply(o)
    <3>1. addressee \in Pids
      BY AddresseeType
    <3>2. QED
      BY <2>1, <3>1 DEF TypesInv, SystemTypeOK
  <2>2. CASE UNCHANGED fdReply \/ fdReply' = [fdReply EXCEPT ![o] = Nobody]
    BY <2>2 DEF TypesInv, SystemTypeOK
  <2>3. QED
    BY <2>1, <2>2
<1>5. replies' \in [Pids -> Nat]
  <2>1. CASE fdReply[o] \in Pids
    BY <2>1, RepliesType DEF TypesInv, SystemTypeOK
  <2>2. CASE fdReply[o] \notin Pids
    <3>1. replies' = replies
      BY <2>2 DEF TypesInv, SystemTypeOK
    <3>2. QED
      BY <3>1 DEF TypesInv, SystemTypeOK
  <2>3. QED
    BY <2>1, <2>2
<1>6. killed' \in BOOLEAN
  BY Zenon DEF TypesInv, SystemTypeOK
<1>7. LogBound' /\ OwnRequests'
  BY <1>1, <1>2, ServerKeepsLogBound DEF TypesInv, OwnRequests
<1>8. QED
  BY <1>1, <1>2, <1>3, <1>4, <1>5, <1>6, <1>7 DEF TypesInv, SystemTypeOK

LEMMA SystemKeepsTypes == TypeOK /\ TypesInv /\ [SystemNext]_allVars => TypesInv'
<1> SUFFICES ASSUME TypeOK, TypesInv, [SystemNext]_allVars PROVE TypesInv'
  OBVIOUS
<1>1. CASE \E u \in Pids : createClient(u) \/ UserThread(u) \/ thread_handler(u) \/ ExitHandlers(u)
  BY <1>1, UserKeepsTypes
<1>2. CASE ServerMain
  BY <1>2, MainKeepsTypes
<1>3. CASE \E o \in Offices : OfficeThread(o)
  BY <1>3, OfficeKeepsTypes
<1>4. CASE AllStopped \/ UNCHANGED allVars
  <2>1. UNCHANGED <<user, ending, sending, code, ulog, replyFd, replies, mode, fifoFd, fifo,
                    stage, fdReply, taken, killed>>
    BY <1>4 DEF AllStopped, allVars, sessionVars, userVars, fifoVars, replyVars
  <2>2. QED
    BY <2>1 DEF TypesInv, SystemTypeOK, LogBound, OwnRequests, LinesOfThread, LinesOfTimer
<1>5. QED
  BY <1>1, <1>2, <1>3, <1>4 DEF SystemNext

-----------------------------------------------------------------------------
(* The server of this module is that of RequestQueue.                      *)

\* Steps of the users leave the server's threads alone, but for main's open()
\* of the FIFO, which returns when a user opens the other end.
LEMMA UserKeepsQueue ==
  ASSUME NEW u \in Pids,
         createClient(u) \/ UserThread(u) \/ thread_handler(u) \/ ExitHandlers(u)
  PROVE  UNCHANGED vars \/ OpenFifo
BY DEF createClient, UserThread, BuildRequest, OpenRequestFifo, BlockInOpen, ServerDown,
       sendRequest, BrokenPipe, timer_settime, openReplyFifo, readReply, LogReply, Finish,
       thread_handler, ExitHandlers, closeReplyFifo, deleteReplyFifo, EndProcess

\* What main reads is a message that users may send.
LEMMA ReadsMessage ==
  ASSUME TypesInv, ReadRequestType
  PROVE  Head(fifo) \in Messages /\ ReadType(Head(fifo))
BY DEF TypesInv, SystemTypeOK, ReadRequestType

\* Main's steps at its FIFO.
LEMMA MainKeepsQueue ==
  ASSUME TypesInv, ServerMain
  PROVE  UNCHANGED vars \/ MainStep \/ UserStep
<1>1. CASE ReadRequestType
  BY <1>1, ReadsMessage DEF UserStep
<1>2. CASE MainThread \/ openFifo \/ ReadNothing \/ CloseFifo
  BY <1>2 DEF MainThread, openFifo, ReadNothing, CloseFifo, UserStep
<1>3. QED
  BY <1>1, <1>2 DEF ServerMain

\* Each step of an office is one of its loop, or one that splits up the end of
\* processRequest and sendReply.
LEMMA OfficeKeepsQueue ==
  ASSUME NEW o \in Offices, OfficeThread(o)
  PROVE  UNCHANGED vars \/ LoopStep(o) \/ OPShutDown(o) \/ FinishRequest(o)
BY DEF OfficeThread, OfficeLoop, Process, FinishWork, ChmodFifo, SetServerDown, UserDown,
       openFifoReply, sendReply, SigPipe

LEMMA StepOfQueue == TypesInv /\ [SystemNext]_allVars => [Next]_vars
<1> SUFFICES ASSUME TypesInv, [SystemNext]_allVars PROVE [Next]_vars
  OBVIOUS
<1>1. CASE \E u \in Pids : createClient(u) \/ UserThread(u) \/ thread_handler(u) \/ ExitHandlers(u)
  BY <1>1, UserKeepsQueue DEF Next, UserStep
<1>2. CASE ServerMain
  BY <1>2, MainKeepsQueue DEF Next
<1>3. CASE \E o \in Offices : OfficeThread(o)
  BY <1>3, OfficeKeepsQueue DEF Next
<1>4. CASE AllStopped \/ UNCHANGED allVars
  BY <1>4 DEF AllStopped, allVars
<1>5. QED
  BY <1>1, <1>2, <1>3, <1>4 DEF SystemNext

LEMMA BothTypes == SystemSpec => [](TypeOK /\ TypesInv)
<1>1. SessionsInitial => TypeOK /\ TypesInv
  BY TypeInit, TypesInit DEF SessionsInitial
<1>2. TypeOK /\ [Next]_vars => TypeOK'
  BY TypeStep
<1>3. QED
  BY <1>1, <1>2, StepOfQueue, SystemKeepsTypes, PTL DEF SystemSpec

\* The types of the whole system, users and server: in particular a user logs
\* at most two outcomes, its timer's and its own.
THEOREM SystemTypeCorrect == SystemSpec => []SystemTypeOK
<1>1. TypesInv => SystemTypeOK
  BY DEF TypesInv
<1>2. QED
  BY <1>1, BothTypes, PTL

\* The server that the users see through the FIFOs is that of RequestQueue,
\* wherever users block in open(), time out or are killed.
THEOREM SystemImplementsQueue == SystemSpec => PathOfRequests
<1>1. SessionsInitial => Init
  BY DEF SessionsInitial
<1>2. QED
  BY <1>1, BothTypes, StepOfQueue, PTL DEF SystemSpec, PathOfRequests, Spec

\* So the proof about ring, semaphores and offices holds in the whole system.
THEOREM SystemKeepsQueueInv == SystemSpec => []QueueInv
BY SystemImplementsQueue, QueueInvariant, PTL DEF PathOfRequests

-----------------------------------------------------------------------------
(* The invariant under the promise to the users.                           *)

Pid(m) == m.value.header.pid

\* A request in the FIFO was sent, is not taken yet, and is the only one of its
\* user.
InTransit ==
  \A i \in 1 .. Len(fifo) :
    /\ Pid(fifo[i]) \in Sent \ taken
    /\ \A j \in 1 .. Len(fifo) : i # j => Pid(fifo[i]) # Pid(fifo[j])

\* Before main has read a first request no office is at work; from then on its
\* struct always names a user whose request was taken.
NobodyAtWork ==
  /\ main \in {"open", "loop", "type", "value"}
  /\ notEmpty = 0
  /\ ~serverDown
  /\ \A o \in Offices : office[o] = "waitNotEmpty"
AddresseeTaken == addressee \in taken \/ NobodyAtWork

\* So replies go to such users only.
RepliesToTaken ==
  /\ main = "value" => Pid(incoming) \in taken
  /\ \A o \in Offices : fdReply[o] \in taken \union {Nobody}
  /\ \A u \in Pids : replies[u] > 0 \/ code[u] = "answer" => u \in taken

\* A user has logged nothing before it has sent its request or was refused.
LogAfterSend ==
  \A u \in Pids :
    /\ user[u] \in {"off", "args", "open", "opening", "write"} => ulog[u] = <<>>
    /\ user[u] = "log" => code[u] \in {"answer", "timeout"}

PromiseInv == taken \subseteq Sent /\ InTransit /\ AddresseeTaken /\ RepliesToTaken /\ LogAfterSend

SentSteps == {"arm", "armed", "openReply", "read", "log", "delete", "finished"}

\* Users that have sent their request: more only by sendRequest.
LEMMA UserSends ==
  ASSUME TypesInv, NEW u \in Pids,
         createClient(u) \/ UserThread(u) \/ thread_handler(u) \/ ExitHandlers(u)
  PROVE  \/ sendRequest(u) /\ u \notin Sent /\ Sent' = Sent \union {u}
         \/ ~sendRequest(u) /\ Sent' = Sent
<1>1. /\ user' = [user EXCEPT ![u] = user'[u]]
      /\ user[u] \in SentSteps => user'[u] \in SentSteps
      /\ user[u] \notin SentSteps => user'[u] \notin SentSteps \/ sendRequest(u)
  <2>1. \/ UNCHANGED user
        \/ \E from, to \in UserSteps :
             /\ user[u] = from /\ user' = [user EXCEPT ![u] = to]
             /\ from \in SentSteps => to \in SentSteps
             /\ from \notin SentSteps => to \notin SentSteps \/ sendRequest(u)
    <3>1. CASE createClient(u)
      BY <3>1 DEF createClient, UserSteps, SentSteps
    <3>2. CASE thread_handler(u) \/ ExitHandlers(u)
      BY <3>2 DEF thread_handler, ExitHandlers, closeReplyFifo, deleteReplyFifo, EndProcess,
                  UserSteps, SentSteps
    <3>3. CASE sendRequest(u)
      BY <3>3 DEF sendRequest, UserGoes, UserSteps, SentSteps
    <3>4. CASE UserThread(u) /\ ~sendRequest(u)
      <4>1. \/ \E to \in {"open", "refused"} : UserGoes(u, "args", to)
            \/ \E to \in {"write", "opening", "refused"} : UserGoes(u, "open", to)
            \/ UserGoes(u, "write", "killed") \/ UserGoes(u, "arm", "armed")
            \/ \E to \in {"openReply", "read"} : UserGoes(u, "armed", to)
            \/ UserGoes(u, "read", "log") \/ UserGoes(u, "log", "delete")
            \/ UserGoes(u, "delete", "finished")
        BY <3>4 DEF UserThread, BuildRequest, Quit, OpenRequestFifo, BlockInOpen, ServerDown,
                    BrokenPipe, timer_settime, openReplyFifo, readReply, LogReply, Finish
      <4>2. QED
        BY <4>1 DEF UserGoes, UserSteps, SentSteps
    <3>5. QED
      BY <3>1, <3>2, <3>3, <3>4
  <2>2. QED
    BY <2>1 DEF TypesInv, SystemTypeOK
<1>2. sendRequest(u) => user[u] \notin SentSteps /\ user'[u] \in SentSteps
  BY DEF TypesInv, SystemTypeOK, SentSteps, sendRequest, UserGoes
<1>3. Sent = {v \in Pids : user[v] \in SentSteps} /\ Sent' = {v \in Pids : user'[v] \in SentSteps}
  BY DEF Sent, SentSteps
<1>4. \A v \in Pids : v # u => user'[v] = user[v]
  BY <1>1 DEF TypesInv, SystemTypeOK
<1>5. CASE sendRequest(u)
  BY <1>2, <1>3, <1>4, <1>5
<1>6. CASE ~sendRequest(u)
  BY <1>1, <1>3, <1>4, <1>6
<1>7. QED
  BY <1>5, <1>6

LEMMA ServerSendsNothing ==
  ASSUME TypesInv, ServerMain \/ \E o \in Offices : OfficeThread(o)
  PROVE  Sent' = Sent
<1>1. CASE UNCHANGED user
  BY <1>1 DEF Sent
<1>2. CASE openFifo
  <2>1. \A u \in Pids : user[u] \in SentSteps <=> user'[u] \in SentSteps
    BY <1>2 DEF openFifo, SentSteps
  <2>2. QED
    BY <2>1 DEF Sent, SentSteps
<1>3. ASSUME NEW o \in Offices, openFifoReply(o) PROVE Sent' = Sent
  <2>1. \A u \in Pids : user[u] \in SentSteps <=> user'[u] \in SentSteps
    BY <1>3 DEF openFifoReply, SentSteps, TypesInv, SystemTypeOK
  <2>2. QED
    BY <2>1 DEF Sent, SentSteps
<1>4. CASE ServerMain /\ ~openFifo
  BY <1>1, <1>4 DEF ServerMain, MainThread, ReadRequestType, ReadNothing, CloseFifo,
                    sessionVars, userVars
<1>5. ASSUME NEW o \in Offices, OfficeThread(o), ~openFifoReply(o) PROVE UNCHANGED user
  <2>1. CASE OfficeLoop(o)
    BY <2>1 DEF OfficeLoop, sessionVars, userVars
  <2>2. CASE Process(o)
    BY <1>5, <2>2 DEF Process, FinishWork, ChmodFifo, SetServerDown, UserDown, sendReply,
                      SigPipe, userVars
  <2>3. QED
    BY <1>5, <2>1, <2>2 DEF OfficeThread
<1>6. QED
  BY <1>1, <1>2, <1>3, <1>4, <1>5

\* The first state.
LEMMA PromiseInit == SessionsInitial => PromiseInv
<1> SUFFICES ASSUME SessionsInitial PROVE PromiseInv
  OBVIOUS
<1>1. taken \subseteq Sent /\ InTransit
  BY DEF SessionsInitial, InTransit
<1>2. AddresseeTaken
  BY DEF SessionsInitial, AddresseeTaken, NobodyAtWork, Init, initSynch, createBankOffices
<1>3. RepliesToTaken /\ LogAfterSend
  BY DEF SessionsInitial, RepliesToTaken, LogAfterSend, Init
<1>4. QED
  BY <1>1, <1>2, <1>3 DEF PromiseInv

\* The messages in the FIFO stay apart when one of a new user joins them.
LEMMA InTransitUser ==
  ASSUME TypesInv, PromiseInv, NEW u \in Pids, UNCHANGED taken,
         createClient(u) \/ UserThread(u) \/ thread_handler(u) \/ ExitHandlers(u)
  PROVE  InTransit'
<1>1. CASE sendRequest(u)
  <2>1. PICK m \in sending[u] : fifo' = Append(fifo, m)
    BY <1>1 DEF sendRequest
  <2>2. m \in Messages /\ Pid(m) = u
    BY <2>1 DEF TypesInv, SystemTypeOK, OwnRequests, Pid
  <2>3. u \notin Sent /\ Sent' = Sent \union {u}
    BY <1>1, UserSends
  <2>4. /\ fifo \in Seq(Messages)
        /\ Len(fifo') = Len(fifo) + 1
        /\ fifo'[Len(fifo) + 1] = m
        /\ \A i \in 1 .. Len(fifo) : fifo'[i] = fifo[i]
    BY <2>1, <2>2 DEF TypesInv, SystemTypeOK
  <2>5. u \notin taken /\ \A i \in 1 .. Len(fifo) : Pid(fifo[i]) # u
    BY <2>3 DEF PromiseInv, InTransit
  <2>6. \A i \in 1 .. Len(fifo') : i = Len(fifo) + 1 \/ i \in 1 .. Len(fifo)
    BY <2>4
  <2>7. \A i \in 1 .. Len(fifo') : Pid(fifo'[i]) \in Sent' \ taken
    BY <2>2, <2>3, <2>4, <2>5, <2>6 DEF PromiseInv, InTransit
  <2>8. \A i, j \in 1 .. Len(fifo') : i # j => Pid(fifo'[i]) # Pid(fifo'[j])
    BY <2>2, <2>4, <2>5, <2>6 DEF PromiseInv, InTransit
  <2>9. QED
    BY <2>7, <2>8 DEF InTransit
<1>2. CASE ~sendRequest(u)
  <2>1. Sent' = Sent
    BY <1>2, UserSends
  <2>2. fifo' = fifo \/ fifo' = <<>>
    BY <1>2 DEF createClient, UserThread, BuildRequest, Quit,
         OpenRequestFifo, BlockInOpen, ServerDown, BrokenPipe, timer_settime,
         openReplyFifo, readReply, LogReply, Finish, thread_handler, ExitHandlers,
         closeReplyFifo, deleteReplyFifo, EndProcess, fifoVars, KeptBy
  <2>3. QED
    BY <2>1, <2>2 DEF PromiseInv, InTransit, Pid
<1>3. QED
  BY <1>1, <1>2

LEMMA UserKeepsPromise ==
  ASSUME TypesInv, PromiseInv, NEW u \in Pids,
         createClient(u) \/ UserThread(u) \/ thread_handler(u) \/ ExitHandlers(u)
  PROVE  PromiseInv'
<1> USE DEF createClient, UserThread, BuildRequest, Quit, OpenRequestFifo, BlockInOpen,
         ServerDown, sendRequest, BrokenPipe, timer_settime, openReplyFifo, readReply, LogReply,
         Finish, thread_handler, ExitHandlers, closeReplyFifo, deleteReplyFifo, EndProcess,
         UserGoes
<1>1. UNCHANGED taken
  OBVIOUS
<1>2. taken' \subseteq Sent'
  BY <1>1, UserSends DEF PromiseInv
<1>3. AddresseeTaken'
  <2>1. CASE UNCHANGED vars
    BY <1>1, <2>1 DEF PromiseInv, AddresseeTaken, NobodyAtWork, addressee, vars, mainVars,
                      semVars, officeVars
  <2>2. CASE OpenFifo
    BY <1>1, <2>2 DEF OpenFifo, MainGoes, PromiseInv, AddresseeTaken, NobodyAtWork, addressee,
                      semVars, officeVars
  <2>3. QED
    BY <2>1, <2>2, UserKeepsQueue
<1>4. RepliesToTaken'
  <2>1. (main' = "value" => main = "value") /\ UNCHANGED incoming
    BY UserKeepsQueue DEF OpenFifo, MainGoes, vars, mainVars
  <2>2. UNCHANGED fdReply
    BY DEF replyVars
  <2>3. \A v \in Pids : replies'[v] > 0 \/ code'[v] = "answer" => replies[v] > 0 \/ code[v] = "answer"
    <3>1. \A v \in Pids : v # u => UNCHANGED <<replies[v], code[v]>>
      BY DEF TypesInv, SystemTypeOK
    <3>2. replies'[u] > 0 => replies[u] > 0
      <4>1. CASE readReply(u)
        BY <4>1
      <4>2. CASE ~readReply(u)
        <5>1. replies' = replies \/ replies' = [replies EXCEPT ![u] = 0]
          BY <4>2
        <5>2. QED
          BY <5>1 DEF TypesInv, SystemTypeOK
      <4>3. QED
        BY <4>1, <4>2
    <3>3. code'[u] = "answer" => replies[u] > 0 \/ code[u] = "answer"
      BY DEF TypesInv, SystemTypeOK
    <3>4. QED
      BY <3>1, <3>2, <3>3
  <2>4. QED
    BY <1>1, <2>1, <2>2, <2>3 DEF PromiseInv, RepliesToTaken
<1>5. LogAfterSend'
  <2>1. \A v \in Pids : v # u => UNCHANGED <<user[v], ulog[v], code[v]>>
    BY DEF TypesInv, SystemTypeOK
  <2>2. user'[u] \in {"off", "args", "open", "opening", "write"} =>
          user[u] \in {"off", "args", "open", "opening", "write"} /\ ulog'[u] = ulog[u]
    BY DEF TypesInv, SystemTypeOK
  <2>3. user'[u] = "log" => code'[u] \in {"answer", "timeout"}
    BY DEF TypesInv, SystemTypeOK, PromiseInv, LogAfterSend
  <2>4. QED
    BY <2>1, <2>2, <2>3 DEF PromiseInv, LogAfterSend
<1>6. QED
  BY <1>1, <1>2, <1>3, <1>4, <1>5, InTransitUser DEF PromiseInv

\* Main takes the first message out of the FIFO.
LEMMA InTransitTaken ==
  ASSUME TypesInv, PromiseInv, ReadRequestType, Sent' = Sent
  PROVE  /\ Pid(Head(fifo)) \in Sent \ taken
         /\ taken' = taken \union {Pid(Head(fifo))}
         /\ InTransit'
<1>1. /\ fifo \in Seq(Messages) /\ fifo # <<>>
      /\ fifo' = Tail(fifo) /\ taken' = taken \union {Pid(Head(fifo))}
  BY DEF ReadRequestType, TypesInv, SystemTypeOK, Pid
<1>2. Len(fifo) \in Nat /\ Len(fifo) >= 1 /\ Head(fifo) = fifo[1]
  BY <1>1
<1>3. Len(fifo') = Len(fifo) - 1 /\ \A i \in 1 .. Len(fifo') : fifo'[i] = fifo[i + 1]
  BY <1>1, <1>2
<1>4. \A i \in 1 .. Len(fifo) :
         /\ Pid(fifo[i]) \in Sent \ taken
         /\ \A j \in 1 .. Len(fifo) : i # j => Pid(fifo[i]) # Pid(fifo[j])
  BY DEF PromiseInv, InTransit
<1>5. Pid(Head(fifo)) \in Sent \ taken
  BY <1>2, <1>4
<1>6. ASSUME NEW i \in 1 .. Len(fifo')
      PROVE  /\ Pid(fifo'[i]) \in Sent' \ taken'
             /\ \A j \in 1 .. Len(fifo') : i # j => Pid(fifo'[i]) # Pid(fifo'[j])
  <2>1. i + 1 \in 1 .. Len(fifo) /\ i + 1 # 1 /\ 1 \in 1 .. Len(fifo)
    BY <1>2, <1>3
  <2>2. Pid(fifo[i + 1]) \in Sent \ taken /\ Pid(fifo[i + 1]) # Pid(fifo[1])
    BY <1>4, <2>1
  <2>3. ASSUME NEW j \in 1 .. Len(fifo'), i # j
        PROVE  Pid(fifo[i + 1]) # Pid(fifo[j + 1])
    <3>1. j + 1 \in 1 .. Len(fifo) /\ i + 1 # j + 1
      BY <1>2, <1>3, <2>3
    <3>2. QED
      BY <1>4, <2>1, <3>1
  <2>4. QED
    BY <1>1, <1>2, <1>3, <2>2, <2>3
<1>7. InTransit'
  BY <1>6 DEF InTransit, Pid
<1>8. QED
  BY <1>1, <1>5, <1>7

\* Whatever main does with its struct, it names a user whose request was taken.
LEMMA AddresseeByMain ==
  ASSUME TypeOK, PromiseInv, MainStep \/ UserStep, taken \subseteq taken'
  PROVE  AddresseeTaken'
<1> USE DEF PromiseInv, AddresseeTaken
<1>1. CASE ReadValue
  <2>1. addressee' = Pid(incoming) /\ Pid(incoming) \in taken
    BY <1>1 DEF ReadValue, MainGoes, RepliesToTaken, ValueRead, addressee, Pid, TypeOK, tlv_request
  <2>2. QED
    BY <2>1
<1>2. ASSUME NEW m \in Messages, ReadType(m) PROVE AddresseeTaken'
  <2>1. UNCHANGED addressee
    BY <1>2 DEF ReadType, addressee, TypeOK, tlv_request
  <2>2. QED
    BY <1>2, <2>1 DEF ReadType, MainGoes, NobodyAtWork, semVars, officeVars
<1>3. CASE LoopTest \/ OpenFifo \/ ReadEOF
  BY <1>3 DEF LoopTest, OpenFifo, ReadEOF, MainGoes, NobodyAtWork, addressee, semVars, officeVars
<1>4. CASE \/ WaitNotFull \/ WriteRequest \/ PostNotEmpty
           \/ DrainTest \/ DrainWait \/ DrainPost \/ WakeOffice \/ JoinOffices
  BY <1>4 DEF WaitNotFull, WriteRequest, PostNotEmpty, DrainTest, DrainWait, DrainPost,
              WakeOffice, JoinOffices, MainGoes, NobodyAtWork, addressee
<1>5. QED
  BY <1>1, <1>2, <1>3, <1>4 DEF MainStep, UserStep

LEMMA MainKeepsPromise ==
  ASSUME TypeOK, TypesInv, PromiseInv, ServerMain
  PROVE  PromiseInv'
<1>1. Sent' = Sent
  BY ServerSendsNothing
<1>2. taken \subseteq taken' /\ taken' \subseteq Sent' /\ InTransit'
  <2>1. CASE ReadRequestType
    BY <1>1, <2>1, InTransitTaken DEF PromiseInv
  <2>2. CASE ~ReadRequestType
    <3>1. UNCHANGED taken /\ (fifo' = fifo \/ fifo' = <<>>)
      BY <2>2 DEF ServerMain, MainThread, openFifo, ReadNothing, CloseFifo, KeptBy, sessionVars, fifoVars
    <3>2. QED
      BY <1>1, <3>1 DEF PromiseInv, InTransit, Pid
  <2>3. QED
    BY <2>1, <2>2
<1>3. AddresseeTaken'
  <2>1. CASE UNCHANGED vars
    BY <1>2, <2>1 DEF PromiseInv, AddresseeTaken, NobodyAtWork, addressee, vars, mainVars,
                      semVars, officeVars
  <2>2. CASE MainStep \/ UserStep
    BY <1>2, <2>2, AddresseeByMain
  <2>3. QED
    BY <2>1, <2>2, MainKeepsQueue
<1>4. RepliesToTaken'
  <2>1. UNCHANGED <<fdReply, replies, code>>
    BY DEF ServerMain, MainThread, openFifo, ReadRequestType, ReadNothing, CloseFifo,
           sessionVars, userVars, replyVars
  <2>2. main' = "value" => Pid(incoming)' \in taken'
    <3>1. CASE ReadRequestType
      <4>1. incoming' = Head(fifo)
        BY <3>1 DEF ReadRequestType, ReadType
      <4>2. QED
        BY <1>1, <3>1, <4>1, InTransitTaken DEF Pid
    <3>2. CASE ~ReadRequestType
      <4>1. UNCHANGED incoming /\ (main' = "value" => main = "value")
        BY <3>2 DEF ServerMain, MainThread, MainStep, LoopTest, ReadValue, WaitNotFull,
             WriteRequest, PostNotEmpty, DrainTest, DrainWait, DrainPost, WakeOffice, JoinOffices,
             openFifo, OpenFifo, ReadNothing, ReadEOF, CloseFifo, MainGoes, vars, mainVars
      <4>2. QED
        BY <1>2, <4>1 DEF PromiseInv, RepliesToTaken, Pid
    <3>3. QED
      BY <3>1, <3>2
  <2>3. QED
    BY <1>2, <2>1, <2>2 DEF PromiseInv, RepliesToTaken
<1>5. LogAfterSend'
  <2>1. /\ UNCHANGED <<ulog, code>>
        /\ \A u \in Pids : user'[u] = user[u] \/ (user[u] = "opening" /\ user'[u] = "write")
    BY DEF ServerMain, MainThread, openFifo, ReadRequestType, ReadNothing, CloseFifo,
           sessionVars, userVars, TypesInv, SystemTypeOK
  <2>2. QED
    BY <2>1 DEF PromiseInv, LogAfterSend
<1>6. QED
  BY <1>2, <1>3, <1>4, <1>5 DEF PromiseInv

LEMMA OfficeKeepsPromise ==
  ASSUME TypeOK, TypesInv, PromiseInv, NEW o \in Offices, OfficeThread(o)
  PROVE  PromiseInv'
<1>1. Sent' = Sent
  BY ServerSendsNothing
<1>2. UNCHANGED <<taken, fifo, code, ulog>>
  BY DEF OfficeThread, OfficeLoop, Process, FinishWork, ChmodFifo, SetServerDown, UserDown,
         openFifoReply, sendReply, SigPipe, sessionVars, userVars, fifoVars
<1>3. taken' \subseteq Sent' /\ InTransit'
  BY <1>1, <1>2 DEF PromiseInv, InTransit, Pid
<1>4. AddresseeTaken'
  <2>1. CASE addressee \in taken
    BY <1>2, <2>1, OfficeKeepsQueue
       DEF AddresseeTaken, addressee, vars, mainVars, LoopStep, WaitNotEmpty, CheckDown,
           ReadRequest, PostNotFull, OPShutDown, FinishRequest
  <2>2. CASE NobodyAtWork
    <3>1. UNCHANGED vars
      <4>1. office[o] = "waitNotEmpty" /\ notEmpty = 0
        BY <2>2 DEF NobodyAtWork
      <4>2. ~LoopStep(o)
        BY <4>1 DEF LoopStep, WaitNotEmpty, waitNotEmpty, CheckDown, ReadRequest, PostNotFull,
                    OfficeGoes
      <4>3. ~OPShutDown(o) /\ ~FinishRequest(o)
        BY <4>1 DEF OPShutDown, FinishRequest, OfficeGoes
      <4>4. QED
        BY <4>2, <4>3, OfficeKeepsQueue
    <3>2. QED
      BY <1>2, <2>2, <3>1 DEF AddresseeTaken, NobodyAtWork, vars, mainVars, semVars, officeVars
  <2>3. QED
    BY <2>1, <2>2 DEF PromiseInv, AddresseeTaken
<1>5. RepliesToTaken'
  <2>1. UNCHANGED main /\ UNCHANGED incoming
    BY OfficeKeepsQueue DEF vars, mainVars, LoopStep, WaitNotEmpty, CheckDown, ReadRequest,
                            PostNotFull, OPShutDown, FinishRequest
  <2>2. \A p \in Offices : fdReply'[p] \in taken \union {Nobody}
    <3>1. CASE openFifoReply(o)
      <4>1. addressee \in taken
        BY <3>1 DEF openFifoReply, StageGoes, PromiseInv, AddresseeTaken, NobodyAtWork
      <4>2. QED
        BY <3>1, <4>1 DEF openFifoReply, PromiseInv, RepliesToTaken, TypesInv, SystemTypeOK
    <3>2. CASE ~openFifoReply(o)
      <4>1. fdReply' = fdReply \/ fdReply' = [fdReply EXCEPT ![o] = Nobody]
        BY <3>2 DEF OfficeThread, OfficeLoop, Process, FinishWork, ChmodFifo, SetServerDown,
                    UserDown, sendReply, SigPipe, sessionVars, replyVars
      <4>2. QED
        BY <4>1 DEF PromiseInv, RepliesToTaken, TypesInv, SystemTypeOK
    <3>3. QED
      BY <3>1, <3>2
  <2>3. \A u \in Pids : replies'[u] > 0 => replies[u] > 0 \/ u \in taken
    <3>1. CASE sendReply(o)
      <4>1. fdReply[o] \in taken \union {Nobody}
        BY DEF PromiseInv, RepliesToTaken
      <4>2. \A u \in Pids : u # fdReply[o] => replies'[u] = replies[u]
        BY <3>1 DEF sendReply, TypesInv, SystemTypeOK
      <4>3. QED
        BY <4>1, <4>2, SessionsAssumption
    <3>2. CASE ~sendReply(o)
      BY <3>2 DEF OfficeThread, OfficeLoop, Process, FinishWork, ChmodFifo, SetServerDown,
                  UserDown, openFifoReply, SigPipe, sessionVars, userVars
    <3>3. QED
      BY <3>1, <3>2
  <2>4. QED
    BY <1>2, <2>1, <2>2, <2>3 DEF PromiseInv, RepliesToTaken, Pid
<1>6. LogAfterSend'
  <2>1. \A u \in Pids : user'[u] = user[u] \/ user'[u] = "read"
    BY DEF OfficeThread, OfficeLoop, Process, FinishWork, ChmodFifo, SetServerDown, UserDown,
           openFifoReply, sendReply, SigPipe, sessionVars, userVars, TypesInv, SystemTypeOK
  <2>2. QED
    BY <1>2, <2>1 DEF PromiseInv, LogAfterSend
<1>7. QED
  BY <1>3, <1>4, <1>5, <1>6 DEF PromiseInv

LEMMA SystemKeepsPromise ==
  TypeOK /\ TypesInv /\ PromiseInv /\ [SystemNext]_allVars => PromiseInv'
<1> SUFFICES ASSUME TypeOK, TypesInv, PromiseInv, [SystemNext]_allVars PROVE PromiseInv'
  OBVIOUS
<1>1. CASE \E u \in Pids : createClient(u) \/ UserThread(u) \/ thread_handler(u) \/ ExitHandlers(u)
  BY <1>1, UserKeepsPromise
<1>2. CASE ServerMain
  BY <1>2, MainKeepsPromise
<1>3. CASE \E o \in Offices : OfficeThread(o)
  BY <1>3, OfficeKeepsPromise
<1>4. CASE AllStopped \/ UNCHANGED allVars
  <2>1. /\ UNCHANGED <<user, code, ulog, replies, fifo, fdReply, taken>>
        /\ UNCHANGED <<main, request, incoming, notEmpty, serverDown, office>>
    BY <1>4 DEF AllStopped, allVars, sessionVars, userVars, fifoVars, replyVars, vars, mainVars,
                semVars, officeVars
  <2>2. QED
    BY <2>1 DEF PromiseInv, InTransit, AddresseeTaken, NobodyAtWork, addressee, RepliesToTaken,
                LogAfterSend, Sent, Pid
<1>5. QED
  BY <1>1, <1>2, <1>3, <1>4 DEF SystemNext

LEMMA PromiseInvariant == SystemSpec => [](TypeOK /\ TypesInv /\ PromiseInv)
BY PromiseInit, BothTypes, SystemKeepsPromise, PTL DEF SystemSpec

-----------------------------------------------------------------------------
(* The refinement: each step is one of UserSessions, or changes nothing    *)
(* that UserSessions sees.                                                 *)

Outcome == [u \in Pids |-> IF ulog[u] = <<>> THEN "none" ELSE ulog[u][1]]
PromiseStep == [Promise!SessionsNext]_(<<Outcome, Sent, taken>>)

\* A line more in the log of u is its outcome if it is the first.
LEMMA OutcomeLogged ==
  ASSUME TypesInv, NEW u \in Pids, NEW c \in Promise!Outcomes,
         ulog' = [ulog EXCEPT ![u] = Append(@, c)]
  PROVE  Outcome' = IF ulog[u] = <<>> THEN [Outcome EXCEPT ![u] = c] ELSE Outcome
<1>1. ulog \in [Pids -> Seq(Promise!Outcomes)]
  BY DEF TypesInv, SystemTypeOK
<1>2. /\ ulog'[u] = Append(ulog[u], c) /\ ulog'[u] # <<>>
      /\ \A v \in Pids : v # u => ulog'[v] = ulog[v]
  BY <1>1
<1>3. ulog'[u][1] = IF ulog[u] = <<>> THEN c ELSE ulog[u][1]
  BY <1>1, <1>2
<1>4. QED
  BY <1>2, <1>3 DEF Outcome

\* A step of a user that logs nothing and is not the write of its request.
LEMMA QuietUser ==
  ASSUME NEW u \in Pids,
         createClient(u) \/ UserThread(u) \/ thread_handler(u) \/ ExitHandlers(u),
         ~ServerDown(u), ~LogReply(u), ~thread_handler(u)
  PROVE  UNCHANGED <<ulog, taken>>
BY DEF createClient, UserThread, BuildRequest, OpenRequestFifo, BlockInOpen, sendRequest,
       BrokenPipe, timer_settime, openReplyFifo, readReply, Finish, ExitHandlers,
       closeReplyFifo, deleteReplyFifo, EndProcess

LEMMA UserRefines ==
  ASSUME TypesInv, PromiseInv, NEW u \in Pids,
         createClient(u) \/ UserThread(u) \/ thread_handler(u) \/ ExitHandlers(u)
  PROVE  PromiseStep
<1>0. /\ \A c \in {"answer", "timeout", "down"} : c \in Promise!Outcomes
      /\ \A v \in Pids : Outcome[v] = "none" <=> (ulog[v] = <<>> \/ ulog[v][1] = "none")
      /\ ulog[u] = <<>> => Outcome[u] = "none"
  BY OutcomesAre DEF Outcome
<1>1. CASE sendRequest(u)
  <2>1. u \notin Sent /\ Sent' = Sent \union {u}
    BY <1>1, UserSends
  <2>2. Outcome[u] = "none" /\ UNCHANGED <<ulog, taken>>
    BY <1>0, <1>1 DEF sendRequest, UserGoes, PromiseInv, LogAfterSend
  <2>3. Outcome' = Outcome
    BY <2>2 DEF Outcome
  <2>4. Promise!Send(u)
    BY <2>1, <2>2, <2>3 DEF Promise!Send, Outcome
  <2>5. QED
    BY <2>4 DEF PromiseStep, Promise!SessionsNext
<1>2. CASE ServerDown(u)
  <2>1. u \notin Sent /\ Sent' = Sent /\ UNCHANGED taken /\ Outcome[u] = "none"
    BY <1>0, <1>2, UserSends
       DEF ServerDown, sendRequest, Quit, UserGoes, Sent, PromiseInv, LogAfterSend
  <2>2. Outcome' = [Outcome EXCEPT ![u] = "down"]
    BY <1>0, <1>2, OutcomeLogged DEF ServerDown, Quit, UserGoes, PromiseInv, LogAfterSend
  <2>3. Promise!IsRefused(u)
    BY <2>1, <2>2 DEF Promise!IsRefused, Promise!Concludes, Outcome
  <2>4. QED
    BY <2>3 DEF PromiseStep, Promise!SessionsNext
<1>3. CASE LogReply(u)
  <2>1. u \in Sent /\ Sent' = Sent /\ UNCHANGED taken
    BY <1>3, UserSends DEF LogReply, sendRequest, UserGoes, Sent
  <2>2. code[u] \in {"answer", "timeout"} /\ (code[u] = "answer" => u \in taken)
    BY <1>3 DEF LogReply, UserGoes, PromiseInv, LogAfterSend, RepliesToTaken
  <2>3. Outcome' = IF ulog[u] = <<>> THEN [Outcome EXCEPT ![u] = code[u]] ELSE Outcome
    BY <1>0, <1>3, <2>2, OutcomeLogged DEF LogReply
  <2>4. CASE ulog[u] = <<>>
    <3>1. Promise!IsAnswered(u) \/ Promise!TimesOut(u)
      BY <1>0, <2>1, <2>2, <2>3, <2>4
         DEF Promise!IsAnswered, Promise!TimesOut, Promise!Concludes, Outcome
    <3>2. QED
      BY <3>1 DEF PromiseStep, Promise!SessionsNext
  <2>5. CASE ulog[u] # <<>>
    BY <2>1, <2>3, <2>5 DEF PromiseStep
  <2>6. QED
    BY <2>4, <2>5
<1>4. CASE thread_handler(u)
  <2>1. u \in Sent /\ Sent' = Sent /\ UNCHANGED taken
    <3>1. ~sendRequest(u) /\ u \in Sent
      BY <1>4 DEF thread_handler, sendRequest, UserGoes, Sent
    <3>2. QED
      BY <1>4, <3>1, UserSends DEF thread_handler
  <2>2. Outcome' = IF ulog[u] = <<>> THEN [Outcome EXCEPT ![u] = "timeout"] ELSE Outcome
    BY <1>0, <1>4, OutcomeLogged DEF thread_handler
  <2>3. CASE ulog[u] = <<>>
    <3>1. Promise!TimesOut(u)
      BY <1>0, <2>1, <2>2, <2>3 DEF Promise!TimesOut, Promise!Concludes, Outcome
    <3>2. QED
      BY <3>1 DEF PromiseStep, Promise!SessionsNext
  <2>4. CASE ulog[u] # <<>>
    BY <2>1, <2>2, <2>4 DEF PromiseStep
  <2>5. QED
    BY <2>3, <2>4
<1>5. CASE ~(sendRequest(u) \/ ServerDown(u) \/ LogReply(u) \/ thread_handler(u))
  <2>1. UNCHANGED <<ulog, taken>> /\ Sent' = Sent
    BY <1>5, QuietUser, UserSends
  <2>2. QED
    BY <2>1 DEF PromiseStep, Outcome
<1>6. QED
  BY <1>1, <1>2, <1>3, <1>4, <1>5

LEMMA MainRefines ==
  ASSUME TypesInv, PromiseInv, ServerMain
  PROVE  PromiseStep
<1>1. Sent' = Sent
  BY ServerSendsNothing
<1>2. UNCHANGED ulog
  BY DEF ServerMain, MainThread, openFifo, ReadRequestType, ReadNothing, CloseFifo,
         sessionVars, userVars
<1>3. Outcome' = Outcome
  BY <1>2 DEF Outcome
<1>4. CASE ReadRequestType
  <2>1. PICK u \in Sent \ taken : taken' = taken \union {u}
    BY <1>1, <1>4, InTransitTaken
  <2>2. u \in Pids
    BY DEF Sent
  <2>3. Promise!Take(u)
    BY <1>1, <1>3, <2>1 DEF Promise!Take, Outcome
  <2>4. QED
    BY <2>2, <2>3 DEF PromiseStep, Promise!SessionsNext
<1>5. CASE ~ReadRequestType
  <2>1. UNCHANGED taken
    BY <1>5 DEF ServerMain, MainThread, openFifo, ReadNothing, CloseFifo, sessionVars
  <2>2. QED
    BY <1>1, <1>3, <2>1 DEF PromiseStep
<1>6. QED
  BY <1>4, <1>5

LEMMA OfficeRefines ==
  ASSUME TypesInv, NEW o \in Offices, OfficeThread(o)
  PROVE  PromiseStep
<1>1. Sent' = Sent
  BY ServerSendsNothing
<1>2. UNCHANGED <<ulog, taken>>
  BY DEF OfficeThread, OfficeLoop, Process, FinishWork, ChmodFifo, SetServerDown, UserDown,
         openFifoReply, sendReply, SigPipe, sessionVars, userVars
<1>3. QED
  BY <1>1, <1>2 DEF PromiseStep, Outcome

\* The sessions of the users implement UserSessions, for any number of users
\* and offices: a request is taken at most once and only if it was sent, nobody
\* is answered whose request was not taken, and who is told that the server is
\* down has sent nothing.
THEOREM SessionsImplementPromise == SystemSpec => SessionsKeepPromise
<1>1. SessionsInitial => Promise!SessionsInit
  <2> SUFFICES ASSUME SessionsInitial PROVE Promise!SessionsInit
    OBVIOUS
  <2>1. Sent = {} /\ taken = {}
    BY DEF SessionsInitial, Sent
  <2>2. QED
    BY <2>1 DEF SessionsInitial, Promise!SessionsInit
<1>2. TypesInv /\ PromiseInv /\ [SystemNext]_allVars => [Promise!SessionsNext]_(Promise!sessionsVars)
  <2> SUFFICES ASSUME TypesInv, PromiseInv, [SystemNext]_allVars PROVE PromiseStep
    BY DEF PromiseStep, Promise!sessionsVars, Outcome
  <2>1. CASE \E u \in Pids : createClient(u) \/ UserThread(u) \/ thread_handler(u) \/ ExitHandlers(u)
    BY <2>1, UserRefines
  <2>2. CASE ServerMain
    BY <2>2, MainRefines
  <2>3. CASE \E o \in Offices : OfficeThread(o)
    BY <2>3, OfficeRefines
  <2>4. CASE AllStopped \/ UNCHANGED allVars
    BY <2>4 DEF AllStopped, allVars, sessionVars, userVars, PromiseStep, Outcome, Sent
  <2>5. QED
    BY <2>1, <2>2, <2>3, <2>4 DEF SystemNext
<1>3. QED
  BY <1>1, <1>2, PromiseInvariant, PTL DEF SystemSpec, SessionsKeepPromise, Promise!SessionsSpec

-----------------------------------------------------------------------------
(* The end of the server.                                                  *)

\* When main's last read() was the end of file, everybody whose request it has
\* taken is gone; and main leaves its loop in no other case.
ClosedInv ==
  /\ n = 0 => \A u \in taken : ~Alive(u)
  /\ ~Serving => n = 0

\* Whoever has sent a request and is gone does not come back.
LEMMA GoneForGood ==
  ASSUME TypesInv, NEW v \in Sent, ~Alive(v), [SystemNext]_allVars
  PROVE  ~Alive(v)'
<1>0. v \in Pids /\ user[v] \in SentSteps /\ user[v] # "off" /\ ending[v] = "gone"
  BY DEF Sent, SentSteps, Alive
<1>1. ASSUME NEW u \in Pids,
             createClient(u) \/ UserThread(u) \/ thread_handler(u) \/ ExitHandlers(u)
      PROVE  ending'[v] = "gone"
  BY <1>0, <1>1 DEF TypesInv, SystemTypeOK, createClient, UserThread, BuildRequest, Quit,
     OpenRequestFifo, BlockInOpen, ServerDown, sendRequest, BrokenPipe, timer_settime,
     openReplyFifo, readReply, LogReply, Finish, thread_handler, ExitHandlers,
     closeReplyFifo, deleteReplyFifo, EndProcess, UserGoes, Alive
<1>2. ServerMain => UNCHANGED ending
  BY DEF ServerMain, MainThread, openFifo, ReadRequestType, ReadNothing, CloseFifo,
                    sessionVars, userVars
<1>3. (\E o \in Offices : OfficeThread(o)) => UNCHANGED ending
  BY DEF OfficeThread, OfficeLoop, Process, FinishWork, ChmodFifo, SetServerDown,
                    UserDown, openFifoReply, sendReply, SigPipe, sessionVars, userVars
<1>4. AllStopped \/ UNCHANGED allVars => UNCHANGED ending
  BY DEF AllStopped, allVars, sessionVars, userVars
<1>5. ending'[v] = "gone"
  BY <1>0, <1>1, <1>2, <1>3, <1>4 DEF SystemNext
<1>6. QED
  BY <1>5 DEF Alive

LEMMA SystemKeepsClosed ==
  TypesInv /\ PromiseInv /\ ClosedInv /\ [SystemNext]_allVars => ClosedInv'
<1> SUFFICES ASSUME TypesInv, PromiseInv, ClosedInv, [SystemNext]_allVars PROVE ClosedInv'
  OBVIOUS
<1>0. taken \subseteq Sent
  BY DEF PromiseInv
<1>1. ASSUME UNCHANGED <<taken, n>>, ~Serving' => ~Serving \/ n = 0 PROVE ClosedInv'
  BY <1>0, <1>1, GoneForGood DEF ClosedInv
<1>2. CASE \E u \in Pids : createClient(u) \/ UserThread(u) \/ thread_handler(u) \/ ExitHandlers(u)
  <2>1. UNCHANGED taken
    BY <1>2 DEF createClient, UserThread, BuildRequest, OpenRequestFifo, BlockInOpen, ServerDown,
       sendRequest, BrokenPipe, timer_settime, openReplyFifo, readReply, LogReply, Finish,
       thread_handler, ExitHandlers, closeReplyFifo, deleteReplyFifo, EndProcess
  <2>2. UNCHANGED n /\ (~Serving' => ~Serving)
    BY <1>2, UserKeepsQueue DEF OpenFifo, MainGoes, Serving, vars, mainVars
  <2>3. QED
    BY <1>1, <2>1, <2>2
<1>3. CASE ReadRequestType
  BY <1>3 DEF ReadRequestType, ReadType, MainGoes, ClosedInv, Serving
<1>4. CASE ReadNothing
  <2>1. \A u \in taken : ~Alive(u)
    BY <1>0, <1>4 DEF ReadNothing, Writers, HoldsFifo, Sent
  <2>2. UNCHANGED <<taken, user, ending>> /\ main' = "open"
    BY <1>4 DEF ReadNothing, ReadEOF, MainGoes, sessionVars, userVars
  <2>3. QED
    BY <2>1, <2>2 DEF ClosedInv, Alive, Serving
<1>5. CASE MainThread \/ openFifo \/ CloseFifo
  <2>1. UNCHANGED <<taken, n>>
    BY <1>5 DEF MainThread, MainStep, LoopTest, ReadValue, WaitNotFull, WriteRequest,
       PostNotEmpty, DrainTest, DrainWait, DrainPost, WakeOffice, JoinOffices,
       openFifo, OpenFifo, CloseFifo, vars, mainVars
  <2>2. ~Serving' => ~Serving \/ n = 0
    BY <1>5 DEF MainThread, MainStep, LoopTest, ReadValue, WaitNotFull, WriteRequest,
       PostNotEmpty, DrainTest, DrainWait, DrainPost, WakeOffice, JoinOffices,
       openFifo, OpenFifo, CloseFifo, MainGoes, Serving, vars, mainVars
  <2>3. QED
    BY <1>1, <2>1, <2>2
<1>6. CASE \E o \in Offices : OfficeThread(o)
  <2>1. UNCHANGED taken
    BY <1>6 DEF OfficeThread, OfficeLoop, Process, FinishWork, ChmodFifo, SetServerDown,
                UserDown, openFifoReply, sendReply, SigPipe, sessionVars
  <2>2. UNCHANGED n /\ UNCHANGED main
    BY <1>6, OfficeKeepsQueue DEF vars, mainVars, LoopStep, WaitNotEmpty, CheckDown,
                                  ReadRequest, PostNotFull, OPShutDown, FinishRequest
  <2>3. QED
    BY <1>1, <2>1, <2>2 DEF Serving
<1>7. CASE AllStopped \/ UNCHANGED allVars
  BY <1>1, <1>7 DEF AllStopped, allVars, sessionVars, vars, mainVars, Serving
<1>8. QED
  BY <1>2, <1>3, <1>4, <1>5, <1>6, <1>7 DEF SystemNext, ServerMain

\* Main leaves its loop, and the server begins to end, only when no user whose
\* request it has read is alive: for any number of users, whenever the shutdown
\* is accepted and whoever opens the FIFO while main closes and opens it.
THEOREM ShutDownAbandonsNobody == SystemSpec => []ExitAbandonsNobody
<1>1. SessionsInitial => ClosedInv
  BY DEF SessionsInitial, Init, ClosedInv, Serving
<1>2. ClosedInv => ExitAbandonsNobody
  BY DEF ClosedInv, ExitAbandonsNobody
<1>3. QED
  BY <1>1, <1>2, PromiseInvariant, SystemKeepsClosed, PTL DEF SystemSpec
-----------------------------------------------------------------------------
(* What users send.                                                        *)

\* Whatever a user types, and whatever its fresh memory holds for the words
\* that are not numbers: the program sends its own request, with a target and
\* an amount within the limits if it has any, and one that fits the accounts
\* table of the server unless it names the one id too many that validateArgs
\* lets pass.  So what the server's modules assume of Messages is what the
\* user program (user.c:193-299, options.c) sees to.
THEOREM UsersSendProperRequests ==
  ASSUME NEW u \in Pids, NEW line, line[1] \in Nat \union {NotANumber},
         NEW memory \in init_options, NEW m \in RequestsOf(line, memory, u)
  PROVE  /\ SentByUsers(m)
         /\ m.value.header.pid = u
         /\ m.value.header.account_id # MAX_BANK_ACCOUNTS => m \in tlv_request
<1> DEFINE options == parse_args(line, memory)
           id == options.account_id
<1>1. m \in RequestsFor(options, u) /\ validateArgs(options)
  BY DEF RequestsOf
<1>2. id \in Nat /\ id <= MAX_BANK_ACCOUNTS /\ options.password \in Passwords
  <2>1. memory.account_id \in Nat
    BY ArgumentsAssumption DEF init_options
  <2>2. id \in Nat
    BY <2>1 DEF parse_args, parse_int
  <2>3. QED
    BY <1>1, <2>2 DEF validateArgs
<1>3. /\ m.value.header = [pid |-> u, account_id |-> id, password |-> options.password]
      /\ m.type \in op_type
  BY <1>1 DEF RequestsFor, createAccountRequest, createBalanceRequest, createTransferRequest,
              createShutDownRequest, Request, op_type
<1>4. SentByUsers(m)
  BY <1>1 DEF RequestsFor, createAccountRequest, createBalanceRequest, createTransferRequest,
              createShutDownRequest, Request, SentByUsers
<1>5. m.value.arguments \in req_arguments
  <2>1. 0 \in AccountIds /\ 0 \in Nat
    BY LimitsAssumption DEF AccountIds
  <2>2. \A i : TargetAccepted(i) => i \in AccountIds
    BY DEF TargetAccepted
  <2>3. \A i : AmountAccepted(i) => i \in Nat
    BY LimitsAssumption DEF AmountAccepted
  <2>4. QED
    BY <1>1, <1>2, <2>1, <2>2, <2>3
       DEF RequestsFor, createAccountRequest, createBalanceRequest, createTransferRequest,
           createShutDownRequest, Request, req_arguments
<1>6. m = [type |-> m.type, value |-> [header |-> m.value.header, arguments |-> m.value.arguments]]
  BY <1>1 DEF RequestsFor, createAccountRequest, createBalanceRequest, createTransferRequest,
              createShutDownRequest, Request
<1>7. ASSUME id # MAX_BANK_ACCOUNTS PROVE m \in tlv_request
  <2>1. id \in AccountIds
    BY <1>2, <1>7, LimitsAssumption DEF AccountIds
  <2>2. m.value.header \in req_header
    BY <1>2, <1>3, <2>1 DEF req_header
  <2>3. [header |-> m.value.header, arguments |-> m.value.arguments] \in req_value
    BY <1>5, <2>2 DEF req_value
  <2>4. QED
    BY <1>3, <1>6, <2>3 DEF tlv_request
<1>8. QED
  BY <1>3, <1>4, <1>7
=============================================================================
