------------------------------ MODULE Sessions ------------------------------
(***************************************************************************)
(* User programs and the server, joined by FIFOs: the server's FIFO with   *)
(* its permission bits, its readers and writers and what is buffered in    *)
(* it, the life of each user (user.c) with its 30 second timer, the FIFO   *)
(* on which a user awaits its reply, sendReply of the offices, and what    *)
(* main's exit does to the server's FIFO.                                  *)
(*                                                                         *)
(* The module takes RequestQueue as it is, says when main's open() and     *)
(* read()s return, and splits the end of an office's work into the calls   *)
(* of sendReply.  What the bank answers does not matter here.              *)
(*                                                                         *)
(* A step runs from one system call to the next.  Every process id is used *)
(* by one user, nobody runs as root, and the server is up before the first *)
(* user comes; FIFOs behave as in Linux, where a process that is blocked   *)
(* in open() counts as a reader or writer already.                         *)
(***************************************************************************)
EXTENDS RequestQueue, UserArguments

CONSTANTS
  CommandLines,    \* what each user may be started with
  Nobody           \* addressee of an office that has no reply FIFO open

ASSUME SessionsAssumption ==
  /\ Nobody \notin Pids
  /\ \A u \in Pids : \A line \in CommandLines[u], memory \in init_options :
       RequestsOf(line, memory, u) \subseteq Messages

VARIABLES
  \* The users.
  user,        \* where the main thread of each user program is
  ending,      \* how far exit() has come in it
  sending,     \* the request it builds and sends, in a set
  code,        \* return code in its reply struct
  ulog,        \* the outcomes it has logged
  replyFd,     \* it has its reply FIFO open for reading
  replies,     \* number of replies buffered in that FIFO
  \* The server's FIFO.
  mode,        \* "rw", "r" (after chmod 0444) or "absent"
  fifoFd,      \* main's end: "closed", "blocked" in open(), or "open"
  fifo,        \* the requests buffered in it
  \* The offices.
  stage,       \* where an office is inside processRequest and sendReply
  fdReply,     \* whose reply FIFO it has open, or is opening
  \* History and failure.
  taken,       \* users whose request main has read
  killed       \* a write to a FIFO without reader has killed the server

userVars    == <<user, ending, sending, code, ulog, replyFd, replies>>
fifoVars    == <<mode, fifoFd, fifo>>
replyVars   == <<stage, fdReply>>
sessionVars == <<userVars, fifoVars, replyVars, taken, killed>>
allVars     == <<vars, sessionVars>>

UserSteps == {"off", "args", "open", "opening", "write", "arm", "armed", "openReply",
              "read", "log", "delete", "refused", "finished", "killed"}
EndingSteps == {"no", "close", "unlink", "end", "gone"}
Stages == {"work", "down", "send", "opening", "write"}

SessionsInitial ==
  /\ Init
  /\ user = [u \in Pids |-> "off"]
  /\ ending = [u \in Pids |-> "no"]
  /\ sending = [u \in Pids |-> {}]
  /\ code = [u \in Pids |-> "none"]
  /\ ulog = [u \in Pids |-> <<>>]
  /\ replyFd = [u \in Pids |-> FALSE]
  /\ replies = [u \in Pids |-> 0]
  /\ mode = "rw"
  /\ fifoFd = "closed"
  /\ fifo = <<>>
  /\ stage = [o \in Offices |-> "work"]
  /\ fdReply = [o \in Offices |-> Nobody]
  /\ taken = {}
  /\ killed = FALSE

ServerUp == Running /\ ~killed /\ main # "done"

\* A process whose exit() has not ended it, or a signal.
Alive(u) == user[u] # "off" /\ ending[u] # "gone"

\* The path of a user's reply FIFO: exit() unlinks it, a signal does not.
ReplyFifoExists(u) ==
  /\ user[u] # "off"
  /\ ending[u] \in {"no", "close", "unlink"} \/ user[u] = "killed"

\* The user's end of the server's FIFO is closed by the end of the process only.
HoldsFifo(u) == Alive(u) /\ user[u] \in {"opening", "write", "arm", "armed", "openReply",
                                         "read", "log", "delete", "finished"}
Writers == {u \in Pids : HoldsFifo(u)}

HasReader == ServerUp /\ fifoFd # "closed"

\* What is buffered is lost when neither end is open any more.
KeptBy(writers, reader) == IF writers = {} /\ ~reader THEN <<>> ELSE fifo

UserGoes(u, from, to) ==
  /\ Alive(u) /\ user[u] = from
  /\ user' = [user EXCEPT ![u] = to]

-----------------------------------------------------------------------------
(* The main thread of a user.                                              *)

\* createClient: log, reply FIFO, exit handlers; then the timer, not yet armed.
createClient(u) ==
  /\ user[u] = "off"
  /\ user' = [user EXCEPT ![u] = "args"]
  /\ UNCHANGED <<vars, ending, sending, code, ulog, replyFd, replies, fifoVars,
                 replyVars, taken, killed>>

\* exit() before the reply FIFO is open: its handlers start with the unlink.
Quit(u, from) ==
  /\ UserGoes(u, from, "refused")
  /\ ending' = [ending EXCEPT ![u] = "unlink"]

\* parse_args and the switch; then logRequest.
BuildRequest(u, line, memory) ==
  LET request_ == RequestsOf(line, memory, u) IN
  /\ user[u] = "args"
  /\ IF request_ # {} THEN UserGoes(u, "args", "open") /\ UNCHANGED ending
                      ELSE Quit(u, "args")
  /\ sending' = [sending EXCEPT ![u] = request_]
  /\ UNCHANGED <<vars, code, ulog, replyFd, replies, fifoVars, replyVars, taken, killed>>

\* open() of a FIFO that main has open, or is itself blocked in opening: then
\* main's open() returns too.
OpenRequestFifo(u) ==
  /\ mode = "rw" /\ HasReader
  /\ UserGoes(u, "open", "write")
  /\ IF fifoFd = "blocked" THEN OpenFifo ELSE UNCHANGED vars
  /\ fifoFd' = "open"
  /\ UNCHANGED <<ending, sending, code, ulog, replyFd, replies, mode, fifo, replyVars,
                 taken, killed>>

\* Nobody has the FIFO open for reading: the user blocks.  No timer runs yet.
BlockInOpen(u) ==
  /\ mode = "rw" /\ ~HasReader
  /\ UserGoes(u, "open", "opening")
  /\ UNCHANGED <<vars, ending, sending, code, ulog, replyFd, replies, fifoVars,
                 replyVars, taken, killed>>

\* Seeded fault: a user that found the server down goes on all the same.
ServerDownGoesOn(u) ==
  /\ mode # "rw"
  /\ UserGoes(u, "open", "arm")
  /\ code' = [code EXCEPT ![u] = "down"]
  /\ ulog' = [ulog EXCEPT ![u] = Append(@, "down")]
  /\ UNCHANGED <<vars, ending, sending, replyFd, replies, fifoVars, replyVars, taken, killed>>

\* fillServerDownReply: open() fails with EACCES or ENOENT.
ServerDown(u) ==
  /\ mode # "rw"
  /\ Quit(u, "open")
  /\ code' = [code EXCEPT ![u] = "down"]
  /\ ulog' = [ulog EXCEPT ![u] = Append(@, "down")]
  /\ UNCHANGED <<vars, sending, replyFd, replies, fifoVars, replyVars, taken, killed>>

\* The write() of sendRequest, when the pipe has a reader.
sendRequest(u) ==
  /\ HasReader
  /\ UserGoes(u, "write", "arm")
  /\ \E m \in sending[u] : fifo' = Append(fifo, m)
  /\ UNCHANGED <<vars, ending, sending, code, ulog, replyFd, replies, mode, fifoFd,
                 replyVars, taken, killed>>

\* Main has closed the FIFO in the meantime: SIGPIPE ends the user at once,
\* without its exit handlers.
BrokenPipe(u) ==
  /\ ~HasReader
  /\ UserGoes(u, "write", "killed")
  /\ ending' = [ending EXCEPT ![u] = "gone"]
  /\ fifo' = KeptBy(Writers \ {u}, FALSE)
  /\ UNCHANGED <<vars, sending, code, ulog, replyFd, replies, mode, fifoFd, replyVars,
                 taken, killed>>

timer_settime(u) ==
  /\ UserGoes(u, "arm", "armed")
  /\ UNCHANGED <<vars, ending, sending, code, ulog, replyFd, replies, fifoVars,
                 replyVars, taken, killed>>

\* Offices blocked in opening the reply FIFO of u.
BlockedOffices(u) == {o \in Offices : ServerUp /\ stage[o] = "opening" /\ fdReply[o] = u}

\* From here on the FIFO has a reader.  open() returns once an office has it
\* open, and the offices that were waiting for u go on.
openReplyFifo(u) ==
  /\ UserGoes(u, "armed", IF BlockedOffices(u) # {} THEN "read" ELSE "openReply")
  /\ replyFd' = [replyFd EXCEPT ![u] = TRUE]
  /\ stage' = [o \in Offices |-> IF o \in BlockedOffices(u) THEN "write" ELSE stage[o]]
  /\ UNCHANGED <<vars, ending, sending, code, ulog, replies, fifoVars, fdReply, taken, killed>>

\* While the FIFO is empty the loop goes round, also at end of file.
readReply(u) ==
  /\ replyFd[u] /\ replies[u] > 0
  /\ UserGoes(u, "read", "log")
  /\ replies' = [replies EXCEPT ![u] = @ - 1]
  /\ code' = [code EXCEPT ![u] = "answer"]
  /\ UNCHANGED <<vars, ending, sending, ulog, replyFd, fifoVars, replyVars, taken, killed>>

\* The struct may hold what the timer's thread has put there by now.
LogReply(u) ==
  /\ UserGoes(u, "log", "delete")
  /\ ulog' = [ulog EXCEPT ![u] = Append(@, code[u])]
  /\ UNCHANGED <<vars, ending, sending, code, replyFd, replies, fifoVars, replyVars,
                 taken, killed>>

\* timer_delete and exit(): no further thread runs the handlers again.
Finish(u) ==
  /\ UserGoes(u, "delete", "finished")
  /\ ending' = [ending EXCEPT ![u] = IF @ = "no" THEN "close" ELSE @]
  /\ UNCHANGED <<vars, sending, code, ulog, replyFd, replies, fifoVars, replyVars,
                 taken, killed>>

-----------------------------------------------------------------------------
(* The timer's thread, and exit().                                         *)

\* Seeded fault: the timer has an interval and fires again while exit() runs.
thread_handler_periodic(u) ==
  /\ Alive(u)
  /\ user[u] \in {"armed", "openReply", "read", "log", "delete"}
  /\ code' = [code EXCEPT ![u] = "timeout"]
  /\ ulog' = [ulog EXCEPT ![u] = Append(@, "timeout")]
  /\ ending' = [ending EXCEPT ![u] = IF @ = "no" THEN "unlink" ELSE @]
  /\ UNCHANGED <<vars, user, sending, replyFd, replies, fifoVars, replyVars, taken, killed>>

\* Seeded fault: timer_delete comes before readReply.
thread_handler_deleted(u) ==
  /\ ending[u] = "no"
  /\ UserGoes(u, "armed", "armed")
  /\ code' = [code EXCEPT ![u] = "timeout"]
  /\ ulog' = [ulog EXCEPT ![u] = Append(@, "timeout")]
  /\ ending' = [ending EXCEPT ![u] = "unlink"]
  /\ UNCHANGED <<vars, sending, replyFd, replies, fifoVars, replyVars, taken, killed>>

\* thread_handler: fill the reply struct, log it, and exit.  closeReplyFifo is
\* among the handlers if open() has returned.
thread_handler(u) ==
  /\ Alive(u) /\ ending[u] = "no"
  /\ user[u] \in {"armed", "openReply", "read", "log", "delete"}
  /\ code' = [code EXCEPT ![u] = "timeout"]
  /\ ulog' = [ulog EXCEPT ![u] = Append(@, "timeout")]
  /\ ending' = [ending EXCEPT ![u] = IF user[u] \in {"read", "log", "delete"}
                                     THEN "close" ELSE "unlink"]
  /\ UNCHANGED <<vars, user, sending, replyFd, replies, fifoVars, replyVars, taken, killed>>

closeReplyFifo(u) ==
  /\ ending[u] = "close"
  /\ ending' = [ending EXCEPT ![u] = "unlink"]
  /\ replyFd' = [replyFd EXCEPT ![u] = FALSE]
  /\ replies' = [replies EXCEPT ![u] = 0]
  /\ UNCHANGED <<vars, user, sending, code, ulog, fifoVars, replyVars, taken, killed>>

deleteReplyFifo(u) ==
  /\ ending[u] = "unlink"
  /\ ending' = [ending EXCEPT ![u] = "end"]
  /\ UNCHANGED <<vars, user, sending, code, ulog, replyFd, replies, fifoVars, replyVars,
                 taken, killed>>

\* The last handlers, and the end of the process and of its descriptors.
EndProcess(u) ==
  /\ ending[u] = "end"
  /\ ending' = [ending EXCEPT ![u] = "gone"]
  /\ replyFd' = [replyFd EXCEPT ![u] = FALSE]
  /\ replies' = [replies EXCEPT ![u] = 0]
  /\ fifo' = KeptBy(Writers \ {u}, HasReader)
  /\ UNCHANGED <<vars, user, sending, code, ulog, mode, fifoFd, replyVars, taken, killed>>

-----------------------------------------------------------------------------
(* The server's main thread at its FIFO.                                   *)

\* openFifo: open() returns at once if some user has the FIFO open, or blocks
\* in open() itself: those users go on.
openFifo ==
  /\ ServerUp /\ main = "open" /\ fifoFd = "closed"
  /\ IF Writers # {} THEN OpenFifo /\ fifoFd' = "open"
                     ELSE UNCHANGED vars /\ fifoFd' = "blocked"
  /\ user' = [u \in Pids |-> IF user[u] = "opening" THEN "write" ELSE user[u]]
  /\ UNCHANGED <<ending, sending, code, ulog, replyFd, replies, mode, fifo, replyVars,
                 taken, killed>>

ReadRequestType ==
  /\ ServerUp /\ fifo # <<>>
  /\ ReadType(Head(fifo))
  /\ fifo' = Tail(fifo)
  /\ taken' = taken \union {Head(fifo).value.header.pid}
  /\ UNCHANGED <<userVars, mode, fifoFd, replyVars, killed>>

\* Seeded fault: at end of file main goes on without opening the FIFO again.
ReadNothingKeepOpen ==
  /\ ServerUp /\ fifo = <<>> /\ Writers = {}
  /\ MainGoes("type", "loop")
  /\ n' = 0
  /\ UNCHANGED <<request, incoming, posted, queueVars, semVars, officeVars, serverDown,
                 crashed, sessionVars>>

\* read() returns 0: the FIFO is empty and nobody has it open for writing.
ReadNothing ==
  /\ ServerUp /\ fifo = <<>> /\ Writers = {}
  /\ ReadEOF
  /\ UNCHANGED sessionVars

\* close() before the next openFifo.  A user may have opened the FIFO since.
CloseFifo ==
  /\ ServerUp /\ main = "open" /\ fifoFd = "open"
  /\ fifoFd' = "closed"
  /\ fifo' = KeptBy(Writers, FALSE)
  /\ UNCHANGED <<vars, userVars, mode, replyVars, taken, killed>>

\* Exit handlers: the FIFO is closed before the offices are woken up, and
\* removed after they have gone.
closeServerFifofd == fifoFd' = IF main' = "close" THEN "closed" ELSE fifoFd
closeServerFifo == mode' = IF main' = "done" THEN "absent" ELSE mode

\* Main's other steps.
MainThread ==
  /\ ServerUp
  /\ MainStep
  /\ closeServerFifofd
  /\ closeServerFifo
  /\ UNCHANGED <<userVars, fifo, replyVars, taken, killed>>

-----------------------------------------------------------------------------
(* A bank office.                                                          *)

OfficeLoop(o) ==
  /\ ServerUp
  /\ LoopStep(o)
  /\ UNCHANGED sessionVars

StageGoes(o, from, to) ==
  /\ ServerUp
  /\ office[o] = "process" /\ stage[o] = from
  /\ stage' = [stage EXCEPT ![o] = to]

\* processRequest of anything but an accepted shutdown.
FinishWork(o) ==
  /\ StageGoes(o, "work", "send")
  /\ UNCHANGED <<vars, userVars, fifoVars, fdReply, taken, killed>>

\* An accepted shutdown makes the FIFO read-only ...
ChmodFifo(o) ==
  /\ request.type = "OP_SHUTDOWN"
  /\ StageGoes(o, "work", "down")
  /\ mode' = "r"
  /\ UNCHANGED <<vars, userVars, fifoFd, fifo, fdReply, taken, killed>>

\* ... and then tells the other threads.
SetServerDown(o) ==
  /\ StageGoes(o, "down", "send")
  /\ OPShutDown(o)
  /\ UNCHANGED <<userVars, fifoVars, fdReply, taken, killed>>

addressee == request.value.header.pid

\* The user that main's struct names now has no FIFO: RC_USR_DOWN is stored in
\* a reply that nobody gets.
UserDown(o) ==
  /\ stage[o] = "send" /\ ~ReplyFifoExists(addressee)
  /\ StageGoes(o, "send", "work")
  /\ FinishRequest(o)
  /\ UNCHANGED <<userVars, fifoVars, fdReply, taken, killed>>

\* Seeded fault: open() does not wait for the user to open its end.
openFifoReplyNonblock(o) ==
  LET u == addressee IN
  /\ ReplyFifoExists(u)
  /\ StageGoes(o, "send", IF replyFd[u] THEN "write" ELSE "work")
  /\ IF replyFd[u] THEN UNCHANGED vars ELSE FinishRequest(o)
  /\ fdReply' = [fdReply EXCEPT ![o] = IF replyFd[u] THEN u ELSE Nobody]
  /\ user' = IF user[u] = "openReply" THEN [user EXCEPT ![u] = "read"] ELSE user
  /\ UNCHANGED <<ending, sending, code, ulog, replyFd, replies, fifoVars, taken, killed>>

\* open() for writing returns if the user has its end open or is blocked in
\* opening it, and then the user's open() returns too; otherwise it blocks.
openFifoReply(o) ==
  LET u == addressee IN
  /\ ReplyFifoExists(u)
  /\ StageGoes(o, "send", IF replyFd[u] THEN "write" ELSE "opening")
  /\ fdReply' = [fdReply EXCEPT ![o] = u]
  /\ user' = IF user[u] = "openReply" THEN [user EXCEPT ![u] = "read"] ELSE user
  /\ UNCHANGED <<vars, ending, sending, code, ulog, replyFd, replies, fifoVars, taken, killed>>

\* write and close of sendReply.
sendReply(o) ==
  LET u == fdReply[o] IN
  /\ stage[o] = "write" /\ replyFd[u]
  /\ StageGoes(o, "write", "work")
  /\ FinishRequest(o)
  /\ replies' = [replies EXCEPT ![u] = @ + 1]
  /\ fdReply' = [fdReply EXCEPT ![o] = Nobody]
  /\ UNCHANGED <<user, ending, sending, code, ulog, replyFd, fifoVars, taken, killed>>

\* The user has gone since: SIGPIPE ends the server.
SigPipe(o) ==
  /\ ServerUp
  /\ office[o] = "process" /\ stage[o] = "write"
  /\ ~replyFd[fdReply[o]]
  /\ killed' = TRUE
  /\ UNCHANGED <<vars, userVars, fifoVars, replyVars, taken>>

-----------------------------------------------------------------------------
UserThread(u) ==
  \/ \E line \in CommandLines[u], memory \in init_options : BuildRequest(u, line, memory)
  \/ OpenRequestFifo(u) \/ BlockInOpen(u) \/ ServerDown(u)
  \/ sendRequest(u) \/ BrokenPipe(u) \/ timer_settime(u)
  \/ openReplyFifo(u) \/ readReply(u) \/ LogReply(u) \/ Finish(u)

ExitHandlers(u) == closeReplyFifo(u) \/ deleteReplyFifo(u) \/ EndProcess(u)

ServerMain == MainThread \/ openFifo \/ ReadRequestType \/ ReadNothing \/ CloseFifo

Process(o) ==
  \/ FinishWork(o) \/ ChmodFifo(o) \/ SetServerDown(o)
  \/ UserDown(o) \/ openFifoReply(o) \/ sendReply(o) \/ SigPipe(o)

OfficeThread(o) == OfficeLoop(o) \/ Process(o)

AllStopped ==
  /\ ~ServerUp
  /\ UNCHANGED allVars

SystemNext ==
  \/ \E u \in Pids : createClient(u) \/ UserThread(u) \/ thread_handler(u) \/ ExitHandlers(u)
  \/ ServerMain
  \/ \E o \in Offices : OfficeThread(o)
  \/ AllStopped

(***************************************************************************)
(* Each thread of the server goes on when it can, and so does each user    *)
(* that has been started.  Nobody has to start one.                        *)
(***************************************************************************)
SystemFairness ==
  /\ WF_allVars(ServerMain)
  /\ \A o \in Offices : WF_allVars(OfficeThread(o))
  /\ \A u \in Pids : WF_allVars(UserThread(u)) /\ WF_allVars(ExitHandlers(u))

SystemSpec == SessionsInitial /\ [][SystemNext]_allVars /\ SystemFairness
-----------------------------------------------------------------------------
(* Properties.                                                             *)

\* Users that have written their request.
Sent == {u \in Pids : user[u] \in {"arm", "armed", "openReply", "read", "log", "delete",
                                  "finished"}}

\* The abstract sessions: what counts for a user is the line it logs first.
Promise == INSTANCE UserSessions WITH
  Users   <- Pids,
  outcome <- [u \in Pids |-> IF ulog[u] = <<>> THEN "none" ELSE ulog[u][1]],
  sent    <- Sent,
  taken   <- taken

\* Types of the state that this module adds.
SystemTypeOK ==
  /\ user \in [Pids -> UserSteps]
  /\ ending \in [Pids -> EndingSteps]
  /\ sending \in [Pids -> SUBSET Messages]
  /\ code \in [Pids -> Promise!Outcomes]
  /\ ulog \in [Pids -> Seq(Promise!Outcomes)]
  /\ \A u \in Pids : Len(ulog[u]) <= 2
  /\ replyFd \in [Pids -> BOOLEAN]
  /\ replies \in [Pids -> Nat]
  /\ mode \in {"rw", "r", "absent"}
  /\ fifoFd \in {"closed", "blocked", "open"}
  /\ fifo \in Seq(Messages)
  /\ stage \in [Offices -> Stages]
  /\ fdReply \in [Offices -> Pids \union {Nobody}]
  /\ taken \subseteq Pids
  /\ killed \in BOOLEAN

\* Whatever users overlap, time out or are killed, and wherever the server dies:
\* a request is taken at most once and only if it was sent, only users whose
\* request was taken are answered, and who is told that the server is down
\* (RC_SRV_DOWN) has not sent anything.
SessionsKeepPromise == Promise!SessionsSpec

\* The server inside this system is that of RequestQueue.
PathOfRequests == Spec

\* When main has left its loop after a shutdown, no user whose request it read
\* is alive any more: the exit of the server abandons nobody whose request was
\* taken.  (Main sees the end of file only when all writers are gone.)
ExitAbandonsNobody == ~Serving => \A u \in taken : ~Alive(u)

ServerSurvives == []~(killed \/ crashed)

\* The timers of the users fire some time after they are armed.
TimersFire == \A u \in Pids : WF_allVars(thread_handler(u))

\* As long as the server is not killed every user that has been started ends,
\* with an answer, a time-out, an error or a signal; also one that finds main
\* between close() and open(), or the server gone after a shutdown, although no
\* timer runs before the write.  (A process id is used once: the ends last.)
EveryUserEnds ==
  TimersFire /\ ServerSurvives => <>[](\A u \in Pids : ~Alive(u))

OneAtATime == \A u, v \in Pids : Alive(u) /\ Alive(v) => u = v
NoTimeout == \A u \in Pids : \A i \in DOMAIN ulog[u] : ulog[u][i] # "timeout"

\* When users come one at a time and no timer fires, no reply kills the server,
\* and whoever has written its request is answered, although main closes and
\* opens the FIFO between any two users.
UndisturbedIsServed ==
  []OneAtATime /\ []NoTimeout =>
    <>[](~killed /\ \A u \in Sent : ulog[u] = <<"answer">>)

\* types.h:13: OP_SHUTDOWN shuts "down home banking service": a server that has
\* accepted it ends, when nobody disturbs it.
ShutDownEnds ==
  []OneAtATime /\ []NoTimeout => (serverDown ~> main = "done")
=============================================================================
