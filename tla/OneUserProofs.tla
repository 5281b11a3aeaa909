--------------------------- MODULE OneUserProofs ---------------------------
(***************************************************************************)
(* Proofs about BankServer with users who come one after another, for any  *)
(* number of offices, any messages and any limits: an office then has the  *)
(* struct of main, the accounts and the mutexes it works with to itself,   *)
(* but for the mutexes that earlier failed transfers have left locked.     *)
(***************************************************************************)
EXTENDS BankServerProofs

-----------------------------------------------------------------------------
(* There is one request at a time, and it is in one place: with main, in   *)
(* the queue with its wake-up posted, or with one office.                  *)

InMain == main \in {"value", "waitNotFull", "write", "post"}
Carrying(o) == office[o] \in {"check", "read", "post", "process"}

OnePlace ==
  /\ \A o, p \in Offices : Carrying(o) /\ Carrying(p) => o = p
  /\ \A o \in Offices : Carrying(o) => notEmpty = 0 /\ ~InMain
  /\ notEmpty # 0 => notEmpty = 1 /\ ~InMain
  /\ waiting # {} <=> InMain \/ notEmpty # 0 \/ \E o \in Offices : Carrying(o)

\* Main leaves its loop only when nobody waits, so it finds the queue empty and
\* the offices find nothing to do.
NothingLeft ==
  /\ main \in {"drain", "close", "join", "done"}
  /\ serverDown /\ itemsNo = 0 /\ waiting = {}
  /\ \A o \in Offices : office[o] \in {"waitNotEmpty", "check", "exited"}

\* Who waits is who sent the message that main read last, and from its value on
\* the message is what the struct holds.
StructIsMessage ==
  waiting # {} =>
    /\ n = 1
    /\ waiting = {incoming.value.header.pid}
    /\ request.type = incoming.type
    /\ main # "value" =>
         /\ header = incoming.value.header
         /\ \A f \in ArgumentFields(incoming.type) : arguments[f] = incoming.value.arguments[f]

OneRequest ==
  /\ Serving => OnePlace
  /\ ~Serving => NothingLeft
  /\ StructIsMessage
  /\ \A o \in Offices : step[o] # "idle" <=> office[o] = "process"

-----------------------------------------------------------------------------
(* What an office knows at each place of processRequest.                   *)

Sender == header.account_id
Target == arguments.account_id

CreateSteps == {"createCopy", "createLock", "create", "createUnlock"}
BalanceSteps == {"balanceLock", "balance", "balanceUnlock"}
TransferSteps == {"transferIds", "lockFirst", "lockSecond", "subtract", "subtractStore",
                  "add", "addStore", "unlockFirst", "unlockSecond", "finalBalance"}

\* The struct still says what it said when the office looked at it.
TypeKept(o) ==
  /\ step[o] \notin {"idle", "begin", "login"} => reply[o].type = request.type
  /\ step[o] \in CreateSteps => request.type = "OP_CREATE_ACCOUNT"
  /\ step[o] \in BalanceSteps => request.type = "OP_BALANCE"
  /\ step[o] \in TransferSteps => request.type = "OP_TRANSFER"
  /\ step[o] = "shutdown" => request.type = "OP_SHUTDOWN"

\* The accounts that were found are still there.
AccountsThere(o) ==
  /\ step[o] = "hash" \/ step[o] \in BalanceSteps \union TransferSteps =>
       accountExists(Sender) /\ local[o].id = Sender
  /\ step[o] \in TransferSteps => accountExists(Target) /\ Sender # Target

\* The ids kept in local variables are those of the struct.
IdsKept(o) ==
  /\ step[o] \in {"createLock", "create", "createUnlock"} => local[o].id = Target
  /\ step[o] \in {"lockFirst", "lockSecond"} =>
       local[o].subtract_id = Sender /\ local[o].add_id = Target
  /\ step[o] = "subtractStore" => local[o].add_id = Sender
  /\ step[o] \in {"addStore", "unlockSecond"} => local[o].add_id = Target

\* The mutexes that the office holds, or has given back.
MutexesHeld(o) ==
  /\ step[o] \in {"create", "createUnlock"} => mutex[Target] = o
  /\ step[o] \in {"balance", "balanceUnlock"} => mutex[Sender] = o
  /\ step[o] = "lockSecond" => mutex[LowerId(o)] = o
  /\ step[o] \in {"subtract", "subtractStore", "add", "addStore", "unlockFirst"} =>
       mutex[Sender] = o /\ mutex[Target] = o
  /\ step[o] \in {"unlockSecond", "finalBalance"} => mutex[Sender] = 0
  /\ step[o] = "unlockSecond" => mutex[Target] = o
  /\ step[o] = "finalBalance" => mutex[Target] = 0
  /\ step[o] \in {"leave", "send"} /\ reply[o].ret_code = "RC_OK" =>
       /\ reply[o].type \in {"OP_BALANCE", "OP_TRANSFER"} => mutex[Sender] = 0
       /\ reply[o].type \in {"OP_CREATE_ACCOUNT", "OP_TRANSFER"} => mutex[Target] = 0

Work(o) == TypeKept(o) /\ AccountsThere(o) /\ IdsKept(o) /\ MutexesHeld(o)

OneUserInv == OneRequest /\ ~segfault /\ \A o \in Offices : Work(o)

-----------------------------------------------------------------------------
(* There is never more than one request in the server.                     *)

\* With nobody in turn, the server is at rest.
LEMMA NobodyWaits ==
  ASSUME OneRequest, Serving, waiting = {}
  PROVE  /\ notEmpty = 0 /\ ~InMain
         /\ \A o \in Offices : ~Carrying(o)
BY DEF OneRequest, OnePlace

\* While a request is in the server, the next one is not taken: a user that
\* comes finds nobody in turn.
LEMMA ArrivesAlone ==
  ASSUME MaxOutstanding = 1, OneRequest, NEW m \in Messages, Arrives(m)
  PROVE  waiting = {} /\ main = "type"
<1>1. Cardinality(waiting) < 1 /\ main = "type"
  BY DEF Arrives, ReadType, MainGoes
<1>2. ASSUME waiting # {} PROVE FALSE
  <2>1. waiting = {incoming.value.header.pid}
    BY <1>2 DEF OneRequest, StructIsMessage
  <2>2. Cardinality(waiting) = 1
    BY <2>1, FS_Singleton
  <2>3. QED
    BY <1>1, <2>2
<1>3. QED
  BY <1>1, <1>2

\* When nobody waits and no office is busy, no request is left in the queue.
LEMMA NothingQueued ==
  ASSUME QueueInv, OneRequest, Serving, waiting = {}
  PROVE  itemsNo = 0 /\ \A o \in Offices : office[o] = "waitNotEmpty"
<1>1. notEmpty = 0 /\ ~InMain /\ \A o \in Offices : ~Carrying(o)
  BY NobodyWaits
<1>2. \A o \in Offices : office[o] = "waitNotEmpty"
  BY <1>1 DEF QueueInv, NobodyLeft, TypeOK, OfficeSteps, Carrying
<1>3. OfficesAt({"check", "read"}) = 0
  BY <1>2, NobodyAt
<1>4. itemsNo = 0
  BY <1>1, <1>3 DEF QueueInv, TokenBalance, MainAt, InMain
<1>5. QED
  BY <1>2, <1>4

\* Nobody is in the server at the start.
LEMMA OneRequestInit == BankInit => OneRequest
<1> SUFFICES ASSUME BankInit PROVE OneRequest
  OBVIOUS
<1>1. main = "open" /\ notEmpty = 0 /\ waiting = {}
  BY DEF BankInit, Init, initSynch
<1>2. \A o \in Offices : office[o] = "waitNotEmpty" /\ step[o] = "idle"
  BY DEF BankInit, Init, createBankOffices
<1>3. QED
  BY <1>1, <1>2 DEF OneRequest, OnePlace, StructIsMessage, Serving, InMain, Carrying

\* Main carries the request from the FIFO to the queue.
LEMMA MainKeepsOneRequest ==
  ASSUME QueueInv, OneRequest, MainThread
  PROVE  OneRequest'
<1>1. UNCHANGED <<waiting, step>>
  BY DEF MainThread, OnlyQueue, bankVars
<1>2. CASE LoopTest
  <2>1. main = "loop" /\ UNCHANGED <<n, request, incoming, itemsNo, notEmpty, office, serverDown>>
    BY <1>2 DEF LoopTest, MainGoes, queueVars, semVars, officeVars
  <2>2. CASE main' = "type"
    BY <1>1, <2>1, <2>2
       DEF OneRequest, OnePlace, StructIsMessage, Serving, InMain, Carrying, header, arguments
  <2>3. CASE main' # "type"
    <3>1. main' = "drain" /\ serverDown /\ n = 0
      BY <1>2, <2>3 DEF LoopTest, MainGoes, QueueInv, TypeOK
    <3>2. Serving /\ waiting = {}
      BY <2>1, <3>1 DEF OneRequest, StructIsMessage, Serving
    <3>3. itemsNo = 0 /\ \A o \in Offices : office[o] = "waitNotEmpty"
      BY <3>2, NothingQueued
    <3>4. NothingLeft'
      BY <1>1, <2>1, <3>1, <3>2, <3>3 DEF NothingLeft
    <3>5. QED
      BY <1>1, <2>1, <3>1, <3>2, <3>4 DEF OneRequest, StructIsMessage, Serving
  <2>4. QED
    BY <2>2, <2>3
<1>3. CASE ReadValue
  <2>1. /\ main = "value" /\ main' = "waitNotFull"
        /\ request' = [request EXCEPT !.value = ValueRead(request.value, incoming)]
        /\ UNCHANGED <<n, incoming, notEmpty, office>>
    BY <1>3 DEF ReadValue, MainGoes, semVars, officeVars
  <2>2. /\ request'.type = request.type
        /\ header' = incoming.value.header
        /\ \A f \in ArgumentFields(incoming.type) : arguments'[f] = incoming.value.arguments[f]
    BY <2>1 DEF QueueInv, TypeOK, tlv_request, ValueRead, header, arguments, ArgumentFields
  <2>3. StructIsMessage'
    BY <1>1, <2>1, <2>2 DEF OneRequest, StructIsMessage
  <2>4. OnePlace'
    BY <1>1, <2>1 DEF OneRequest, OnePlace, Serving, InMain, Carrying
  <2>5. QED
    BY <1>1, <2>1, <2>3, <2>4 DEF OneRequest, Serving
<1>4. CASE WaitNotFull \/ WriteRequest
  <2>1. /\ main \in {"waitNotFull", "write"} /\ main' \in {"write", "post"}
        /\ UNCHANGED <<n, request, incoming, notEmpty, office>>
    BY <1>4 DEF WaitNotFull, WriteRequest, MainGoes, semVars, officeVars
  <2>2. QED
    BY <1>1, <2>1
       DEF OneRequest, OnePlace, StructIsMessage, Serving, InMain, Carrying, header, arguments
<1>5. CASE PostNotEmpty
  <2>1. /\ main = "post" /\ main' = "loop" /\ notEmpty' = notEmpty + 1
        /\ UNCHANGED <<n, request, incoming, office>>
    BY <1>5 DEF PostNotEmpty, postNotEmpty, MainGoes, officeVars
  <2>2. OnePlace
    BY <2>1 DEF OneRequest, Serving
  <2>3. notEmpty = 0 /\ \A o \in Offices : ~Carrying(o)
    BY <2>1, <2>2 DEF OnePlace, InMain
  <2>4. OnePlace'
    BY <1>1, <2>1, <2>2, <2>3 DEF OnePlace, InMain, Carrying
  <2>5. StructIsMessage'
    BY <1>1, <2>1 DEF OneRequest, StructIsMessage, header, arguments
  <2>6. QED
    BY <1>1, <2>1, <2>4, <2>5 DEF OneRequest, Serving
<1>6. CASE DrainTest \/ DrainWait \/ DrainPost \/ WakeOffice \/ JoinOffices
  <2>1. /\ ~Serving
        /\ UNCHANGED <<n, request, incoming, itemsNo, office, serverDown>>
    BY <1>6 DEF DrainTest, DrainWait, DrainPost, WakeOffice, JoinOffices, MainGoes, Serving,
                queueVars, officeVars
  <2>2. NothingLeft
    BY <2>1 DEF OneRequest
  <2>3. main' \in {"close", "join", "done"}
    BY <1>6, <2>2 DEF DrainTest, DrainWait, DrainPost, WakeOffice, JoinOffices, MainGoes, NothingLeft
  <2>4. NothingLeft'
    BY <1>1, <2>1, <2>2, <2>3 DEF NothingLeft
  <2>5. QED
    BY <1>1, <2>1, <2>2, <2>3, <2>4 DEF OneRequest, StructIsMessage, Serving, NothingLeft
<1>7. QED
  BY <1>2, <1>3, <1>4, <1>5, <1>6 DEF MainThread, MainStep

\* A user comes only when nobody is in turn.
LEMMA UsersKeepOneRequest ==
  ASSUME MaxOutstanding = 1, QueueInv, OneRequest,
         UserOpens \/ EndOfFile \/ \E m \in Messages : Arrives(m)
  PROVE  OneRequest'
<1>1. CASE UserOpens
  <2>1. /\ main = "open" /\ main' = "loop"
        /\ UNCHANGED <<n, request, incoming, notEmpty, office, waiting, step>>
    BY <1>1 DEF UserOpens, OpenFifo, MainGoes, OnlyQueue, bankVars, semVars, officeVars
  <2>2. QED
    BY <2>1 DEF OneRequest, OnePlace, StructIsMessage, Serving, InMain, Carrying, header, arguments
<1>2. CASE EndOfFile
  <2>1. /\ main = "type" /\ main' = "open" /\ waiting = {}
        /\ UNCHANGED <<notEmpty, office, waiting, step>>
    BY <1>2 DEF EndOfFile, ReadEOF, MainGoes, OnlyQueue, bankVars, semVars, officeVars
  <2>2. QED
    BY <2>1 DEF OneRequest, OnePlace, StructIsMessage, Serving, InMain, Carrying
<1>3. ASSUME NEW m \in Messages, Arrives(m) PROVE OneRequest'
  <2>1. waiting = {} /\ main = "type"
    BY <1>3, ArrivesAlone
  <2>2. Serving
    BY <2>1 DEF Serving
  <2>3. notEmpty = 0 /\ \A o \in Offices : ~Carrying(o)
    BY <2>1, <2>2, NobodyWaits
  <2>4. /\ main' = "value" /\ n' = 1 /\ incoming' = m
        /\ request' = [request EXCEPT !.type = m.type]
        /\ waiting' = {m.value.header.pid}
        /\ UNCHANGED <<notEmpty, office, step>>
    BY <1>3, <2>1 DEF Arrives, ReadType, MainGoes, semVars, officeVars
  <2>5. StructIsMessage'
    BY <2>4 DEF StructIsMessage, QueueInv, TypeOK, tlv_request
  <2>6. OnePlace'
    BY <2>3, <2>4 DEF OnePlace, InMain, Carrying
  <2>7. QED
    BY <2>4, <2>5, <2>6 DEF OneRequest, Serving
<1>4. QED
  BY <1>1, <1>2, <1>3

\* One office takes the request, and has it to itself until it has answered.
LEMMA OfficeKeepsOneRequest ==
  ASSUME QueueInv, BankTypeOK, OneRequest, NEW o \in Offices, OfficeLoop(o) \/ TakeRequest(o)
  PROVE  OneRequest'
<1>1. /\ UNCHANGED <<main, n, request, incoming, serverDown, waiting>>
      /\ office' = [office EXCEPT ![o] = office'[o]]
      /\ \A p \in Offices : office'[p] = IF p = o THEN office'[o] ELSE office[p]
      /\ header' = header /\ arguments' = arguments
  BY DEF OfficeLoop, TakeRequest, WaitNotEmpty, CheckDown, ReadRequest, PostNotFull, OfficeGoes,
         OnlyQueue, bankVars, mainVars, QueueInv, TypeOK, header, arguments
<1>2. StructIsMessage'
  BY <1>1 DEF OneRequest, StructIsMessage
<1>3. UNCHANGED Serving /\ UNCHANGED InMain
  BY <1>1 DEF Serving, InMain
<1>4. CASE WaitNotEmpty(o) /\ OnlyQueue
  <2>1. /\ office[o] = "waitNotEmpty" /\ office'[o] = "check"
        /\ notEmpty > 0 /\ notEmpty' = notEmpty - 1
        /\ UNCHANGED <<itemsNo, step>>
    BY <1>4 DEF WaitNotEmpty, waitNotEmpty, OfficeGoes, OnlyQueue, bankVars, queueVars, QueueInv, TypeOK
  <2>2. ASSUME Serving PROVE OnePlace'
    <3>1. OnePlace
      BY <2>2 DEF OneRequest
    <3>2. notEmpty = 1 /\ ~InMain /\ \A p \in Offices : ~Carrying(p)
      BY <2>1, <3>1 DEF OnePlace
    <3>3. \A p \in Offices : Carrying(p)' => p = o
      BY <1>1, <3>2 DEF Carrying
    <3>4. Carrying(o)' /\ notEmpty' = 0 /\ waiting # {}
      BY <2>1, <3>1, <3>2 DEF OnePlace, Carrying
    <3>5. QED
      BY <1>1, <1>3, <3>2, <3>3, <3>4 DEF OnePlace
  <2>3. ASSUME ~Serving PROVE NothingLeft'
    BY <1>1, <2>1, <2>3 DEF OneRequest, NothingLeft
  <2>4. \A p \in Offices : step'[p] # "idle" <=> office'[p] = "process"
    BY <1>1, <2>1 DEF OneRequest
  <2>5. QED
    BY <1>2, <1>3, <2>2, <2>3, <2>4 DEF OneRequest
<1>5. ASSUME OneRequest, office[o] \in {"check", "read", "post"}, Serving,
             office'[o] \in {"read", "post", "process"}, notEmpty' = notEmpty
      PROVE  OnePlace'
  <2>1. OnePlace
    BY <1>5 DEF OneRequest
  <2>2. \A p \in Offices : Carrying(p)' <=> Carrying(p)
    BY <1>1, <1>5 DEF Carrying
  <2>3. QED
    BY <1>1, <1>3, <1>5, <2>1, <2>2 DEF OnePlace
<1>6. CASE CheckDown(o) /\ OnlyQueue
  <2>1. /\ office[o] = "check"
        /\ office'[o] = IF serverDown /\ itemsNo = 0 THEN "exited" ELSE "read"
        /\ UNCHANGED <<itemsNo, notEmpty, step>>
    BY <1>6 DEF CheckDown, OfficeGoes, OnlyQueue, bankVars, queueVars, semVars, QueueInv, TypeOK
  <2>2. ASSUME Serving PROVE OnePlace'
    <3>1. itemsNo > 0 /\ itemsNo \in Int
      BY <2>1, <2>2, BalancesBound
    <3>2. QED
      BY <1>5, <2>1, <2>2, <3>1
  <2>3. ASSUME ~Serving PROVE NothingLeft'
    BY <1>1, <2>1, <2>3 DEF OneRequest, NothingLeft
  <2>4. \A p \in Offices : step'[p] # "idle" <=> office'[p] = "process"
    BY <1>1, <2>1 DEF OneRequest
  <2>5. QED
    BY <1>2, <1>3, <2>2, <2>3, <2>4 DEF OneRequest
<1>7. CASE ReadRequest(o) /\ OnlyQueue
  <2>1. /\ office[o] = "read" /\ office'[o] = "post"
        /\ UNCHANGED <<notEmpty, step>>
    BY <1>7 DEF ReadRequest, OfficeGoes, OnlyQueue, bankVars, semVars, QueueInv, TypeOK
  <2>2. Serving
    BY <2>1 DEF OneRequest, NothingLeft
  <2>3. OnePlace'
    BY <1>5, <2>1, <2>2
  <2>4. \A p \in Offices : step'[p] # "idle" <=> office'[p] = "process"
    BY <1>1, <2>1 DEF OneRequest
  <2>5. QED
    BY <1>2, <1>3, <2>2, <2>3, <2>4 DEF OneRequest
<1>8. CASE TakeRequest(o)
  <2>1. /\ office[o] = "post" /\ office'[o] = "process"
        /\ step' = [step EXCEPT ![o] = "begin"]
        /\ UNCHANGED notEmpty
    BY <1>8 DEF TakeRequest, PostNotFull, OfficeGoes, QueueInv, TypeOK
  <2>2. Serving
    BY <2>1 DEF OneRequest, NothingLeft
  <2>3. OnePlace'
    BY <1>5, <2>1, <2>2
  <2>4. \A p \in Offices : step'[p] # "idle" <=> office'[p] = "process"
    BY <1>1, <2>1 DEF OneRequest, BankTypeOK
  <2>5. QED
    BY <1>2, <1>3, <2>2, <2>3, <2>4 DEF OneRequest
<1>9. QED
  BY <1>4, <1>6, <1>7, <1>8 DEF OfficeLoop
-----------------------------------------------------------------------------
(* The office at work.                                                     *)

\* Every step of processRequest moves the office that processes a request, and
\* only its last one, sendReply, lets go of the user.
LEMMA ProcessMoves ==
  ASSUME BankTypeOK, NEW o \in Offices, Process(o)
  PROVE  /\ office[o] = "process"
         /\ step' = [step EXCEPT ![o] = step'[o]]
         /\ step'[o] = "idle" <=> sendReply(o)
         /\ step[o] = "begin" <=> BeginProcess(o)
         /\ step'[o] # "begin"
         /\ ~sendReply(o) => UNCHANGED <<office, waiting>>
<1>0. BeginProcess(o) => step[o] = "begin" /\ step'[o] = "login"
  BY DEF BeginProcess, Goes, BankTypeOK
<1>1. CASE sendReply(o)
  BY <1>0, <1>1 DEF sendReply, FinishRequest, OfficeGoes, BankTypeOK
<1>2. CASE ShutDown(o)
  <2>1. step[o] = "shutdown"
    BY <1>2 DEF ShutDown
  <2>2. ~sendReply(o) /\ ~BeginProcess(o)
    BY <1>0, <2>1 DEF sendReply
  <2>3. QED
    BY <1>2, <2>2 DEF ShutDown, OPShutDown, officeVars, BankTypeOK
<1>3. ASSUME NEW from, NEW to \in Steps \ {"idle", "begin"}, Goes(o, from, to), UNCHANGED waiting
      PROVE  /\ office[o] = "process"
             /\ step' = [step EXCEPT ![o] = step'[o]]
             /\ step'[o] \notin {"idle", "begin"}
             /\ step[o] = from
             /\ UNCHANGED <<office, waiting>>
  BY <1>3 DEF Goes, vars, officeVars, BankTypeOK
<1>4. ASSUME step'[o] # "idle" PROVE ~sendReply(o)
  BY <1>4 DEF sendReply, BankTypeOK
<1>5. CASE BeginProcess(o)
  <2>1. Goes(o, "begin", "login") /\ UNCHANGED waiting
    BY <1>5 DEF BeginProcess
  <2>2. QED
    BY <1>3, <1>4, <1>5, <2>1 DEF Steps
<1>6. CASE LoginRead(o) \/ LoginFails(o) \/ Leave(o)
  <2>1. /\ \E from \in Steps \ {"begin"}, to \in Steps \ {"idle", "begin"} : Goes(o, from, to)
        /\ UNCHANGED waiting
    BY <1>6 DEF LoginRead, LoginFails, Leave, Steps
  <2>2. QED
    BY <1>0, <1>3, <1>4, <2>1
<1>7. CASE OPCreateAccount(o) \/ OPBalance(o) \/ OPTransfer(o) \/ BeginShutDown(o)
  <2>1. /\ \E from \in Steps \ {"begin"}, to \in Steps \ {"idle", "begin"} : Goes(o, from, to)
        /\ UNCHANGED waiting
    BY <1>7 DEF OPCreateAccount, OPBalance, OPTransfer, BeginShutDown, Dispatch, Steps
  <2>2. QED
    BY <1>0, <1>3, <1>4, <2>1
<1>8. CASE CreateCopy(o) \/ CreateLock(o) \/ Create(o) \/ CreateUnlock(o)
  <2>1. /\ \E from \in Steps \ {"begin"}, to \in Steps \ {"idle", "begin"} : Goes(o, from, to)
        /\ UNCHANGED waiting
    BY <1>8 DEF CreateCopy, CreateLock, Create, CreateUnlock, Steps
  <2>2. QED
    BY <1>0, <1>3, <1>4, <2>1
<1>9. CASE BalanceLock(o) \/ checkBalance(o) \/ BalanceUnlock(o) \/ TransferIds(o)
  <2>1. /\ \E from \in Steps \ {"begin"}, to \in Steps \ {"idle", "begin"} : Goes(o, from, to)
        /\ UNCHANGED waiting
    BY <1>9 DEF BalanceLock, checkBalance, BalanceUnlock, TransferIds, Steps
  <2>2. QED
    BY <1>0, <1>3, <1>4, <2>1
<1>10. CASE LockFirst(o) \/ LockSecond(o) \/ subtractBalance(o) \/ addBalance(o)
  <2>1. /\ \E from \in Steps \ {"begin"}, to \in Steps \ {"idle", "begin"} : Goes(o, from, to)
        /\ UNCHANGED waiting
    BY <1>10 DEF LockFirst, LockSecond, subtractBalance, addBalance, Steps
  <2>2. QED
    BY <1>0, <1>3, <1>4, <2>1
<1>11. CASE SubtractStore(o) \/ AddStore(o) \/ UnlockFirst(o) \/ UnlockSecond(o) \/ FinalBalance(o)
  <2>1. /\ \E from \in Steps \ {"begin"}, to \in Steps \ {"idle", "begin"} : Goes(o, from, to)
        /\ UNCHANGED waiting
    BY <1>11 DEF SubtractStore, AddStore, StoreBalance, UnlockFirst, UnlockSecond, FinalBalance, Steps
  <2>2. QED
    BY <1>0, <1>3, <1>4, <2>1
<1>12. CASE SegFault(o)
  <2>1. /\ \E from \in Steps \ {"begin"}, to \in Steps \ {"idle", "begin"} : Goes(o, from, to)
        /\ UNCHANGED waiting
    BY <1>12 DEF SegFault, Steps
  <2>2. QED
    BY <1>0, <1>3, <1>4, <2>1
<1>13. QED
  BY <1>1, <1>2, <1>5, <1>6, <1>7, <1>8, <1>9, <1>10, <1>11, <1>12 DEF Process

\* Who processes a request is alone with it.
LEMMA ProcessAlone ==
  ASSUME BankTypeOK, OneRequest, NEW o \in Offices, Process(o)
  PROVE  /\ office[o] = "process" /\ Serving /\ OnePlace /\ ~InMain /\ notEmpty = 0
         /\ waiting = {header.pid} /\ header = incoming.value.header
         /\ \A p \in Offices : p # o => ~Carrying(p) /\ step[p] = "idle" /\ step'[p] = "idle"
         /\ UNCHANGED <<main, n, request, incoming, notEmpty>>
         /\ header' = header /\ arguments' = arguments
<1>1. office[o] = "process" /\ step' = [step EXCEPT ![o] = step'[o]]
  BY ProcessMoves
<1>2. Carrying(o) /\ Serving /\ OnePlace
  BY <1>1 DEF OneRequest, NothingLeft, Carrying
<1>3. /\ ~InMain /\ notEmpty = 0 /\ waiting # {}
      /\ \A p \in Offices : p # o => ~Carrying(p)
  BY <1>2 DEF OnePlace
<1>4. waiting = {header.pid} /\ header = incoming.value.header
  BY <1>3 DEF OneRequest, StructIsMessage, InMain
<1>5. \A p \in Offices : p # o => step[p] = "idle" /\ step'[p] = "idle"
  BY <1>1, <1>3 DEF OneRequest, Carrying, BankTypeOK
<1>6. UNCHANGED <<main, n, request, incoming, notEmpty>>
  BY ProcessKeepsQueue DEF vars, mainVars, semVars, OPShutDown, FinishRequest
<1>7. header' = header /\ arguments' = arguments
  BY <1>6 DEF header, arguments
<1>8. QED
  BY <1>1, <1>2, <1>3, <1>4, <1>5, <1>6, <1>7

\* It keeps the request until its reply is sent.
LEMMA ProcessKeepsOneRequest ==
  ASSUME TypeOK, BankTypeOK, OneRequest, NEW o \in Offices, Process(o)
  PROVE  OneRequest'
<1>1. /\ office[o] = "process" /\ Serving /\ OnePlace /\ ~InMain /\ notEmpty = 0
      /\ waiting = {header.pid} /\ header = incoming.value.header
      /\ \A p \in Offices : p # o => ~Carrying(p) /\ step[p] = "idle" /\ step'[p] = "idle"
      /\ UNCHANGED <<main, n, request, incoming, notEmpty>>
      /\ header' = header /\ arguments' = arguments
  BY ProcessAlone
<1>2. Serving' /\ ~InMain'
  BY <1>1 DEF Serving, InMain
<1>3. CASE sendReply(o)
  <2>1. /\ office' = [office EXCEPT ![o] = "waitNotEmpty"]
        /\ waiting' = waiting \ {header.pid}
        /\ step'[o] = "idle"
    BY <1>3 DEF sendReply, FinishRequest, OfficeGoes, BankTypeOK
  <2>2. waiting' = {}
    BY <1>1, <2>1
  <2>3. \A p \in Offices : ~Carrying(p)' /\ step'[p] = "idle" /\ office'[p] # "process"
    BY <1>1, <2>1 DEF TypeOK, Carrying
  <2>4. OnePlace' /\ StructIsMessage'
    BY <1>1, <1>2, <2>2, <2>3 DEF OnePlace, StructIsMessage
  <2>5. QED
    BY <1>2, <2>3, <2>4 DEF OneRequest
<1>4. CASE ~sendReply(o)
  <2>1. UNCHANGED <<office, waiting>> /\ step'[o] # "idle"
    BY <1>4, ProcessMoves
  <2>2. OnePlace'
    BY <1>1, <2>1 DEF OnePlace, InMain, Carrying
  <2>3. StructIsMessage'
    BY <1>1, <2>1 DEF OneRequest, StructIsMessage
  <2>4. \A p \in Offices : step'[p] # "idle" <=> office'[p] = "process"
    BY <1>1, <2>1 DEF Carrying
  <2>5. QED
    BY <1>2, <2>2, <2>3, <2>4 DEF OneRequest
<1>5. QED
  BY <1>3, <1>4
\* The accounts that an office reads were found, and are still there.
LEMMA AccountsFound ==
  ASSUME NEW o \in Offices, Work(o)
  PROVE  ~SegFault(o)
BY DEF SegFault, AccountRead, Work, AccountsThere, BalanceSteps, TransferSteps, Sender, Target

\* The steps of processRequest, one by one: what an office knows when it makes
\* a step is enough for it to know what it must after the step.
LEMMA ProcessKeepsWork ==
  ASSUME TypeOK, BankTypeOK, NEW o \in Offices, Work(o), Process(o),
         UNCHANGED request
  PROVE  Work(o)'
<1>0. Sender' = Sender /\ Target' = Target /\ request'.type = request.type
  BY DEF Sender, Target, header, arguments
<1>1. CASE BeginProcess(o) \/ sendReply(o)
  <2>1. step'[o] \in {"idle", "login"}
    BY <1>1 DEF BeginProcess, sendReply, Goes, BankTypeOK
  <2>2. QED
    BY <2>1 DEF Work, TypeKept, AccountsThere, IdsKept, MutexesHeld,
                CreateSteps, BalanceSteps, TransferSteps
<1>2. ASSUME step'[o] \in {"leave", "send"},
             reply'[o].type = request.type,
             reply'[o].ret_code # "RC_OK"
      PROVE  Work(o)'
  BY <1>0, <1>2 DEF Work, TypeKept, AccountsThere, IdsKept, MutexesHeld,
                    CreateSteps, BalanceSteps, TransferSteps
<1>3. CASE LoginRead(o)
  <2>1. CASE accountExists(Sender)
    <3>1. /\ step'[o] = "hash" /\ reply'[o].type = request.type
          /\ local'[o].id = Sender /\ UNCHANGED bankAccounts
      BY <1>3, <2>1 DEF LoginRead, Goes, BankTypeOK, Reply, Local, Sender
    <3>2. accountExists(Sender)'
      BY <1>0, <2>1, <3>1 DEF accountExists
    <3>3. QED
      BY <1>0, <3>1, <3>2 DEF Work, TypeKept, AccountsThere, IdsKept, MutexesHeld,
                              CreateSteps, BalanceSteps, TransferSteps
  <2>2. CASE ~accountExists(Sender)
    <3>1. /\ step'[o] = "send" /\ reply'[o].type = request.type
          /\ reply'[o].ret_code = "RC_LOGIN_FAIL"
      BY <1>3, <2>2 DEF LoginRead, Goes, BankTypeOK, Reply, Sender
    <3>2. QED
      BY <1>2, <3>1
  <2>3. QED
    BY <2>1, <2>2
<1>4. ASSUME NEW code, reply' = Code(o, code)
      PROVE  reply'[o].type = reply[o].type /\ reply'[o].ret_code = code
  BY <1>4 DEF Code, BankTypeOK, Reply
<1>5. CASE LoginFails(o)
  <2>1. step[o] = "hash" /\ step'[o] = "send" /\ reply' = Code(o, "RC_LOGIN_FAIL")
    BY <1>5 DEF LoginFails, Goes, BankTypeOK
  <2>2. reply[o].type = request.type
    BY <2>1 DEF Work, TypeKept
  <2>3. QED
    BY <1>2, <1>4, <2>1, <2>2
<1>6. ASSUME step[o] = "hash"
      PROVE  reply[o].type = request.type /\ accountExists(Sender) /\ local[o].id = Sender
  BY <1>6 DEF Work, TypeKept, AccountsThere
<1>7. CASE OPCreateAccount(o)
  <2>1. /\ step[o] = "hash" /\ request.type = "OP_CREATE_ACCOUNT"
        /\ reply' = Code(o, validateCreateAccount)
        /\ step'[o] = IF validateCreateAccount = "RC_OK" THEN "createCopy" ELSE "leave"
    BY <1>7 DEF OPCreateAccount, Dispatch, Goes, BankTypeOK
  <2>2. reply'[o].type = request.type /\ reply'[o].ret_code = validateCreateAccount
    BY <1>4, <1>6, <2>1
  <2>3. CASE validateCreateAccount = "RC_OK"
    BY <1>0, <2>1, <2>2, <2>3 DEF Work, TypeKept, AccountsThere, IdsKept, MutexesHeld,
                                  CreateSteps, BalanceSteps, TransferSteps
  <2>4. CASE validateCreateAccount # "RC_OK"
    BY <1>2, <2>1, <2>2, <2>4
  <2>5. QED
    BY <2>3, <2>4
<1>8. CASE OPBalance(o)
  <2>1. /\ step[o] = "hash" /\ request.type = "OP_BALANCE" /\ UNCHANGED bankAccounts
        /\ step'[o] = IF validateOPBalance = "RC_OK" THEN "balanceLock" ELSE "leave"
    BY <1>8 DEF OPBalance, Dispatch, Goes, BankTypeOK
  <2>2. reply'[o].type = request.type /\ reply'[o].ret_code = validateOPBalance
    BY <1>6, <1>8, <2>1 DEF OPBalance, Code, BankTypeOK, Reply
  <2>3. local'[o].id = Sender /\ accountExists(Sender)'
    BY <1>0, <1>6, <1>8, <2>1 DEF OPBalance, BankTypeOK, Local, Sender, accountExists
  <2>4. CASE validateOPBalance = "RC_OK"
    BY <1>0, <2>1, <2>2, <2>3, <2>4 DEF Work, TypeKept, AccountsThere, IdsKept, MutexesHeld,
                                        CreateSteps, BalanceSteps, TransferSteps
  <2>5. CASE validateOPBalance # "RC_OK"
    BY <1>2, <2>1, <2>2, <2>5
  <2>6. QED
    BY <2>4, <2>5
<1>9. CASE OPTransfer(o)
  <2>1. /\ step[o] = "hash" /\ request.type = "OP_TRANSFER" /\ UNCHANGED bankAccounts
        /\ step'[o] = IF validateOPTransfer = "RC_OK" THEN "transferIds" ELSE "leave"
    BY <1>9 DEF OPTransfer, Dispatch, Goes, BankTypeOK
  <2>2. reply'[o].type = request.type /\ reply'[o].ret_code = validateOPTransfer
    BY <1>6, <1>9, <2>1 DEF OPTransfer, BankTypeOK, Reply
  <2>3. local'[o].id = Sender /\ accountExists(Sender)'
    BY <1>0, <1>6, <1>9, <2>1 DEF OPTransfer, BankTypeOK, Local, Sender, accountExists
  <2>4. CASE validateOPTransfer = "RC_OK"
    <3>1. accountExists(Target)' /\ Sender # Target
      BY <1>0, <2>1, <2>4 DEF validateOPTransfer, accountExists, Sender, Target
    <3>2. QED
      BY <1>0, <2>1, <2>2, <2>3, <2>4, <3>1
         DEF Work, TypeKept, AccountsThere, IdsKept, MutexesHeld,
             CreateSteps, BalanceSteps, TransferSteps
  <2>5. CASE validateOPTransfer # "RC_OK"
    BY <1>2, <2>1, <2>2, <2>5
  <2>6. QED
    BY <2>4, <2>5
<1>10. CASE BeginShutDown(o)
  <2>1. /\ step[o] = "hash" /\ request.type = "OP_SHUTDOWN"
        /\ step'[o] = IF validateShutDown = "RC_OK" THEN "shutdown" ELSE "leave"
    BY <1>10 DEF BeginShutDown, Dispatch, Goes, BankTypeOK
  <2>2. reply'[o].type = request.type /\ reply'[o].ret_code = validateShutDown
    BY <1>6, <1>10, <2>1 DEF BeginShutDown, Code, BankTypeOK, Reply
  <2>3. CASE validateShutDown = "RC_OK"
    BY <1>0, <2>1, <2>2, <2>3 DEF Work, TypeKept, AccountsThere, IdsKept, MutexesHeld,
                                  CreateSteps, BalanceSteps, TransferSteps
  <2>4. CASE validateShutDown # "RC_OK"
    BY <1>2, <2>1, <2>2, <2>4
  <2>5. QED
    BY <2>3, <2>4
<1>11. CASE CreateCopy(o)
  <2>1. /\ step[o] = "createCopy" /\ step'[o] = "createLock" /\ UNCHANGED reply
        /\ local'[o].id = Target
    BY <1>11 DEF CreateCopy, Goes, BankTypeOK, Local, Target
  <2>2. QED
    BY <1>0, <2>1 DEF Work, TypeKept, AccountsThere, IdsKept, MutexesHeld,
                      CreateSteps, BalanceSteps, TransferSteps
<1>12. CASE CreateLock(o)
  <2>1. /\ step[o] = "createLock" /\ step'[o] = "create" /\ UNCHANGED <<reply, local>>
        /\ local[o].id = Target /\ local[o].id \in AccountIds
        /\ mutex' = [mutex EXCEPT ![local[o].id] = o]
    BY <1>12 DEF CreateLock, bankAccountLock, Goes, BankTypeOK, Local, Work, IdsKept
  <2>2. mutex'[Target] = o
    BY <2>1 DEF BankTypeOK
  <2>3. QED
    BY <1>0, <2>1, <2>2 DEF Work, TypeKept, AccountsThere, IdsKept, MutexesHeld,
                            CreateSteps, BalanceSteps, TransferSteps
<1>13. CASE Create(o)
  <2>1. step[o] = "create" /\ step'[o] = "createUnlock" /\ UNCHANGED <<reply, local, mutex>>
    BY <1>13 DEF Create, Goes, BankTypeOK
  <2>2. QED
    BY <1>0, <2>1 DEF Work, TypeKept, AccountsThere, IdsKept, MutexesHeld,
                      CreateSteps, BalanceSteps, TransferSteps
<1>14. CASE CreateUnlock(o)
  <2>1. /\ step[o] = "createUnlock" /\ step'[o] = "leave"
        /\ reply'[o].type = reply[o].type
    BY <1>14 DEF CreateUnlock, Goes, BankTypeOK, Reply
  <2>2. /\ local[o].id = Target /\ local[o].id \in AccountIds
        /\ reply[o].type = request.type /\ request.type = "OP_CREATE_ACCOUNT"
    BY <2>1 DEF Work, IdsKept, TypeKept, CreateSteps, BankTypeOK, Local
  <2>3. mutex'[Target] = 0
    BY <1>14, <2>2 DEF CreateUnlock, bankAccountUnlock, BankTypeOK
  <2>4. QED
    BY <1>0, <2>1, <2>2, <2>3 DEF Work, TypeKept, AccountsThere, IdsKept, MutexesHeld,
                                  CreateSteps, BalanceSteps, TransferSteps
<1>15. ASSUME step[o] \in BalanceSteps
       PROVE  /\ reply[o].type = request.type /\ request.type = "OP_BALANCE"
              /\ accountExists(Sender) /\ local[o].id = Sender /\ Sender \in AccountIds
  <2>1. accountExists(Sender) /\ local[o].id = Sender
    BY <1>15 DEF Work, AccountsThere
  <2>2. reply[o].type = request.type /\ request.type = "OP_BALANCE"
    BY <1>15 DEF Work, TypeKept, BalanceSteps
  <2>3. Sender \in AccountIds
    BY <2>1 DEF BankTypeOK, accountExists
  <2>4. QED
    BY <2>1, <2>2, <2>3
<1>16. CASE BalanceLock(o)
  <2>1. /\ step[o] = "balanceLock" /\ step'[o] = "balance"
        /\ UNCHANGED <<reply, local, bankAccounts>>
        /\ mutex' = [mutex EXCEPT ![local[o].id] = o]
    BY <1>16 DEF BalanceLock, bankAccountLock, Goes, BankTypeOK
  <2>2. mutex'[Sender] = o
    BY <1>15, <2>1 DEF BalanceSteps, BankTypeOK
  <2>3. QED
    BY <1>0, <1>15, <2>1, <2>2
       DEF Work, TypeKept, AccountsThere, IdsKept, MutexesHeld, accountExists,
           CreateSteps, BalanceSteps, TransferSteps
<1>17. CASE checkBalance(o)
  <2>1. /\ step[o] = "balance" /\ step'[o] = "balanceUnlock"
        /\ UNCHANGED <<local, bankAccounts, mutex>>
        /\ reply'[o].type = reply[o].type
    BY <1>17 DEF checkBalance, Goes, BankTypeOK, Reply
  <2>2. mutex[Sender] = o
    BY <2>1 DEF Work, MutexesHeld
  <2>3. QED
    BY <1>0, <1>15, <2>1, <2>2
       DEF Work, TypeKept, AccountsThere, IdsKept, MutexesHeld, accountExists,
           CreateSteps, BalanceSteps, TransferSteps
<1>18. CASE BalanceUnlock(o)
  <2>1. /\ step[o] = "balanceUnlock" /\ step'[o] = "leave" /\ UNCHANGED reply
        /\ mutex' = [mutex EXCEPT ![Sender] = 0]
    BY <1>18 DEF BalanceUnlock, bankAccountUnlock, Goes, BankTypeOK, Sender
  <2>2. mutex'[Sender] = 0
    BY <1>15, <2>1 DEF BalanceSteps, BankTypeOK
  <2>3. reply[o].type = "OP_BALANCE" /\ request.type = "OP_BALANCE"
    BY <1>15, <2>1 DEF BalanceSteps
  <2>4. QED
    BY <1>0, <2>1, <2>2, <2>3 DEF Work, TypeKept, AccountsThere, IdsKept, MutexesHeld,
                                  CreateSteps, BalanceSteps, TransferSteps
<1>19. ASSUME step[o] \in TransferSteps
       PROVE  /\ reply[o].type = request.type /\ request.type = "OP_TRANSFER"
              /\ accountExists(Sender) /\ accountExists(Target) /\ Sender # Target
              /\ local[o].id = Sender
              /\ Sender \in AccountIds /\ Target \in AccountIds
  <2>1. accountExists(Sender) /\ local[o].id = Sender /\ accountExists(Target) /\ Sender # Target
    BY <1>19 DEF Work, AccountsThere
  <2>2. reply[o].type = request.type /\ request.type = "OP_TRANSFER"
    BY <1>19 DEF Work, TypeKept, TransferSteps
  <2>3. Sender \in AccountIds /\ Target \in AccountIds
    BY <2>1 DEF BankTypeOK, accountExists
  <2>4. QED
    BY <2>1, <2>2, <2>3
<1>20. ASSUME step[o] \in TransferSteps, step'[o] \in TransferSteps,
              UNCHANGED reply, DOMAIN bankAccounts' = DOMAIN bankAccounts,
              local'[o].id = local[o].id, IdsKept(o)', MutexesHeld(o)'
       PROVE  Work(o)'
  <2>1. TypeKept(o)'
    BY <1>0, <1>19, <1>20 DEF TypeKept, CreateSteps, BalanceSteps, TransferSteps
  <2>2. AccountsThere(o)'
    BY <1>0, <1>19, <1>20 DEF AccountsThere, accountExists
  <2>3. QED
    BY <1>20, <2>1, <2>2 DEF Work
<1>21. CASE TransferIds(o)
  <2>1. /\ step[o] = "transferIds" /\ step'[o] = "lockFirst" /\ UNCHANGED <<reply, bankAccounts>>
        /\ local'[o].id = local[o].id
        /\ local'[o].subtract_id = Sender /\ local'[o].add_id = Target
    BY <1>21 DEF TransferIds, Goes, BankTypeOK, Local, Sender, Target
  <2>2. IdsKept(o)' /\ MutexesHeld(o)'
    BY <1>0, <2>1 DEF IdsKept, MutexesHeld
  <2>3. QED
    BY <1>20, <2>1, <2>2 DEF TransferSteps
<1>22. ASSUME step[o] \in {"lockFirst", "lockSecond"}
       PROVE  /\ {LowerId(o), HigherId(o)} = {Sender, Target}
              /\ LowerId(o) \in AccountIds /\ HigherId(o) \in AccountIds
  <2>1. local[o].subtract_id = Sender /\ local[o].add_id = Target
    BY <1>22 DEF Work, IdsKept
  <2>2. QED
    BY <1>19, <1>22, <2>1 DEF LowerId, HigherId, TransferSteps
<1>23. CASE LockFirst(o)
  <2>1. /\ step[o] = "lockFirst" /\ step'[o] = "lockSecond"
        /\ UNCHANGED <<reply, bankAccounts, local>>
        /\ mutex' = [mutex EXCEPT ![LowerId(o)] = o]
    BY <1>23 DEF LockFirst, bankAccountLock, Goes, BankTypeOK
  <2>2. mutex'[LowerId(o)] = o /\ LowerId(o)' = LowerId(o)
    BY <1>22, <2>1 DEF BankTypeOK, LowerId
  <2>3. IdsKept(o)' /\ MutexesHeld(o)'
    BY <1>0, <2>1, <2>2 DEF Work, IdsKept, MutexesHeld
  <2>4. QED
    BY <1>20, <2>1, <2>3 DEF TransferSteps
<1>24. CASE LockSecond(o)
  <2>1. /\ step[o] = "lockSecond" /\ step'[o] = "subtract"
        /\ UNCHANGED <<reply, bankAccounts, local>>
        /\ mutex' = [mutex EXCEPT ![HigherId(o)] = o]
    BY <1>24 DEF LockSecond, bankAccountLock, Goes, BankTypeOK
  <2>2. mutex[LowerId(o)] = o
    BY <2>1 DEF Work, MutexesHeld
  <2>3. mutex'[Sender] = o /\ mutex'[Target] = o
    BY <1>22, <2>1, <2>2 DEF BankTypeOK
  <2>4. IdsKept(o)' /\ MutexesHeld(o)'
    BY <1>0, <2>1, <2>3 DEF IdsKept, MutexesHeld
  <2>5. QED
    BY <1>20, <2>1, <2>4 DEF TransferSteps
<1>25. ASSUME step[o] \in {"subtract", "subtractStore", "add", "addStore", "unlockFirst"}
       PROVE  mutex[Sender] = o /\ mutex[Target] = o
  BY <1>25 DEF Work, MutexesHeld
<1>26. ASSUME step[o] \in TransferSteps, step'[o] = "leave", NEW code \in ret_code \ {"RC_OK"},
              reply' = Code(o, code)
       PROVE  Work(o)'
  BY <1>2, <1>4, <1>19, <1>26
<1>27. CASE subtractBalance(o)
  <2>1. CASE step'[o] = "leave"
    <3>1. step[o] = "subtract" /\ reply' = Code(o, "RC_NO_FUNDS")
      BY <1>27, <2>1 DEF subtractBalance, Goes, BankTypeOK
    <3>2. QED
      BY <1>26, <2>1, <3>1 DEF TransferSteps, ret_code
  <2>2. CASE step'[o] # "leave"
    <3>1. /\ step[o] = "subtract" /\ step'[o] = "subtractStore"
          /\ UNCHANGED <<reply, bankAccounts, mutex>>
          /\ local'[o].id = local[o].id /\ local'[o].add_id = Sender
      BY <1>27, <2>2 DEF subtractBalance, Computed, Goes, BankTypeOK, Local, Sender
    <3>2. IdsKept(o)' /\ MutexesHeld(o)'
      BY <1>0, <1>25, <3>1 DEF IdsKept, MutexesHeld
    <3>3. QED
      BY <1>20, <3>1, <3>2 DEF TransferSteps
  <2>3. QED
    BY <2>1, <2>2
<1>28. CASE addBalance(o)
  <2>1. CASE step'[o] = "leave"
    <3>1. step[o] = "add" /\ reply' = Code(o, "RC_TOO_HIGH")
      BY <1>28, <2>1 DEF addBalance, Goes, BankTypeOK
    <3>2. QED
      BY <1>26, <2>1, <3>1 DEF TransferSteps, ret_code
  <2>2. CASE step'[o] # "leave"
    <3>1. /\ step[o] = "add" /\ step'[o] = "addStore"
          /\ UNCHANGED <<reply, bankAccounts, mutex>>
          /\ local'[o].id = local[o].id /\ local'[o].add_id = Target
      BY <1>28, <2>2 DEF addBalance, Computed, Goes, BankTypeOK, Local, Target
    <3>2. IdsKept(o)' /\ MutexesHeld(o)'
      BY <1>0, <1>25, <3>1 DEF IdsKept, MutexesHeld
    <3>3. QED
      BY <1>20, <3>1, <3>2 DEF TransferSteps
  <2>3. QED
    BY <2>1, <2>2
<1>29. CASE SubtractStore(o) \/ AddStore(o)
  <2>1. /\ \/ step[o] = "subtractStore" /\ step'[o] = "add"
           \/ step[o] = "addStore" /\ step'[o] = "unlockFirst"
        /\ UNCHANGED <<reply, local, mutex>>
        /\ DOMAIN bankAccounts' = DOMAIN bankAccounts
    BY <1>29 DEF SubtractStore, AddStore, StoreBalance, Goes, BankTypeOK
  <2>2. IdsKept(o)' /\ MutexesHeld(o)'
    BY <1>0, <1>25, <2>1 DEF IdsKept, MutexesHeld
  <2>3. QED
    BY <1>20, <2>1, <2>2 DEF TransferSteps
<1>30. CASE UnlockFirst(o)
  <2>1. /\ step[o] = "unlockFirst" /\ step'[o] = "unlockSecond"
        /\ UNCHANGED <<reply, bankAccounts>>
        /\ local'[o].id = local[o].id /\ local'[o].add_id = Target
        /\ mutex' = [mutex EXCEPT ![Sender] = 0]
    BY <1>30 DEF UnlockFirst, bankAccountUnlock, Goes, BankTypeOK, Local, Sender, Target
  <2>2. mutex'[Sender] = 0 /\ mutex'[Target] = o
    BY <1>19, <1>25, <2>1 DEF BankTypeOK, TransferSteps
  <2>3. IdsKept(o)' /\ MutexesHeld(o)'
    BY <1>0, <2>1, <2>2 DEF IdsKept, MutexesHeld
  <2>4. QED
    BY <1>20, <2>1, <2>3 DEF TransferSteps
<1>31. CASE UnlockSecond(o)
  <2>1. /\ step[o] = "unlockSecond" /\ step'[o] = "finalBalance"
        /\ UNCHANGED <<reply, bankAccounts, local>>
        /\ mutex' = [mutex EXCEPT ![local[o].add_id] = 0]
    BY <1>31 DEF UnlockSecond, bankAccountUnlock, Goes, BankTypeOK
  <2>2. local[o].add_id = Target /\ mutex[Sender] = 0
    BY <2>1 DEF Work, IdsKept, MutexesHeld
  <2>3. mutex'[Sender] = 0 /\ mutex'[Target] = 0
    BY <1>19, <2>1, <2>2 DEF BankTypeOK, TransferSteps
  <2>4. IdsKept(o)' /\ MutexesHeld(o)'
    BY <1>0, <2>1, <2>3 DEF IdsKept, MutexesHeld
  <2>5. QED
    BY <1>20, <2>1, <2>4 DEF TransferSteps
<1>32. CASE FinalBalance(o)
  <2>1. /\ step[o] = "finalBalance" /\ step'[o] = "leave"
        /\ UNCHANGED mutex
        /\ reply'[o].type = reply[o].type
    BY <1>32 DEF FinalBalance, Goes, BankTypeOK, Reply
  <2>2. mutex[Sender] = 0 /\ mutex[Target] = 0
    BY <2>1 DEF Work, MutexesHeld
  <2>3. reply[o].type = request.type
    BY <1>19, <2>1 DEF TransferSteps
  <2>4. QED
    BY <1>0, <2>1, <2>2, <2>3 DEF Work, TypeKept, AccountsThere, IdsKept, MutexesHeld,
                                  CreateSteps, BalanceSteps, TransferSteps
<1>33. CASE SegFault(o)
  BY <1>33, AccountsFound
<1>34. CASE ShutDown(o)
  <2>1. /\ step[o] = "shutdown" /\ step'[o] = "leave"
        /\ reply'[o].type = reply[o].type
    BY <1>34 DEF ShutDown, BankTypeOK, Reply
  <2>2. reply[o].type = request.type /\ request.type = "OP_SHUTDOWN"
    BY <2>1 DEF Work, TypeKept
  <2>3. QED
    BY <1>0, <2>1, <2>2 DEF Work, TypeKept, AccountsThere, IdsKept, MutexesHeld,
                            CreateSteps, BalanceSteps, TransferSteps
<1>35. CASE Leave(o)
  <2>1. step[o] = "leave" /\ step'[o] = "send" /\ UNCHANGED <<reply, mutex>>
    BY <1>35 DEF Leave, Goes, BankTypeOK
  <2>2. QED
    BY <1>0, <2>1 DEF Work, TypeKept, AccountsThere, IdsKept, MutexesHeld,
                      CreateSteps, BalanceSteps, TransferSteps
<1>36. QED
  BY <1>1, <1>3, <1>5, <1>7, <1>8, <1>9, <1>10, <1>11, <1>12, <1>13, <1>14, <1>16, <1>17, <1>18,
     <1>21, <1>23, <1>24, <1>27, <1>28, <1>29, <1>30, <1>31, <1>32, <1>33, <1>34, <1>35 DEF Process
\* An office outside processRequest has nothing to know.
LEMMA IdleWorks ==
  ASSUME NEW p \in Offices, step'[p] \in {"idle", "begin"}
  PROVE  Work(p)'
BY DEF Work, TypeKept, AccountsThere, IdsKept, MutexesHeld,
       CreateSteps, BalanceSteps, TransferSteps

\* Outside processRequest, request, accounts and mutexes are left alone as long
\* as some office is at work.
LEMMA WorkUndisturbed ==
  ASSUME BankTypeOK, NEW p \in Offices, Work(p),
         UNCHANGED <<bankAccounts, mutex, local, reply>>,
         step'[p] = step[p], UNCHANGED request
  PROVE  Work(p)'
<1>1. Sender' = Sender /\ Target' = Target /\ request'.type = request.type
  BY DEF Sender, Target, header, arguments
<1>2. \A id : accountExists(id)' = accountExists(id)
  BY DEF accountExists
<1>3. LowerId(p)' = LowerId(p)
  BY DEF LowerId
<1>4. TypeKept(p)' /\ AccountsThere(p)'
  BY <1>1, <1>2 DEF Work, TypeKept, AccountsThere
<1>5. IdsKept(p)' /\ MutexesHeld(p)'
  BY <1>1, <1>3 DEF Work, IdsKept, MutexesHeld
<1>6. QED
  BY <1>4, <1>5 DEF Work

\* While some office is at work, neither main nor a user writes to the request.
LEMMA RequestUndisturbed ==
  ASSUME MaxOutstanding = 1, OneRequest, NEW p \in Offices, step[p] # "idle",
         \/ MainThread \/ UserOpens \/ EndOfFile \/ \E m \in Messages : Arrives(m)
  PROVE  UNCHANGED <<request, incoming>>
<1>1. Carrying(p) /\ Serving
  BY DEF OneRequest, NothingLeft, Carrying
<1>2. ~InMain /\ waiting # {}
  BY <1>1 DEF OneRequest, OnePlace
<1>3. ~ \E m \in Messages : Arrives(m)
  BY <1>2, ArrivesAlone
<1>4. QED
  BY <1>2, <1>3
     DEF MainThread, MainStep, UserOpens, OpenFifo, EndOfFile, ReadEOF, LoopTest, ReadValue,
         WaitNotFull, WriteRequest, PostNotEmpty, DrainTest, DrainWait, DrainPost, WakeOffice,
         JoinOffices, MainGoes, InMain

\* With all offices idle, main may write to the request.
LEMMA MainLeavesWorkAlone ==
  ASSUME MaxOutstanding = 1, BankTypeOK, OneRequest, \A p \in Offices : Work(p),
         \/ MainThread \/ UserOpens \/ EndOfFile \/ \E m \in Messages : Arrives(m)
  PROVE  \A p \in Offices : Work(p)'
<1>1. UNCHANGED <<bankAccounts, mutex, local, reply, step>>
  BY DEF MainThread, UserOpens, EndOfFile, Arrives, OnlyQueue, bankVars
<1>2. ASSUME NEW p \in Offices, step[p] # "idle" PROVE UNCHANGED request
  BY <1>2, RequestUndisturbed
<1>3. ASSUME NEW p \in Offices PROVE Work(p)'
  <2>1. CASE step[p] = "idle"
    BY <1>1, <2>1, IdleWorks
  <2>2. CASE step[p] # "idle"
    BY <1>1, <1>2, <2>2, WorkUndisturbed
  <2>3. QED
    BY <2>1, <2>2
<1>4. QED
  BY <1>3

\* No office dereferences the pointer of a missing account.
LEMMA NoFault ==
  ASSUME BankTypeOK, NEW o \in Offices, Work(o), ~segfault, Process(o)
  PROVE  ~segfault'
<1>1. ~SegFault(o)
  BY AccountsFound
<1>2. UNCHANGED segfault
  <2>1. CASE BeginProcess(o) \/ LoginRead(o) \/ LoginFails(o) \/ Leave(o) \/ OPCreateAccount(o)
    BY <2>1 DEF BeginProcess, LoginRead, LoginFails, Leave, OPCreateAccount
  <2>2. CASE OPBalance(o) \/ OPTransfer(o) \/ BeginShutDown(o) \/ ShutDown(o) \/ sendReply(o)
    BY <2>2 DEF OPBalance, OPTransfer, BeginShutDown, ShutDown, sendReply
  <2>3. CASE CreateCopy(o) \/ CreateLock(o) \/ Create(o) \/ CreateUnlock(o)
    BY <2>3 DEF CreateCopy, CreateLock, Create, CreateUnlock
  <2>4. CASE BalanceLock(o) \/ checkBalance(o) \/ BalanceUnlock(o) \/ TransferIds(o)
    BY <2>4 DEF BalanceLock, checkBalance, BalanceUnlock, TransferIds
  <2>5. CASE LockFirst(o) \/ LockSecond(o) \/ subtractBalance(o) \/ addBalance(o)
    BY <2>5 DEF LockFirst, LockSecond, subtractBalance, addBalance
  <2>6. CASE SubtractStore(o) \/ AddStore(o) \/ UnlockFirst(o) \/ UnlockSecond(o) \/ FinalBalance(o)
    BY <2>6 DEF SubtractStore, AddStore, StoreBalance, UnlockFirst, UnlockSecond, FinalBalance
  <2>7. QED
    BY <1>1, <2>1, <2>2, <2>3, <2>4, <2>5, <2>6 DEF Process
<1>3. QED
  BY <1>2

LEMMA OneUserInit == BankInit => OneUserInv
<1> SUFFICES ASSUME BankInit PROVE OneUserInv
  OBVIOUS
<1>1. OneRequest
  BY OneRequestInit
<1>2. ~segfault /\ \A o \in Offices : step[o] = "idle"
  BY DEF BankInit
<1>3. \A o \in Offices : Work(o)
  BY <1>2 DEF Work, TypeKept, AccountsThere, IdsKept, MutexesHeld,
              CreateSteps, BalanceSteps, TransferSteps
<1>4. QED
  BY <1>1, <1>2, <1>3 DEF OneUserInv

\* The invariant of users in turn is inductive, given that of the queue and the
\* types.
LEMMA OneUserStep ==
  ASSUME MaxOutstanding = 1, QueueInv, BankTypeOK, OneUserInv, [BankNext]_serverVars
  PROVE  OneUserInv'
<1>1. TypeOK /\ OneRequest /\ ~segfault /\ \A p \in Offices : Work(p)
  BY DEF QueueInv, OneUserInv
<1>2. CASE MainThread \/ UserOpens \/ EndOfFile \/ \E m \in Messages : Arrives(m)
  <2>1. OneRequest'
    BY <1>1, <1>2, MainKeepsOneRequest, UsersKeepOneRequest
  <2>2. \A p \in Offices : Work(p)'
    BY <1>1, <1>2, MainLeavesWorkAlone
  <2>3. UNCHANGED segfault
    BY <1>2 DEF MainThread, UserOpens, EndOfFile, Arrives, OnlyQueue, bankVars
  <2>4. QED
    BY <1>1, <2>1, <2>2, <2>3 DEF OneUserInv
<1>3. ASSUME NEW o \in Offices, OfficeLoop(o) \/ TakeRequest(o) PROVE OneUserInv'
  <2>1. OneRequest'
    BY <1>1, <1>3, OfficeKeepsOneRequest
  <2>2. UNCHANGED <<bankAccounts, mutex, local, reply, segfault, request>>
    BY <1>3 DEF OfficeLoop, TakeRequest, WaitNotEmpty, CheckDown, ReadRequest, PostNotFull,
                OnlyQueue, bankVars, mainVars
  <2>3. \A p \in Offices : step'[p] = step[p] \/ step'[p] = "begin"
    BY <1>3 DEF OfficeLoop, TakeRequest, OnlyQueue, bankVars, BankTypeOK
  <2>4. \A p \in Offices : Work(p)'
    BY <1>1, <2>2, <2>3, IdleWorks, WorkUndisturbed
  <2>5. QED
    BY <1>1, <2>1, <2>2, <2>4 DEF OneUserInv
<1>4. ASSUME NEW o \in Offices, Process(o) PROVE OneUserInv'
  <2>1. OneRequest'
    BY <1>1, <1>4, ProcessKeepsOneRequest
  <2>2. UNCHANGED request /\ \A p \in Offices : p # o => step'[p] = "idle"
    BY <1>1, <1>4, ProcessAlone
  <2>3. Work(o)'
    BY <1>1, <1>4, <2>2, ProcessKeepsWork
  <2>4. \A p \in Offices : Work(p)'
    BY <2>2, <2>3, IdleWorks
  <2>5. ~segfault'
    BY <1>1, <1>4, NoFault
  <2>6. QED
    BY <2>1, <2>4, <2>5 DEF OneUserInv
<1>5. CASE ServerStopped \/ UNCHANGED serverVars
  <2>1. UNCHANGED serverVars
    BY <1>5 DEF ServerStopped
  <2>2. UNCHANGED <<main, n, request, incoming, itemsNo, notEmpty, office, serverDown>>
    BY <2>1 DEF serverVars, vars, mainVars, queueVars, semVars, officeVars
  <2>3. UNCHANGED <<bankAccounts, mutex, local, reply, step, waiting, segfault>>
    BY <2>1 DEF serverVars, bankVars
  <2>4. OneRequest'
    BY <1>1, <2>2, <2>3
       DEF OneRequest, OnePlace, NothingLeft, StructIsMessage, Serving, InMain, Carrying,
           header, arguments
  <2>5. \A p \in Offices : Work(p)'
    BY <1>1, <2>2, <2>3, WorkUndisturbed
  <2>6. QED
    BY <1>1, <2>3, <2>4, <2>5 DEF OneUserInv
<1>6. QED
  BY <1>2, <1>3, <1>4, <1>5 DEF BankNext, OfficeThread

\* With users in turn there is one request in the server at a time, in one
\* place, and what its office found, copied and locked stays as it was.
THEOREM OneUserInvariant ==
  ASSUME MaxOutstanding = 1
  PROVE  BankSpec => []OneUserInv
<1>1. OneUserInv /\ (QueueInv /\ BankTypeOK) /\ [BankNext]_serverVars => OneUserInv'
  BY OneUserStep
<1>2. BankSpec => [](QueueInv /\ BankTypeOK)
  BY BankKeepsQueueInv, BankTypeCorrect, PTL
<1>3. QED
  BY <1>1, <1>2, OneUserInit, PTL DEF BankSpec

\* An operation that succeeded left the mutexes of its accounts free, for any
\* number of offices and whatever earlier transfers left locked.
THEOREM SuccessLeavesUnlocked ==
  ASSUME MaxOutstanding = 1
  PROVE  BankSpec => []SuccessUnlocks
<1>1. OneUserInv => SuccessUnlocks
  BY DEF OneUserInv, Work, MutexesHeld, SuccessUnlocks, Sender, Target
<1>2. QED
  BY <1>1, OneUserInvariant, PTL

\* With users in turn the server does not crash: the account an office found is
\* there until it has answered.
THEOREM ServesWithoutFault ==
  ASSUME MaxOutstanding = 1
  PROVE  BankSpec => []NoSegFault
<1>1. OneUserInv => NoSegFault
  BY DEF OneUserInv, NoSegFault
<1>2. QED
  BY <1>1, OneUserInvariant, PTL

-----------------------------------------------------------------------------
(* No account changes without its mutex.                                   *)

\* Only three steps write to the accounts, each to one account, and each under
\* the mutex of this account.
LEMMA ProcessChangesUnderLock ==
  ASSUME BankTypeOK, NEW o \in Offices, Work(o), Process(o),
         NEW id \in AccountIds, id \in DOMAIN bankAccounts',
         id \in DOMAIN bankAccounts => bankAccounts'[id] # bankAccounts[id]
  PROVE  mutex[id] = o /\ step[o] \in {"create", "subtractStore", "addStore"}
<1>1. CASE Create(o)
  <2>1. /\ step[o] = "create"
        /\ \A i \in DOMAIN bankAccounts' :
             i # local[o].id => i \in DOMAIN bankAccounts /\ bankAccounts'[i] = bankAccounts[i]
    BY <1>1 DEF Create, createBankAccount, Goes
  <2>2. id = local[o].id
    BY <2>1
  <2>3. QED
    BY <2>1, <2>2 DEF Work, IdsKept, MutexesHeld
<1>2. CASE SubtractStore(o) \/ AddStore(o)
  <2>1. /\ step[o] \in {"subtractStore", "addStore"}
        /\ DOMAIN bankAccounts' = DOMAIN bankAccounts
        /\ \A i \in DOMAIN bankAccounts' :
             i # local[o].add_id => bankAccounts'[i] = bankAccounts[i]
    BY <1>2 DEF SubtractStore, AddStore, StoreBalance, Goes
  <2>2. id = local[o].add_id
    BY <2>1
  <2>3. QED
    BY <2>1, <2>2 DEF Work, IdsKept, MutexesHeld
<1>3. ASSUME UNCHANGED bankAccounts PROVE FALSE
  BY <1>3
<1>4. CASE BeginProcess(o) \/ LoginRead(o) \/ LoginFails(o) \/ Leave(o) \/ OPCreateAccount(o)
  BY <1>3, <1>4 DEF BeginProcess, LoginRead, LoginFails, Leave, OPCreateAccount
<1>5. CASE OPBalance(o) \/ OPTransfer(o) \/ BeginShutDown(o) \/ ShutDown(o) \/ sendReply(o)
  BY <1>3, <1>5 DEF OPBalance, OPTransfer, BeginShutDown, ShutDown, sendReply
<1>6. CASE CreateCopy(o) \/ CreateLock(o) \/ CreateUnlock(o) \/ SegFault(o)
  BY <1>3, <1>6 DEF CreateCopy, CreateLock, CreateUnlock, SegFault
<1>7. CASE BalanceLock(o) \/ checkBalance(o) \/ BalanceUnlock(o) \/ TransferIds(o)
  BY <1>3, <1>7 DEF BalanceLock, checkBalance, BalanceUnlock, TransferIds
<1>8. CASE LockFirst(o) \/ LockSecond(o) \/ subtractBalance(o) \/ addBalance(o)
  BY <1>3, <1>8 DEF LockFirst, LockSecond, subtractBalance, addBalance
<1>9. CASE UnlockFirst(o) \/ UnlockSecond(o) \/ FinalBalance(o)
  BY <1>3, <1>9 DEF UnlockFirst, UnlockSecond, FinalBalance
<1>10. QED
  BY <1>1, <1>2, <1>4, <1>5, <1>6, <1>7, <1>8, <1>9 DEF Process

\* An account changes only in the hands of an office that holds its mutex, for
\* any number of offices and accounts, as long as users come one after another.
THEOREM AccountsChangeUnderLock ==
  ASSUME MaxOutstanding = 1
  PROVE  BankSpec => ChangesUnderLock
<1> DEFINE Change(id) ==
      id \in DOMAIN bankAccounts' /\ (id \in DOMAIN bankAccounts => bankAccounts'[id] # bankAccounts[id])
    Held(id) == mutex[id] # 0 /\ step[mutex[id]] \in {"create", "subtractStore", "addStore"}
    UnderLock == \A id \in AccountIds : Change(id) => Held(id)
<1>1. BankTypeOK /\ OneUserInv /\ [BankNext]_serverVars => [UnderLock]_serverVars
  <2> SUFFICES ASSUME BankTypeOK, OneUserInv, [BankNext]_serverVars,
                      NEW id \in AccountIds, Change(id)
               PROVE  Held(id)
    OBVIOUS
  <2>1. ASSUME UNCHANGED bankAccounts PROVE FALSE
    BY <2>1
  <2>2. CASE MainThread \/ UserOpens \/ EndOfFile \/ \E m \in Messages : Arrives(m)
    BY <2>1, <2>2 DEF MainThread, UserOpens, EndOfFile, Arrives, OnlyQueue, bankVars
  <2>3. CASE \E o \in Offices : OfficeLoop(o) \/ TakeRequest(o)
    BY <2>1, <2>3 DEF OfficeLoop, TakeRequest, OnlyQueue, bankVars
  <2>4. ASSUME NEW o \in Offices, Process(o) PROVE Held(id)
    <3>1. Work(o)
      BY DEF OneUserInv
    <3>2. mutex[id] = o /\ step[o] \in {"create", "subtractStore", "addStore"}
      BY <2>4, <3>1, ProcessChangesUnderLock
    <3>3. o # 0
      BY QueueAssumption DEF Offices
    <3>4. QED
      BY <3>2, <3>3
  <2>5. CASE ServerStopped \/ UNCHANGED serverVars
    BY <2>1, <2>5 DEF ServerStopped, serverVars, bankVars
  <2>6. QED
    BY <2>2, <2>3, <2>4, <2>5 DEF BankNext, OfficeThread
<1>2. BankSpec => [][UnderLock]_serverVars
  BY <1>1, BankTypeCorrect, OneUserInvariant, PTL DEF BankSpec
<1>3. QED
  BY <1>2 DEF ChangesUnderLock
=============================================================================
