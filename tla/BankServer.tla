----------------------------- MODULE BankServer -----------------------------
(***************************************************************************)
(* What a bank office does with its request: processRequest, the           *)
(* operations on the accounts under their mutexes, and sendReply.          *)
(*                                                                         *)
(* The module adds the accounts to RequestQueue and opens its "process"    *)
(* step up.  Main enqueues the address of its one struct, so every office  *)
(* works on the shared variable request of RequestQueue, and every access  *)
(* to bankOffice->request in the code reads it anew.  What the code keeps  *)
(* in a local variable is kept in local[o].                                *)
(*                                                                         *)
(* A step runs from one system call or synchronising call of the office to *)
(* the next (locking, hashing, sleeping, logging).  In addition what the   *)
(* code checks and what it then uses are read in two steps, because main   *)
(* may write to the request in between, and the load and the store of a    *)
(* balance are two steps.                                                  *)
(***************************************************************************)
EXTENDS RequestQueue, UserRequests

CONSTANTS
  Salts,           \* what generateSalt may draw
  AdminPassword,   \* given on the command line of the server
  MaxOutstanding,  \* bound: users whose request main has begun to read and
                   \* who have no reply yet (1: users one after another)
  MaxActive        \* bound: users stop coming when activeBankOffices, which
                   \* failed logins leave raised, has reached it

ASSUME BankAssumption ==
  /\ AdminPassword \in Passwords
  /\ Salts # {}
  /\ \A m \in Messages : SentByUsers(m)
  /\ MaxOutstanding \in Nat \ {0}
  /\ MaxActive \in Nat \ {0}

VARIABLES
  bankAccounts,       \* the accounts that exist, by id
  mutex,              \* holder of each account's mutex, 0 when it is free
  activeBankOffices,
  step,               \* where an office is inside processRequest and sendReply
  local,              \* local variables of the operation under way
  reply,              \* the reply struct of each office
  waiting,            \* the users that wait for a reply
  segfault            \* an office dereferenced the pointer of a missing account

bankVars == <<bankAccounts, mutex, activeBankOffices, step, local, reply, waiting, segfault>>
serverVars == <<vars, bankVars>>

Hash(password, salt) == <<password, salt>>
Account == [hash : {Hash(p, s) : p \in Passwords, s \in Salts}, salt : Salts, balance : Int]

Local == [id : AccountIds, subtract_id : AccountIds, add_id : AccountIds,
          password : Passwords, salt : Salts, value : Int]
Reply == [type : op_type, account_id : AccountIds, ret_code : ret_code, number : Int]

Steps == {"idle", "begin", "login", "hash",
          "createCopy", "createLock", "create", "createUnlock",
          "balanceLock", "balance", "balanceUnlock",
          "transferIds", "lockFirst", "lockSecond",
          "subtract", "subtractStore", "add", "addStore", "unlockFirst", "unlockSecond",
          "finalBalance", "shutdown", "leave", "send"}

header == request.value.header
arguments == request.value.arguments

accountExists(id) == id \in DOMAIN bankAccounts

ServerUp == Running /\ ~segfault

Goes(o, from, to) ==
  /\ ServerUp
  /\ office[o] = "process"
  /\ step[o] = from
  /\ step' = [step EXCEPT ![o] = to]
  /\ UNCHANGED vars

\* reply->value.header.ret_code = code
Code(o, code) == [reply EXCEPT ![o].ret_code = code]

-----------------------------------------------------------------------------
createBankAccount(id, number, password, salt) ==
  bankAccounts' = [i \in DOMAIN bankAccounts \union {id} |->
                     IF i = id THEN [hash    |-> Hash(password, salt),
                                     salt    |-> salt,
                                     balance |-> number]
                               ELSE bankAccounts[i]]

createAdminAccount(salt) ==
  bankAccounts = [i \in {ADMIN_ACCOUNT_ID} |-> [hash    |-> Hash(AdminPassword, salt),
                                                salt    |-> salt,
                                                balance |-> ADMIN_ACCOUNT_BALLANCE]]

\* Local variables are gone when processRequest returns.
NoLocals == [id |-> 0, subtract_id |-> 0, add_id |-> 0, password |-> AdminPassword,
             salt |-> CHOOSE s \in Salts : TRUE, value |-> 0]

\* The reply struct before the next request: only account_id can be sent again
\* as it is, the other fields are set on every path that sends them.
NextReply(account_id) == [type |-> "OP_CREATE_ACCOUNT", account_id |-> account_id,
                          ret_code |-> "RC_OK", number |-> 0]

\* The structs of the offices come from the fresh heap.
BankInit ==
  /\ Init
  /\ \E salt \in Salts : createAdminAccount(salt)
  /\ mutex = [id \in AccountIds |-> 0]
  /\ activeBankOffices = 0
  /\ step = [o \in Offices |-> "idle"]
  /\ local = [o \in Offices |-> NoLocals]
  /\ reply = [o \in Offices |-> NextReply(0)]
  /\ waiting = {}
  /\ segfault = FALSE

-----------------------------------------------------------------------------
(* processRequest up to the switch.                                        *)

BeginProcess(o) ==
  /\ Goes(o, "begin", "login")
  /\ activeBankOffices' = activeBankOffices + 1
  /\ UNCHANGED <<bankAccounts, mutex, local, reply, waiting, segfault>>

\* validateLogin up to the hash; an unknown account fails at once.  Every
\* failed login returns from processRequest without the decrement at its end.
LoginRead(o) ==
  LET id == header.account_id IN
  /\ Goes(o, "login", IF accountExists(id) THEN "hash" ELSE "send")
  /\ IF accountExists(id)
     THEN /\ reply' = [reply EXCEPT ![o].type = request.type]
          /\ local' = [local EXCEPT ![o].id = id,
                                    ![o].password = header.password,
                                    ![o].salt = bankAccounts[id].salt]
     ELSE /\ reply' = [reply EXCEPT ![o].type = request.type,
                                    ![o].ret_code = "RC_LOGIN_FAIL"]
          /\ UNCHANGED local
  /\ UNCHANGED <<bankAccounts, mutex, activeBankOffices, waiting, segfault>>

\* Seeded fault: any password will do.
validateLoginAny(o) == accountExists(local[o].id)

\* What strcmp says after generateHash has returned.
validateLogin(o) ==
  Hash(local[o].password, local[o].salt) = bankAccounts[local[o].id].hash

LoginFails(o) ==
  /\ Goes(o, "hash", "send")
  /\ ~validateLogin(o)
  /\ reply' = Code(o, "RC_LOGIN_FAIL")
  /\ UNCHANGED <<bankAccounts, mutex, activeBankOffices, local, waiting, segfault>>

\* The switch: the login is valid and the type, read again, is that of the case.
Dispatch(o, type, to) ==
  /\ Goes(o, "hash", to)
  /\ validateLogin(o)
  /\ request.type = type

checkAdminOperation == header.account_id = ADMIN_ACCOUNT_ID

-----------------------------------------------------------------------------
validateCreateAccount ==
  IF ~checkAdminOperation THEN "RC_OP_NALLOW"
  ELSE IF accountExists(arguments.account_id) THEN "RC_ID_IN_USE"
  ELSE "RC_OK"

OPCreateAccount(o) ==
  LET code == validateCreateAccount IN
  /\ Dispatch(o, "OP_CREATE_ACCOUNT", IF code = "RC_OK" THEN "createCopy" ELSE "leave")
  /\ reply' = Code(o, code)
  /\ UNCHANGED <<bankAccounts, mutex, activeBankOffices, local, waiting, segfault>>

\* The creation goes on with its own copy of the arguments.
CreateCopy(o) ==
  /\ Goes(o, "createCopy", "createLock")
  /\ local' = [local EXCEPT ![o].id = arguments.account_id,
                            ![o].value = arguments.number,
                            ![o].password = arguments.password]
  /\ UNCHANGED <<bankAccounts, mutex, activeBankOffices, reply, waiting, segfault>>

\* bankAccountLock: pthread_mutex_lock blocks also when o itself is the holder.
bankAccountLock(o, id) ==
  /\ mutex[id] = 0
  /\ mutex' = [mutex EXCEPT ![id] = o]

\* Seeded fault: unlocking counts down instead of releasing.
bankAccountUnlockCounted(id) == mutex' = [mutex EXCEPT ![id] = @ - 1]

\* pthread_mutex_unlock of a default mutex frees it whoever holds it.
bankAccountUnlock(id) == mutex' = [mutex EXCEPT ![id] = 0]

\* Seeded fault: the mutex of the requesting account is taken.
CreateLockRequester(o) ==
  /\ Goes(o, "createLock", "create")
  /\ bankAccountLock(o, header.account_id)
  /\ UNCHANGED <<bankAccounts, activeBankOffices, local, reply, waiting, segfault>>

CreateLock(o) ==
  /\ Goes(o, "createLock", "create")
  /\ bankAccountLock(o, local[o].id)
  /\ UNCHANGED <<bankAccounts, activeBankOffices, local, reply, waiting, segfault>>

Create(o) ==
  /\ Goes(o, "create", "createUnlock")
  /\ \E salt \in Salts :
       createBankAccount(local[o].id, local[o].value, local[o].password, salt)
  /\ UNCHANGED <<mutex, activeBankOffices, local, reply, waiting, segfault>>

CreateUnlock(o) ==
  /\ Goes(o, "createUnlock", "leave")
  /\ bankAccountUnlock(local[o].id)
  /\ reply' = [reply EXCEPT ![o].account_id = header.account_id]
  /\ UNCHANGED <<bankAccounts, activeBankOffices, local, waiting, segfault>>

-----------------------------------------------------------------------------
validateOPBalance == IF checkAdminOperation THEN "RC_OP_NALLOW" ELSE "RC_OK"

OPBalance(o) ==
  LET code == validateOPBalance IN
  /\ Dispatch(o, "OP_BALANCE", IF code = "RC_OK" THEN "balanceLock" ELSE "leave")
  /\ IF code = "RC_OK"
     THEN /\ reply' = [reply EXCEPT ![o].ret_code = code,
                                    ![o].account_id = header.account_id]
          /\ local' = [local EXCEPT ![o].id = header.account_id]
     ELSE /\ reply' = Code(o, code)
          /\ UNCHANGED local
  /\ UNCHANGED <<bankAccounts, mutex, activeBankOffices, waiting, segfault>>

BalanceLock(o) ==
  /\ Goes(o, "balanceLock", "balance")
  /\ bankAccountLock(o, local[o].id)
  /\ UNCHANGED <<bankAccounts, activeBankOffices, local, reply, waiting, segfault>>

checkBalance(o) ==
  LET id == header.account_id IN
  /\ Goes(o, "balance", "balanceUnlock")
  /\ accountExists(id)
  /\ reply' = [reply EXCEPT ![o].number = bankAccounts[id].balance]
  /\ UNCHANGED <<bankAccounts, mutex, activeBankOffices, local, waiting, segfault>>

\* Seeded fault: the mutex stays locked after the balance was read.
BalanceNotUnlocked(o) ==
  /\ Goes(o, "balanceUnlock", "leave")
  /\ UNCHANGED <<bankAccounts, mutex, activeBankOffices, local, reply, waiting, segfault>>

BalanceUnlock(o) ==
  /\ Goes(o, "balanceUnlock", "leave")
  /\ bankAccountUnlock(header.account_id)
  /\ UNCHANGED <<bankAccounts, activeBankOffices, local, reply, waiting, segfault>>

-----------------------------------------------------------------------------
\* Seeded fault: the administrator is turned away last.
validateOPTransferAdminLast ==
  IF ~accountExists(arguments.account_id) THEN "RC_ID_NOT_FOUND"
  ELSE IF arguments.account_id = header.account_id THEN "RC_SAME_ID"
  ELSE IF checkAdminOperation THEN "RC_OP_NALLOW"
  ELSE "RC_OK"

\* Seeded fault: the target of a transfer is not looked for.
validateOPTransferNoTarget ==
  IF checkAdminOperation THEN "RC_OP_NALLOW"
  ELSE IF arguments.account_id = header.account_id THEN "RC_SAME_ID"
  ELSE "RC_OK"

validateOPTransfer ==
  IF checkAdminOperation THEN "RC_OP_NALLOW"
  ELSE IF ~accountExists(arguments.account_id) THEN "RC_ID_NOT_FOUND"
  ELSE IF arguments.account_id = header.account_id THEN "RC_SAME_ID"
  ELSE "RC_OK"

OPTransfer(o) ==
  LET code == validateOPTransfer IN
  /\ Dispatch(o, "OP_TRANSFER", IF code = "RC_OK" THEN "transferIds" ELSE "leave")
  /\ reply' = [reply EXCEPT ![o].ret_code = code,
                            ![o].account_id = header.account_id,
                            ![o].number = arguments.number]
  /\ local' = [local EXCEPT ![o].id = header.account_id]
  /\ UNCHANGED <<bankAccounts, mutex, activeBankOffices, waiting, segfault>>

\* lockAccountsTranfer takes the mutex of the lower id first.
TransferIds(o) ==
  /\ Goes(o, "transferIds", "lockFirst")
  /\ local' = [local EXCEPT ![o].subtract_id = header.account_id,
                            ![o].add_id = arguments.account_id]
  /\ UNCHANGED <<bankAccounts, mutex, activeBankOffices, reply, waiting, segfault>>

LowerId(o) ==
  IF local[o].subtract_id < local[o].add_id THEN local[o].subtract_id ELSE local[o].add_id
HigherId(o) ==
  IF local[o].subtract_id < local[o].add_id THEN local[o].add_id ELSE local[o].subtract_id

LockFirst(o) ==
  /\ Goes(o, "lockFirst", "lockSecond")
  /\ bankAccountLock(o, LowerId(o))
  /\ UNCHANGED <<bankAccounts, activeBankOffices, local, reply, waiting, segfault>>

LockSecond(o) ==
  /\ Goes(o, "lockSecond", "subtract")
  /\ bankAccountLock(o, HigherId(o))
  /\ UNCHANGED <<bankAccounts, activeBankOffices, local, reply, waiting, segfault>>

\* Seeded fault: the lower limit is not looked at.
NeverTooLow(newBalance) == FALSE

TooLow(newBalance) == newBalance < MIN_BALANCE
TooHigh(newBalance) == newBalance > MAX_BALANCE

\* Seeded fault: the balance is stored for the account of the sender.
ComputedForSender(o, id, balance) ==
  [local EXCEPT ![o].add_id = header.account_id, ![o].value = balance]

\* The new balance is kept, with the id it is for, until the store.
Computed(o, id, balance) == [local EXCEPT ![o].add_id = id, ![o].value = balance]

\* Too low a balance ends the transfer here, with both mutexes still locked.
subtractBalance(o) ==
  LET id == header.account_id
      newBalance == bankAccounts[id].balance - arguments.number
  IN
  \/ /\ accountExists(id)
     /\ TooLow(newBalance)
     /\ Goes(o, "subtract", "leave")
     /\ reply' = Code(o, "RC_NO_FUNDS")
     /\ UNCHANGED <<bankAccounts, mutex, activeBankOffices, local, waiting, segfault>>
  \/ /\ accountExists(id)
     /\ ~TooLow(newBalance)
     /\ Goes(o, "subtract", "subtractStore")
     /\ local' = Computed(o, id, newBalance)
     /\ UNCHANGED <<bankAccounts, mutex, activeBankOffices, reply, waiting, segfault>>

StoreBalance(o, from, to) ==
  /\ Goes(o, from, to)
  /\ bankAccounts' = [bankAccounts EXCEPT ![local[o].add_id].balance = local[o].value]
  /\ UNCHANGED <<mutex, activeBankOffices, local, reply, waiting, segfault>>

SubtractStore(o) == StoreBalance(o, "subtractStore", "add")

\* Too high a balance ends the transfer here: the mutexes stay locked and what
\* was subtracted stays subtracted.
addBalance(o) ==
  LET id == arguments.account_id
      newBalance == bankAccounts[id].balance + arguments.number
  IN
  \/ /\ accountExists(id)
     /\ TooHigh(newBalance)
     /\ Goes(o, "add", "leave")
     /\ reply' = Code(o, "RC_TOO_HIGH")
     /\ UNCHANGED <<bankAccounts, mutex, activeBankOffices, local, waiting, segfault>>
  \/ /\ accountExists(id)
     /\ ~TooHigh(newBalance)
     /\ Goes(o, "add", "addStore")
     /\ local' = Computed(o, id, newBalance)
     /\ UNCHANGED <<bankAccounts, mutex, activeBankOffices, reply, waiting, segfault>>

AddStore(o) == StoreBalance(o, "addStore", "unlockFirst")

\* unlockAccountsTranfer reads both ids again before the first unlock.
UnlockFirst(o) ==
  /\ Goes(o, "unlockFirst", "unlockSecond")
  /\ bankAccountUnlock(header.account_id)
  /\ local' = [local EXCEPT ![o].add_id = arguments.account_id]
  /\ UNCHANGED <<bankAccounts, activeBankOffices, reply, waiting, segfault>>

\* Seeded fault: the same mutex is unlocked twice.
UnlockSecondSame(o) ==
  /\ Goes(o, "unlockSecond", "finalBalance")
  /\ bankAccountUnlock(header.account_id)
  /\ UNCHANGED <<bankAccounts, activeBankOffices, local, reply, waiting, segfault>>

UnlockSecond(o) ==
  /\ Goes(o, "unlockSecond", "finalBalance")
  /\ bankAccountUnlock(local[o].add_id)
  /\ UNCHANGED <<bankAccounts, activeBankOffices, local, reply, waiting, segfault>>

\* OPTransfer reads the balance for the reply after the unlocks.
FinalBalance(o) ==
  LET id == local[o].id IN
  /\ Goes(o, "finalBalance", "leave")
  /\ accountExists(id)
  /\ reply' = [reply EXCEPT ![o].number = bankAccounts[id].balance]
  /\ UNCHANGED <<bankAccounts, mutex, activeBankOffices, local, waiting, segfault>>

\* The account whose balance the next step of o takes from the table.
AccountRead(o) ==
  CASE step[o] \in {"balance", "subtract"} -> header.account_id
    [] step[o] = "add"                     -> arguments.account_id
    [] step[o] = "finalBalance"            -> local[o].id

\* The table holds NULL for an account that does not exist: the server dies.
SegFault(o) ==
  /\ step[o] \in {"balance", "subtract", "add", "finalBalance"}
  /\ ~accountExists(AccountRead(o))
  /\ Goes(o, step[o], step[o])
  /\ segfault' = TRUE
  /\ UNCHANGED <<bankAccounts, mutex, activeBankOffices, local, reply, waiting>>

-----------------------------------------------------------------------------
validateShutDown == IF ~checkAdminOperation THEN "RC_OP_NALLOW" ELSE "RC_OK"

\* Up to the sleep and the chmod of the server's FIFO.
BeginShutDown(o) ==
  LET code == validateShutDown IN
  /\ Dispatch(o, "OP_SHUTDOWN", IF code = "RC_OK" THEN "shutdown" ELSE "leave")
  /\ reply' = IF code = "RC_OK"
              THEN [reply EXCEPT ![o].ret_code = code, ![o].account_id = header.account_id]
              ELSE Code(o, code)
  /\ UNCHANGED <<bankAccounts, mutex, activeBankOffices, local, waiting, segfault>>

\* activeBankOffices is read without its mutex.
ShutDown(o) ==
  /\ ServerUp
  /\ step[o] = "shutdown"
  /\ step' = [step EXCEPT ![o] = "leave"]
  /\ OPShutDown(o)
  /\ reply' = [reply EXCEPT ![o].number = activeBankOffices - 1]
  /\ UNCHANGED <<bankAccounts, mutex, activeBankOffices, local, waiting, segfault>>

-----------------------------------------------------------------------------
\* Seeded fault: the counter is cleared instead of counted down.
LeaveClearing(o) ==
  /\ Goes(o, "leave", "send")
  /\ activeBankOffices' = 0
  /\ UNCHANGED <<bankAccounts, mutex, local, reply, waiting, segfault>>

\* The end of processRequest.
Leave(o) ==
  /\ Goes(o, "leave", "send")
  /\ activeBankOffices' = activeBankOffices - 1
  /\ UNCHANGED <<bankAccounts, mutex, local, reply, waiting, segfault>>

\* openFifoReply and write: the reply goes to the FIFO of the user that the
\* request names now.  If that user has had its reply already, its FIFO is gone,
\* open() fails, and nobody gets this one.
sendReply(o) ==
  /\ ServerUp
  /\ step[o] = "send"
  /\ step' = [step EXCEPT ![o] = "idle"]
  /\ FinishRequest(o)
  /\ waiting' = waiting \ {header.pid}
  /\ reply' = [reply EXCEPT ![o] = NextReply(reply[o].account_id)]
  /\ local' = [local EXCEPT ![o] = NoLocals]
  /\ UNCHANGED <<bankAccounts, mutex, activeBankOffices, segfault>>

-----------------------------------------------------------------------------
\* A user has written message m to the server's FIFO and waits for its reply.
Arrives(m) ==
  /\ ServerUp
  /\ ReadType(m)
  /\ m.value.header.pid \notin waiting
  /\ Cardinality(waiting) < MaxOutstanding
  /\ activeBankOffices < MaxActive
  /\ waiting' = waiting \union {m.value.header.pid}
  /\ UNCHANGED <<bankAccounts, mutex, activeBankOffices, step, local, reply, segfault>>

\* A step of RequestQueue that does nothing else.
OnlyQueue == ServerUp /\ UNCHANGED bankVars

\* A waiting user keeps the server's FIFO open, so main sees the end of file
\* only when nobody waits.
EndOfFile == ReadEOF /\ waiting = {} /\ OnlyQueue

\* Seeded fault: an office begins to work without giving the slot back.
TakeRequestKeepSlot(o) ==
  /\ ServerUp
  /\ OfficeGoes(o, "post", "process")
  /\ step' = [step EXCEPT ![o] = "begin"]
  /\ UNCHANGED <<mainVars, queueVars, semVars, held, serverDown, crashed>>
  /\ UNCHANGED <<bankAccounts, mutex, activeBankOffices, local, reply, waiting, segfault>>

\* runBankOffice goes from its loop into processRequest.
TakeRequest(o) ==
  /\ ServerUp
  /\ PostNotFull(o)
  /\ step' = [step EXCEPT ![o] = "begin"]
  /\ UNCHANGED <<bankAccounts, mutex, activeBankOffices, local, reply, waiting, segfault>>

OfficeLoop(o) ==
  \/ WaitNotEmpty(o) /\ OnlyQueue
  \/ CheckDown(o) /\ OnlyQueue
  \/ ReadRequest(o) /\ OnlyQueue

MainThread == MainStep /\ OnlyQueue
UserOpens == OpenFifo /\ OnlyQueue

Process(o) ==
  \/ BeginProcess(o) \/ LoginRead(o) \/ LoginFails(o)
  \/ OPCreateAccount(o) \/ CreateCopy(o) \/ CreateLock(o) \/ Create(o) \/ CreateUnlock(o)
  \/ OPBalance(o) \/ BalanceLock(o) \/ checkBalance(o) \/ BalanceUnlock(o)
  \/ OPTransfer(o) \/ TransferIds(o) \/ LockFirst(o) \/ LockSecond(o)
  \/ subtractBalance(o) \/ SubtractStore(o) \/ addBalance(o) \/ AddStore(o)
  \/ UnlockFirst(o) \/ UnlockSecond(o) \/ FinalBalance(o) \/ SegFault(o)
  \/ BeginShutDown(o) \/ ShutDown(o) \/ Leave(o) \/ sendReply(o)

ServerStopped ==
  /\ main = "done" \/ ~ServerUp
  /\ UNCHANGED serverVars

OfficeThread(o) == OfficeLoop(o) \/ TakeRequest(o) \/ Process(o)

BankNext ==
  \/ MainThread \/ UserOpens \/ EndOfFile
  \/ \E m \in Messages : Arrives(m)
  \/ \E o \in Offices : OfficeThread(o)
  \/ ServerStopped

BankFairness ==
  /\ WF_serverVars(MainThread)
  /\ \A o \in Offices : WF_serverVars(OfficeThread(o))

BankSpec == BankInit /\ [][BankNext]_serverVars
FairBankSpec == BankSpec /\ BankFairness
-----------------------------------------------------------------------------
(* Properties that hold however many users there are at a time.            *)

\* Types of the state that this module adds.
BankTypeOK ==
  /\ DOMAIN bankAccounts \subseteq AccountIds
  /\ \A id \in DOMAIN bankAccounts : bankAccounts[id] \in Account
  /\ mutex \in [AccountIds -> Offices \union {0}]
  /\ activeBankOffices \in Int
  /\ step \in [Offices -> Steps]
  /\ local \in [Offices -> Local]
  /\ reply \in [Offices -> Reply]
  /\ waiting \subseteq Pids
  /\ segfault \in BOOLEAN

\* Whatever offices interleave, whichever mutexes they hold and whatever main
\* writes over their request, no balance leaves the range the limits of
\* constants.h allow (0 is the administrator's, or that of bytes never written).
BalancesInRange ==
  \A id \in DOMAIN bankAccounts :
    bankAccounts[id].balance \in 0 .. MAX_BALANCE

Working == {o \in Offices : step[o] \notin {"idle", "begin", "send"}}

\* The count of active offices is never below the number of offices that are
\* inside processRequest, although they count in and out on their own and
\* some never count out: a shutdown never reports too few.
ActiveNotTooFew == activeBankOffices >= Cardinality(Working)

\* The path of a request is that of RequestQueue: this module only adds to it.
PathOfRequests == Spec

-----------------------------------------------------------------------------
(* Properties for users who come one after another (MaxOutstanding = 1), so *)
(* that no request is written over another.                                *)

\* An account changes only in the hands of an office that holds its mutex.
ChangesUnderLock ==
  [][\A id \in AccountIds :
       (id \in DOMAIN bankAccounts' /\
          (id \in DOMAIN bankAccounts => bankAccounts'[id] # bankAccounts[id])) =>
         mutex[id] # 0 /\ step[mutex[id]] \in {"create", "subtractStore", "addStore"}]_serverVars

\* An operation that succeeded left the mutexes of its accounts free, whatever
\* earlier failed transfers left locked.
SuccessUnlocks ==
  \A o \in Offices : step[o] = "send" /\ reply[o].ret_code = "RC_OK" =>
    /\ reply[o].type \in {"OP_BALANCE", "OP_TRANSFER"} => mutex[header.account_id] = 0
    /\ reply[o].type \in {"OP_CREATE_ACCOUNT", "OP_TRANSFER"} =>
         mutex[arguments.account_id] = 0

\* As long as no transfer fails for its amount, every request is answered, also
\* one that is accepted after the shutdown.
AnsweredUnlessTransferFails ==
  [](\A o \in Offices : reply[o].ret_code \notin {"RC_NO_FUNDS", "RC_TOO_HIGH"}) =>
    (waiting # {} ~> waiting = {})

-----------------------------------------------------------------------------
(* What the documents of the code promise and the code does not keep.      *)

\* types.h:25: RC_ID_IN_USE, "the account id is already in use": an account
\* that exists is not created again.
AccountNotReplaced ==
  [][\A id \in DOMAIN bankAccounts :
       /\ id \in DOMAIN bankAccounts'
       /\ bankAccounts'[id].hash = bankAccounts[id].hash]_serverVars

\* README.md:2: the server lets the operations "work correctly and smoothly" and
\* avoids deadlocks: who has sent a request gets a reply.
EveryRequestAnswered == \A p \in Pids : p \in waiting ~> p \notin waiting

\* README.md:2, "work correctly and smoothly": the server does not crash, since
\* no office follows the pointer of an account that was never created.  True
\* for users who come one after another, whatever they ask for; not for two at
\* a time.
NoSegFault == ~segfault
=============================================================================
