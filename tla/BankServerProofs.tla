-------------------------- MODULE BankServerProofs --------------------------
(***************************************************************************)
(* Proofs about BankServer, for any number of offices and users, any       *)
(* messages and any limits.                                                *)
(***************************************************************************)
EXTENDS BankServer, RequestQueueProofs

\* The steps of processRequest leave the queue, the semaphores and main alone.
LEMMA ProcessKeepsQueue ==
  ASSUME NEW o \in Offices, Process(o)
  PROVE  UNCHANGED vars \/ OPShutDown(o) \/ FinishRequest(o)
<1>1. CASE BeginProcess(o) \/ LoginRead(o) \/ LoginFails(o) \/ Leave(o)
  BY <1>1 DEF BeginProcess, LoginRead, LoginFails, Leave, Goes
<1>2. CASE OPCreateAccount(o) \/ CreateCopy(o) \/ CreateLock(o) \/ Create(o) \/ CreateUnlock(o)
  BY <1>2 DEF OPCreateAccount, CreateCopy, CreateLock, Create, CreateUnlock, Dispatch, Goes
<1>3. CASE OPBalance(o) \/ BalanceLock(o) \/ checkBalance(o) \/ BalanceUnlock(o)
  BY <1>3 DEF OPBalance, BalanceLock, checkBalance, BalanceUnlock, Dispatch, Goes
<1>4. CASE OPTransfer(o) \/ TransferIds(o) \/ LockFirst(o) \/ LockSecond(o)
  BY <1>4 DEF OPTransfer, TransferIds, LockFirst, LockSecond, Dispatch, Goes
<1>5. CASE subtractBalance(o) \/ SubtractStore(o) \/ addBalance(o) \/ AddStore(o)
  BY <1>5 DEF subtractBalance, SubtractStore, addBalance, AddStore, StoreBalance, Goes
<1>6. CASE UnlockFirst(o) \/ UnlockSecond(o) \/ FinalBalance(o) \/ SegFault(o) \/ BeginShutDown(o)
  BY <1>6 DEF UnlockFirst, UnlockSecond, FinalBalance, SegFault, BeginShutDown, Dispatch, Goes
<1>7. CASE ShutDown(o) \/ sendReply(o)
  BY <1>7 DEF ShutDown, sendReply
<1>8. QED
  BY <1>1, <1>2, <1>3, <1>4, <1>5, <1>6, <1>7 DEF Process

\* Every step of the bank server is a step of the queue, or leaves it alone.
LEMMA StepOfQueue == [BankNext]_serverVars => [Next]_vars
<1> SUFFICES ASSUME [BankNext]_serverVars PROVE [Next]_vars
  OBVIOUS
<1>1. CASE MainThread \/ UserOpens \/ EndOfFile
  BY <1>1 DEF MainThread, UserOpens, EndOfFile, UserStep, Next
<1>2. CASE \E m \in Messages : Arrives(m)
  BY <1>2 DEF Arrives, UserStep, Next
<1>3. ASSUME NEW o \in Offices, OfficeThread(o) PROVE [Next]_vars
  <2>1. CASE OfficeLoop(o) \/ TakeRequest(o)
    BY <2>1 DEF OfficeLoop, TakeRequest, LoopStep, Next
  <2>2. CASE Process(o)
    BY <2>2, ProcessKeepsQueue DEF Next
  <2>3. QED
    BY <1>3, <2>1, <2>2 DEF OfficeThread
<1>4. CASE ServerStopped \/ UNCHANGED serverVars
  BY <1>4 DEF ServerStopped, serverVars
<1>5. QED
  BY <1>1, <1>2, <1>3, <1>4 DEF BankNext

\* The server with its accounts, mutexes and replies implements RequestQueue:
\* whatever an office does between processRequest and sendReply, and wherever it
\* blocks, the path of the requests is the one that RequestQueue describes.
THEOREM BankImplementsQueue == BankSpec => PathOfRequests
<1>1. BankInit => Init
  BY DEF BankInit
<1>2. QED
  BY <1>1, StepOfQueue, PTL DEF BankSpec, PathOfRequests, Spec

\* So what is proved of the queue holds in the bank server: ring, semaphores and
\* offices stay in balance also while offices wait for mutexes that nobody frees.
THEOREM BankKeepsQueueInv == BankSpec => []QueueInv
BY BankImplementsQueue, QueueInvariant, PTL DEF PathOfRequests

-----------------------------------------------------------------------------
(* The count of active offices.                                            *)

\* The places of an office outside processRequest.
Outside == {"idle", "begin", "send"}

CountType == step \in [Offices -> Steps] /\ activeBankOffices \in Int
CountInv == CountType /\ ActiveNotTooFew

\* The working offices are finitely many.
LEMMA WorkingFinite == IsFiniteSet(Working) /\ Cardinality(Working) \in Nat
<1>1. IsFiniteSet(Offices)
  BY FS_Interval, QueueAssumption DEF Offices
<1>2. Working \in SUBSET Offices
  BY DEF Working
<1>3. IsFiniteSet(Working)
  BY <1>1, <1>2, FS_Subset
<1>4. QED
  BY <1>3, FS_CardinalityType

\* What becomes of the working offices when o goes from one place to another.
LEMMA PlaceChanges ==
  ASSUME NEW o \in Offices, NEW from, NEW to \in Steps,
         step \in [Offices -> Steps],
         step[o] = from, step' = [step EXCEPT ![o] = to]
  PROVE  /\ step' \in [Offices -> Steps]
         /\ Working' \subseteq Working \cup {o}
         /\ from \notin Outside => o \in Working
         /\ from \notin Outside \/ to \in Outside => Working' \subseteq Working
         /\ to \in Outside => Working' \subseteq Working \ {o}
<1>1. step' \in [Offices -> Steps]
  OBVIOUS
<1>2. \A x \in Offices : step'[x] = IF x = o THEN to ELSE step[x]
  OBVIOUS
<1>3. QED
  BY <1>1, <1>2 DEF Working, Outside

\* The same for a step that Goes describes.
LEMMA GoesChanges ==
  ASSUME NEW o \in Offices, NEW from, NEW to \in Steps,
         step \in [Offices -> Steps], Goes(o, from, to)
  PROVE  /\ step' \in [Offices -> Steps]
         /\ Working' \subseteq Working \cup {o}
         /\ from \notin Outside => o \in Working
         /\ from \notin Outside \/ to \in Outside => Working' \subseteq Working
         /\ to \in Outside => Working' \subseteq Working \ {o}
<1>1. step[o] = from /\ step' = [step EXCEPT ![o] = to]
  BY DEF Goes
<1>2. QED
  BY <1>1, PlaceChanges

\* How a step changes the counter and the offices that it counts.
CountsIn(o) == /\ activeBankOffices' = activeBankOffices + 1
               /\ Working' \subseteq Working \cup {o}
CountsOut(o) == /\ activeBankOffices' = activeBankOffices - 1
                /\ o \in Working
                /\ Working' \subseteq Working \ {o}
NotCounted == /\ activeBankOffices' = activeBankOffices
              /\ Working' \subseteq Working

\* An office counts in before it works and stops working when it counts out;
\* every other step of processRequest keeps the counter.
LEMMA ProcessCounts ==
  ASSUME CountType, NEW o \in Offices, Process(o)
  PROVE  step' \in [Offices -> Steps] /\ (CountsIn(o) \/ CountsOut(o) \/ NotCounted)
<1> USE DEF CountType
<1>1. CASE BeginProcess(o)
  <2>1. Goes(o, "begin", "login") /\ activeBankOffices' = activeBankOffices + 1
    BY <1>1 DEF BeginProcess
  <2>2. QED
    BY <2>1, GoesChanges DEF CountsIn, Steps
<1>2. CASE Leave(o)
  <2>1. Goes(o, "leave", "send") /\ activeBankOffices' = activeBankOffices - 1
    BY <1>2 DEF Leave
  <2>2. QED
    BY <2>1, GoesChanges DEF CountsOut, Steps, Outside
<1>3. ASSUME NEW from \in Steps \ Outside, NEW to \in Steps,
             Goes(o, from, to), activeBankOffices' = activeBankOffices
      PROVE  step' \in [Offices -> Steps] /\ NotCounted
  BY <1>3, GoesChanges DEF NotCounted
<1>4. CASE LoginRead(o) \/ LoginFails(o)
  <2>1. \/ Goes(o, "login", "hash") \/ Goes(o, "login", "send") \/ Goes(o, "hash", "send")
    BY <1>4 DEF LoginRead, LoginFails
  <2>2. activeBankOffices' = activeBankOffices
    BY <1>4 DEF LoginRead, LoginFails
  <2>3. QED
    BY <2>1, <2>2, <1>3 DEF Steps, Outside
<1>5. CASE OPCreateAccount(o) \/ OPBalance(o) \/ OPTransfer(o) \/ BeginShutDown(o)
  <2>1. \E to \in {"createCopy", "balanceLock", "transferIds", "shutdown", "leave"} :
          Goes(o, "hash", to)
    BY <1>5 DEF OPCreateAccount, OPBalance, OPTransfer, BeginShutDown, Dispatch
  <2>2. activeBankOffices' = activeBankOffices
    BY <1>5 DEF OPCreateAccount, OPBalance, OPTransfer, BeginShutDown
  <2>3. QED
    BY <2>1, <2>2, <1>3 DEF Steps, Outside
<1>6. CASE CreateCopy(o) \/ CreateLock(o) \/ Create(o) \/ CreateUnlock(o)
  <2>1. \/ Goes(o, "createCopy", "createLock") \/ Goes(o, "createLock", "create")
        \/ Goes(o, "create", "createUnlock") \/ Goes(o, "createUnlock", "leave")
    BY <1>6 DEF CreateCopy, CreateLock, Create, CreateUnlock
  <2>2. activeBankOffices' = activeBankOffices
    BY <1>6 DEF CreateCopy, CreateLock, Create, CreateUnlock
  <2>3. QED
    BY <2>1, <2>2, <1>3 DEF Steps, Outside
<1>7. CASE BalanceLock(o) \/ checkBalance(o) \/ BalanceUnlock(o)
  <2>1. \/ Goes(o, "balanceLock", "balance") \/ Goes(o, "balance", "balanceUnlock")
        \/ Goes(o, "balanceUnlock", "leave")
    BY <1>7 DEF BalanceLock, checkBalance, BalanceUnlock
  <2>2. activeBankOffices' = activeBankOffices
    BY <1>7 DEF BalanceLock, checkBalance, BalanceUnlock
  <2>3. QED
    BY <2>1, <2>2, <1>3 DEF Steps, Outside
<1>8. CASE TransferIds(o) \/ LockFirst(o) \/ LockSecond(o) \/ SubtractStore(o) \/ AddStore(o)
  <2>1. \/ Goes(o, "transferIds", "lockFirst") \/ Goes(o, "lockFirst", "lockSecond")
        \/ Goes(o, "lockSecond", "subtract") \/ Goes(o, "subtractStore", "add")
        \/ Goes(o, "addStore", "unlockFirst")
    BY <1>8 DEF TransferIds, LockFirst, LockSecond, SubtractStore, AddStore, StoreBalance
  <2>2. activeBankOffices' = activeBankOffices
    BY <1>8 DEF TransferIds, LockFirst, LockSecond, SubtractStore, AddStore, StoreBalance
  <2>3. QED
    BY <2>1, <2>2, <1>3 DEF Steps, Outside
<1>9. CASE subtractBalance(o) \/ addBalance(o)
  <2>1. \/ Goes(o, "subtract", "leave") \/ Goes(o, "subtract", "subtractStore")
        \/ Goes(o, "add", "leave") \/ Goes(o, "add", "addStore")
    BY <1>9 DEF subtractBalance, addBalance
  <2>2. activeBankOffices' = activeBankOffices
    BY <1>9 DEF subtractBalance, addBalance
  <2>3. QED
    BY <2>1, <2>2, <1>3 DEF Steps, Outside
<1>10. CASE UnlockFirst(o) \/ UnlockSecond(o) \/ FinalBalance(o) \/ SegFault(o)
  <2>1. \/ Goes(o, "unlockFirst", "unlockSecond") \/ Goes(o, "unlockSecond", "finalBalance")
        \/ Goes(o, "finalBalance", "leave")
        \/ \E place \in {"balance", "subtract", "add", "finalBalance"} : Goes(o, place, place)
    BY <1>10 DEF UnlockFirst, UnlockSecond, FinalBalance, SegFault
  <2>2. activeBankOffices' = activeBankOffices
    BY <1>10 DEF UnlockFirst, UnlockSecond, FinalBalance, SegFault
  <2>3. QED
    BY <2>1, <2>2, <1>3 DEF Steps, Outside
<1>11. CASE ShutDown(o)
  <2>1. step[o] = "shutdown" /\ step' = [step EXCEPT ![o] = "leave"]
        /\ activeBankOffices' = activeBankOffices
    BY <1>11 DEF ShutDown
  <2>2. "leave" \in Steps /\ "shutdown" \notin Outside
    BY DEF Steps, Outside
  <2>3. step' \in [Offices -> Steps] /\ Working' \subseteq Working
    BY <2>1, <2>2, PlaceChanges
  <2>4. QED
    BY <2>1, <2>3 DEF NotCounted
<1>12. CASE sendReply(o)
  <2>1. step[o] = "send" /\ step' = [step EXCEPT ![o] = "idle"]
        /\ activeBankOffices' = activeBankOffices
    BY <1>12 DEF sendReply
  <2>2. "idle" \in Steps /\ "idle" \in Outside
    BY DEF Steps, Outside
  <2>3. step' \in [Offices -> Steps] /\ Working' \subseteq Working
    BY <2>1, <2>2, PlaceChanges
  <2>4. QED
    BY <2>1, <2>3 DEF NotCounted
<1>13. QED
  BY <1>1, <1>2, <1>4, <1>5, <1>6, <1>7, <1>8, <1>9, <1>10, <1>11, <1>12 DEF Process

\* No step makes the counter smaller than the number of working offices.
LEMMA CountInvStep ==
  ASSUME CountInv, NEW o \in Offices,
         step' \in [Offices -> Steps],
         CountsIn(o) \/ CountsOut(o) \/ NotCounted
  PROVE  CountInv'
<1>1. IsFiniteSet(Working) /\ Cardinality(Working) \in Nat
  BY WorkingFinite
<1>2. activeBankOffices \in Int /\ activeBankOffices >= Cardinality(Working)
  BY DEF CountInv, CountType, ActiveNotTooFew
<1>3. CASE CountsIn(o)
  <2>1. IsFiniteSet(Working \cup {o}) /\ Cardinality(Working \cup {o}) <= Cardinality(Working) + 1
    BY <1>1, FS_AddElement
  <2>2. Cardinality(Working') <= Cardinality(Working \cup {o}) /\ Cardinality(Working') \in Nat
    BY <1>3, <2>1, FS_Subset, FS_CardinalityType DEF CountsIn
  <2>3. Cardinality(Working \cup {o}) \in Nat
    BY <2>1, FS_CardinalityType
  <2>4. activeBankOffices' \in Int /\ activeBankOffices' >= Cardinality(Working')
    BY <1>1, <1>2, <1>3, <2>1, <2>2, <2>3 DEF CountsIn
  <2>5. QED
    BY <2>4 DEF CountInv, CountType, ActiveNotTooFew
<1>4. CASE CountsOut(o)
  <2>1. IsFiniteSet(Working \ {o}) /\ Cardinality(Working \ {o}) = Cardinality(Working) - 1
    BY <1>1, <1>4, FS_RemoveElement DEF CountsOut
  <2>2. Cardinality(Working') <= Cardinality(Working \ {o}) /\ Cardinality(Working') \in Nat
    BY <1>4, <2>1, FS_Subset, FS_CardinalityType DEF CountsOut
  <2>3. activeBankOffices' \in Int /\ activeBankOffices' >= Cardinality(Working')
    BY <1>1, <1>2, <1>4, <2>1, <2>2 DEF CountsOut
  <2>4. QED
    BY <2>3 DEF CountInv, CountType, ActiveNotTooFew
<1>5. CASE NotCounted
  <2>1. Cardinality(Working') <= Cardinality(Working) /\ Cardinality(Working') \in Nat
    BY <1>1, <1>5, FS_Subset, FS_CardinalityType DEF NotCounted
  <2>2. activeBankOffices' \in Int /\ activeBankOffices' >= Cardinality(Working')
    BY <1>1, <1>2, <1>5, <2>1 DEF NotCounted
  <2>3. QED
    BY <2>2 DEF CountInv, CountType, ActiveNotTooFew
<1>6. QED
  BY <1>3, <1>4, <1>5

\* A shutdown never reports fewer active offices than there are, for any number
\* of offices and users and although failed logins are never counted out.
THEOREM NeverTooFewActive == BankSpec => []ActiveNotTooFew
<1>1. BankInit => CountInv
  <2> SUFFICES ASSUME BankInit PROVE CountInv
    OBVIOUS
  <2>1. Working = {}
    BY DEF BankInit, Working
  <2>2. Cardinality(Working) = 0
    BY <2>1, FS_EmptySet
  <2>3. QED
    BY <2>2 DEF BankInit, CountInv, CountType, ActiveNotTooFew, Steps
<1>2. CountInv /\ [BankNext]_serverVars => CountInv'
  <2> SUFFICES ASSUME CountInv, [BankNext]_serverVars PROVE CountInv'
    OBVIOUS
  <2>1. CASE UNCHANGED <<step, activeBankOffices>>
    BY <2>1 DEF CountInv, CountType, ActiveNotTooFew, Working
  <2>2. ASSUME NEW o \in Offices, OfficeThread(o) PROVE CountInv'
    <3>1. CASE OfficeLoop(o)
      BY <2>1, <3>1 DEF OfficeLoop, OnlyQueue, bankVars
    <3>2. CASE TakeRequest(o)
      <4>1. step' = [step EXCEPT ![o] = "begin"] /\ activeBankOffices' = activeBankOffices
        BY <3>2 DEF TakeRequest
      <4>2. "begin" \in Steps /\ "begin" \in Outside
        BY DEF Steps, Outside
      <4>3. step \in [Offices -> Steps]
        BY DEF CountInv, CountType
      <4>4. step' \in [Offices -> Steps] /\ Working' \subseteq Working
        BY <4>1, <4>2, <4>3, PlaceChanges
      <4>5. QED
        BY <4>1, <4>4, CountInvStep DEF NotCounted
    <3>3. CASE Process(o)
      BY <3>3, ProcessCounts, CountInvStep DEF CountInv
    <3>4. QED
      BY <2>2, <3>1, <3>2, <3>3 DEF OfficeThread
  <2>3. CASE MainThread \/ UserOpens \/ EndOfFile
    BY <2>1, <2>3 DEF MainThread, UserOpens, EndOfFile, OnlyQueue, bankVars
  <2>4. CASE \E m \in Messages : Arrives(m)
    BY <2>1, <2>4 DEF Arrives
  <2>5. CASE ServerStopped \/ UNCHANGED serverVars
    BY <2>1, <2>5 DEF ServerStopped, serverVars, bankVars
  <2>6. QED
    BY <2>2, <2>3, <2>4, <2>5 DEF BankNext
<1>3. QED
  BY <1>1, <1>2, PTL DEF BankSpec, CountInv

-----------------------------------------------------------------------------
(* Types.                                                                  *)

\* The constants that the initial values are made of.
LEMMA ConstantTypes ==
  /\ 0 \in AccountIds
  /\ NoLocals \in Local
  /\ \A id \in AccountIds : NextReply(id) \in Reply
<1>1. 0 \in AccountIds
  BY LimitsAssumption DEF AccountIds
<1>2. (CHOOSE s \in Salts : TRUE) \in Salts
  BY BankAssumption
<1>3. NoLocals \in Local
  BY <1>1, <1>2, BankAssumption DEF NoLocals, Local
<1>4. \A id \in AccountIds : NextReply(id) \in Reply
  BY DEF NextReply, Reply, op_type, ret_code
<1>5. QED
  BY <1>1, <1>3, <1>4

\* The fields of the request that the offices read.
LEMMA RequestTypes ==
  ASSUME TypeOK
  PROVE  /\ request.type \in op_type
         /\ header.pid \in Pids
         /\ header.account_id \in AccountIds
         /\ header.password \in Passwords
         /\ arguments.account_id \in AccountIds
         /\ arguments.number \in Nat
         /\ arguments.password \in Passwords
BY DEF TypeOK, tlv_request, req_value, req_header, req_arguments, header, arguments

\* So is a reply whose code, or whose code and account, an office sets.
LEMMA CodeTypes ==
  ASSUME BankTypeOK, NEW o \in Offices, NEW code \in ret_code, NEW id \in AccountIds
  PROVE  /\ Code(o, code) \in [Offices -> Reply]
         /\ [reply EXCEPT ![o].ret_code = code, ![o].account_id = id] \in [Offices -> Reply]
<1>1. \A r \in Reply : [r EXCEPT !.ret_code = code] \in Reply
  BY DEF Reply
<1>2. \A r \in Reply : [r EXCEPT !.account_id = id] \in Reply
  BY DEF Reply
<1>3. reply \in [Offices -> Reply] /\ reply[o] \in Reply
  BY DEF BankTypeOK
<1>4. Code(o, code) \in [Offices -> Reply]
  BY <1>1, <1>3 DEF Code
<1>5. [[reply[o] EXCEPT !.ret_code = code] EXCEPT !.account_id = id] \in Reply
  BY <1>1, <1>2, <1>3
<1>6. QED
  BY <1>3, <1>4, <1>5

\* So is the balance that an office has computed.
LEMMA ComputedTypes ==
  ASSUME BankTypeOK, NEW o \in Offices, NEW id \in AccountIds, NEW balance \in Int
  PROVE  Computed(o, id, balance) \in [Offices -> Local]
<1>1. \A l \in Local : [l EXCEPT !.add_id = id] \in Local
  BY DEF Local
<1>2. \A l \in Local : [l EXCEPT !.value = balance] \in Local
  BY DEF Local
<1>3. local \in [Offices -> Local] /\ local[o] \in Local
  BY DEF BankTypeOK
<1>4. [[local[o] EXCEPT !.add_id = id] EXCEPT !.value = balance] \in Local
  BY <1>1, <1>2, <1>3
<1>5. QED
  BY <1>3, <1>4 DEF Computed

\* The steps of processRequest keep the types.
LEMMA ProcessKeepsTypes ==
  ASSUME TypeOK, BankTypeOK, NEW o \in Offices, Process(o)
  PROVE  BankTypeOK'
<1>1. CASE BeginProcess(o) \/ Leave(o)
  BY <1>1 DEF BeginProcess, Leave, Goes, BankTypeOK, Steps
<1>2. CASE LoginRead(o)
  <2>1. ASSUME accountExists(header.account_id)
        PROVE  bankAccounts[header.account_id].salt \in Salts
    BY <2>1 DEF BankTypeOK, Account, accountExists
  <2>2. reply' \in [Offices -> Reply]
    BY <1>2, RequestTypes DEF LoginRead, BankTypeOK, Reply, ret_code
  <2>3. local' \in [Offices -> Local]
    <3>1. CASE accountExists(header.account_id)
      BY <1>2, <2>1, <3>1, RequestTypes DEF LoginRead, BankTypeOK, Local
    <3>2. CASE ~accountExists(header.account_id)
      BY <1>2, <3>2 DEF LoginRead, BankTypeOK
    <3>3. QED
      BY <3>1, <3>2
  <2>4. QED
    BY <1>2, <2>2, <2>3 DEF LoginRead, Goes, BankTypeOK, Steps
<1>3. CASE LoginFails(o)
  BY <1>3 DEF LoginFails, Code, Goes, BankTypeOK, Steps, Reply, ret_code
<1>4. CASE OPCreateAccount(o)
  BY <1>4 DEF OPCreateAccount, validateCreateAccount, Dispatch, Code, Goes, BankTypeOK, Steps, Reply, ret_code
<1>5. CASE CreateCopy(o)
  <2>1. local' \in [Offices -> Local]
    <3> DEFINE copy == [local[o] EXCEPT !.id = arguments.account_id,
                                        !.value = arguments.number,
                                        !.password = arguments.password]
    <3>1. copy \in Local
      <4>1. [local[o] EXCEPT !.id = arguments.account_id] \in Local
        BY RequestTypes DEF BankTypeOK, Local
      <4>2. \A l \in Local : [l EXCEPT !.value = arguments.number] \in Local
        BY RequestTypes DEF Local
      <4>3. \A l \in Local : [l EXCEPT !.password = arguments.password] \in Local
        BY RequestTypes DEF Local
      <4>4. QED
        BY <4>1, <4>2, <4>3
    <3>2. local' = [local EXCEPT ![o] = copy]
      BY <1>5 DEF CreateCopy, BankTypeOK
    <3>3. QED
      BY <3>1, <3>2 DEF BankTypeOK
  <2>2. QED
    BY <1>5, <2>1 DEF CreateCopy, Goes, BankTypeOK, Steps
<1>6. CASE CreateLock(o) \/ BalanceLock(o) \/ LockFirst(o) \/ LockSecond(o)
  BY <1>6 DEF CreateLock, BalanceLock, LockFirst, LockSecond, bankAccountLock, Goes, BankTypeOK, Steps
<1>7. CASE Create(o)
  BY <1>7 DEF Create, createBankAccount, Goes, BankTypeOK, Steps, Local, Account
<1>8. CASE CreateUnlock(o)
  BY <1>8, RequestTypes DEF CreateUnlock, bankAccountUnlock, Goes, BankTypeOK, Steps, Reply
<1>9. CASE OPBalance(o)
  <2>1. reply' \in [Offices -> Reply]
    BY <1>9, RequestTypes DEF OPBalance, validateOPBalance, Code, BankTypeOK, Reply, ret_code
  <2>2. local' \in [Offices -> Local]
    BY <1>9, RequestTypes DEF OPBalance, BankTypeOK, Local
  <2>3. QED
    BY <1>9, <2>1, <2>2 DEF OPBalance, Dispatch, Goes, BankTypeOK, Steps
<1>10. CASE checkBalance(o)
  BY <1>10, RequestTypes DEF checkBalance, Goes, BankTypeOK, Steps, Reply, Account, accountExists
<1>11. CASE BalanceUnlock(o) \/ UnlockSecond(o)
  BY <1>11 DEF BalanceUnlock, UnlockSecond, bankAccountUnlock, Goes, BankTypeOK, Steps
<1>12. CASE OPTransfer(o)
  <2>1. validateOPTransfer \in ret_code
    BY DEF validateOPTransfer, ret_code
  <2>2. reply' \in [Offices -> Reply]
    <3> DEFINE answer == [reply[o] EXCEPT !.ret_code = validateOPTransfer,
                                          !.account_id = header.account_id,
                                          !.number = arguments.number]
    <3>1. answer \in Reply
      <4>1. [reply[o] EXCEPT !.ret_code = validateOPTransfer] \in Reply
        BY <2>1 DEF BankTypeOK, Reply
      <4>2. \A r \in Reply : [r EXCEPT !.account_id = header.account_id] \in Reply
        BY RequestTypes DEF Reply
      <4>3. \A r \in Reply : [r EXCEPT !.number = arguments.number] \in Reply
        BY RequestTypes DEF Reply
      <4>4. QED
        BY <4>1, <4>2, <4>3
    <3>2. reply' = [reply EXCEPT ![o] = answer]
      BY <1>12 DEF OPTransfer
    <3>3. QED
      BY <3>1, <3>2 DEF BankTypeOK
  <2>3. local' \in [Offices -> Local]
    BY <1>12, RequestTypes DEF OPTransfer, BankTypeOK, Local
  <2>4. QED
    BY <1>12, <2>2, <2>3 DEF OPTransfer, Dispatch, Goes, BankTypeOK, Steps
<1>13. CASE TransferIds(o)
  <2>1. local' \in [Offices -> Local]
    <3>1. \A l \in Local : \A id \in AccountIds : [l EXCEPT !.subtract_id = id] \in Local
      BY DEF Local
    <3>2. \A l \in Local : \A id \in AccountIds : [l EXCEPT !.add_id = id] \in Local
      BY DEF Local
    <3>3. local[o] \in Local
      BY DEF BankTypeOK
    <3>4. [[local[o] EXCEPT !.subtract_id = header.account_id]
             EXCEPT !.add_id = arguments.account_id] \in Local
      BY <3>1, <3>2, <3>3, RequestTypes
    <3>5. QED
      BY <1>13, <3>4 DEF TransferIds, BankTypeOK
  <2>2. QED
    BY <1>13, <2>1 DEF TransferIds, Goes, BankTypeOK, Steps
<1>14. CASE subtractBalance(o)
  <2>1. ASSUME accountExists(header.account_id)
        PROVE  bankAccounts[header.account_id].balance - arguments.number \in Int
    BY <2>1, RequestTypes DEF BankTypeOK, Account, accountExists
  <2>2. local' \in [Offices -> Local]
    <3>1. CASE UNCHANGED local
      BY <3>1 DEF BankTypeOK
    <3>2. CASE /\ accountExists(header.account_id)
               /\ local' = Computed(o, header.account_id,
                                   bankAccounts[header.account_id].balance - arguments.number)
      <4>1. header.account_id \in AccountIds
        BY RequestTypes
      <4>2. bankAccounts[header.account_id].balance - arguments.number \in Int
        BY <2>1, <3>2
      <4>3. local' \in [Offices -> Local]
        BY <3>2, <4>1, <4>2, ComputedTypes
      <4>4. QED
        BY <4>3
    <3>3. QED
      BY <1>14, <3>1, <3>2 DEF subtractBalance
  <2>3. reply' \in [Offices -> Reply]
    <3>1. UNCHANGED reply \/ reply' = Code(o, "RC_NO_FUNDS")
      BY <1>14 DEF subtractBalance
    <3>2. Code(o, "RC_NO_FUNDS") \in [Offices -> Reply]
      <4>1. "RC_NO_FUNDS" \in ret_code
        BY DEF ret_code
      <4>2. header.account_id \in AccountIds
        BY RequestTypes
      <4>3. QED
        BY <4>1, <4>2, CodeTypes
    <3>3. QED
      BY <3>1, <3>2 DEF BankTypeOK
  <2>4. QED
    BY <1>14, <2>2, <2>3 DEF subtractBalance, Goes, BankTypeOK, Steps
<1>15. CASE addBalance(o)
  <2>1. ASSUME accountExists(arguments.account_id)
        PROVE  bankAccounts[arguments.account_id].balance + arguments.number \in Int
    BY <2>1, RequestTypes DEF BankTypeOK, Account, accountExists
  <2>2. local' \in [Offices -> Local]
    <3>1. CASE UNCHANGED local
      BY <3>1 DEF BankTypeOK
    <3>2. CASE /\ accountExists(arguments.account_id)
               /\ local' = Computed(o, arguments.account_id,
                                   bankAccounts[arguments.account_id].balance + arguments.number)
      <4>1. arguments.account_id \in AccountIds
        BY RequestTypes
      <4>2. bankAccounts[arguments.account_id].balance + arguments.number \in Int
        BY <2>1, <3>2
      <4>3. local' \in [Offices -> Local]
        BY <3>2, <4>1, <4>2, ComputedTypes
      <4>4. QED
        BY <4>3
    <3>3. QED
      BY <1>15, <3>1, <3>2 DEF addBalance
  <2>3. reply' \in [Offices -> Reply]
    <3>1. UNCHANGED reply \/ reply' = Code(o, "RC_TOO_HIGH")
      BY <1>15 DEF addBalance
    <3>2. Code(o, "RC_TOO_HIGH") \in [Offices -> Reply]
      <4>1. "RC_TOO_HIGH" \in ret_code
        BY DEF ret_code
      <4>2. header.account_id \in AccountIds
        BY RequestTypes
      <4>3. QED
        BY <4>1, <4>2, CodeTypes
    <3>3. QED
      BY <3>1, <3>2 DEF BankTypeOK
  <2>4. QED
    BY <1>15, <2>2, <2>3 DEF addBalance, Goes, BankTypeOK, Steps
<1>16. CASE SubtractStore(o) \/ AddStore(o)
  <2>1. local[o].value \in Int
    BY DEF BankTypeOK, Local
  <2>2. bankAccounts' = [bankAccounts EXCEPT ![local[o].add_id].balance = local[o].value]
    BY <1>16 DEF SubtractStore, AddStore, StoreBalance
  <2>3. DOMAIN bankAccounts' = DOMAIN bankAccounts
    BY <2>2
  <2>4. ASSUME NEW id \in DOMAIN bankAccounts
        PROVE  bankAccounts'[id] \in Account
    BY <2>1, <2>2 DEF BankTypeOK, Account
  <2>5. QED
    BY <1>16, <2>3, <2>4 DEF SubtractStore, AddStore, StoreBalance, Goes, BankTypeOK, Steps
<1>17. CASE UnlockFirst(o)
  BY <1>17, RequestTypes DEF UnlockFirst, bankAccountUnlock, Goes, BankTypeOK, Steps, Local
<1>18. CASE FinalBalance(o)
  BY <1>18 DEF FinalBalance, accountExists, Goes, BankTypeOK, Steps, Reply, Account
<1>19. CASE SegFault(o)
  BY <1>19 DEF SegFault, Goes, BankTypeOK, Steps
<1>20. CASE BeginShutDown(o)
  <2>1. reply' \in [Offices -> Reply]
    <3>1. validateShutDown \in ret_code
      BY DEF validateShutDown, ret_code
    <3>2. header.account_id \in AccountIds
      BY RequestTypes
    <3>3. QED
      BY <1>20, <3>1, <3>2, CodeTypes DEF BeginShutDown
  <2>2. QED
    BY <1>20, <2>1 DEF BeginShutDown, Dispatch, Goes, BankTypeOK, Steps
<1>21. CASE ShutDown(o)
  BY <1>21 DEF ShutDown, BankTypeOK, Steps, Reply
<1>22. CASE sendReply(o)
  BY <1>22, ConstantTypes DEF sendReply, BankTypeOK, Steps, Reply
<1>23. QED
  BY <1>1, <1>2, <1>3, <1>4, <1>5, <1>6, <1>7, <1>8, <1>9, <1>10, <1>11, <1>12, <1>13, <1>14,
     <1>15, <1>16, <1>17, <1>18, <1>19, <1>20, <1>21, <1>22 DEF Process

\* So does every other step of the server.
LEMMA StepKeepsTypes == TypeOK /\ BankTypeOK /\ [BankNext]_serverVars => BankTypeOK'
<1> SUFFICES ASSUME TypeOK, BankTypeOK, [BankNext]_serverVars PROVE BankTypeOK'
  OBVIOUS
<1>1. ASSUME UNCHANGED bankVars PROVE BankTypeOK'
  BY <1>1 DEF BankTypeOK, bankVars
<1>2. CASE MainThread \/ UserOpens \/ EndOfFile \/ ServerStopped \/ UNCHANGED serverVars
  BY <1>1, <1>2 DEF MainThread, UserOpens, EndOfFile, OnlyQueue, ServerStopped, serverVars
<1>3. ASSUME NEW m \in Messages, Arrives(m) PROVE BankTypeOK'
  <2>1. m.value.header.pid \in Pids
    BY QueueAssumption DEF tlv_request, req_value, req_header
  <2>2. QED
    BY <1>3, <2>1 DEF Arrives, BankTypeOK
<1>4. ASSUME NEW o \in Offices, OfficeThread(o) PROVE BankTypeOK'
  <2>1. CASE OfficeLoop(o)
    BY <1>1, <2>1 DEF OfficeLoop, OnlyQueue
  <2>2. CASE TakeRequest(o)
    BY <2>2 DEF TakeRequest, BankTypeOK, Steps
  <2>3. CASE Process(o)
    BY <2>3, ProcessKeepsTypes
  <2>4. QED
    BY <1>4, <2>1, <2>2, <2>3 DEF OfficeThread
<1>5. QED
  BY <1>2, <1>3, <1>4 DEF BankNext

LEMMA InitialTypes == BankInit => BankTypeOK
<1> SUFFICES ASSUME BankInit PROVE BankTypeOK
  OBVIOUS
<1>1. PICK salt \in Salts : createAdminAccount(salt)
  BY DEF BankInit
<1>2. /\ DOMAIN bankAccounts \subseteq AccountIds
      /\ \A id \in DOMAIN bankAccounts : bankAccounts[id] \in Account
  <2> DEFINE admin == [hash |-> Hash(AdminPassword, salt), salt |-> salt,
                       balance |-> ADMIN_ACCOUNT_BALLANCE]
  <2>1. admin \in Account
    BY BankAssumption DEF Account, ADMIN_ACCOUNT_BALLANCE
  <2>2. bankAccounts = [i \in {ADMIN_ACCOUNT_ID} |-> admin]
    BY <1>1 DEF createAdminAccount
  <2>3. QED
    BY <2>1, <2>2, ConstantTypes DEF ADMIN_ACCOUNT_ID
<1>3. QED
  <2>1. /\ local = [o \in Offices |-> NoLocals]
        /\ reply = [o \in Offices |-> NextReply(0)]
    BY DEF BankInit
  <2>2. local \in [Offices -> Local] /\ reply \in [Offices -> Reply]
    BY <2>1, ConstantTypes
  <2>3. step \in [Offices -> Steps] /\ mutex \in [AccountIds -> Offices \union {0}]
    BY DEF BankInit, Steps
  <2>4. activeBankOffices \in Int /\ waiting \subseteq Pids
    BY SMT DEF BankInit
  <2>5. segfault \in BOOLEAN
    BY Zenon DEF BankInit
  <2>6. QED
    BY <1>2, <2>2, <2>3, <2>4, <2>5 DEF BankTypeOK

\* The state of the bank server is well typed, whatever is read from a request
\* that main is writing over: the request is a struct of the right shape at all
\* times, if not one request.
THEOREM BankTypeCorrect == BankSpec => []BankTypeOK
<1>1. BankSpec => []TypeOK
  BY BankImplementsQueue, TypeCorrect, PTL DEF PathOfRequests
<1>2. QED
  BY <1>1, InitialTypes, StepKeepsTypes, PTL DEF BankSpec

-----------------------------------------------------------------------------
(* The range of the balances.                                              *)

BalanceRange == 0 .. MAX_BALANCE

\* The steps of an operation between the computation of a value and its store.
Storing == {"createLock", "create", "subtractStore", "addStore"}

\* Every number that can still get into an account is in the range: that of the
\* struct, which a balance request leaves as it was, that of the message main
\* is reading, and the value an office has computed.
NumbersInRange ==
  /\ arguments.number \in BalanceRange
  /\ incoming.type \in {"OP_CREATE_ACCOUNT", "OP_TRANSFER"} =>
       incoming.value.arguments.number \in BalanceRange
  /\ \A o \in Offices : step[o] \in Storing => local[o].value \in BalanceRange

RangeInv == NumbersInRange /\ BalancesInRange

\* The steps of processRequest keep the balances in the range.
LEMMA ProcessKeepsRange ==
  ASSUME TypeOK, BankTypeOK, RangeInv, NEW o \in Offices, Process(o)
  PROVE  RangeInv'
<1>0. UNCHANGED <<request, incoming>>
  BY ProcessKeepsQueue DEF vars, mainVars, OPShutDown, FinishRequest
<1>1. ASSUME UNCHANGED <<bankAccounts, local>>,
             step' = [step EXCEPT ![o] = step'[o]],
             step'[o] \in Storing => step[o] \in Storing
      PROVE  RangeInv'
  BY <1>0, <1>1 DEF RangeInv, NumbersInRange, BalancesInRange, BankTypeOK, arguments
<1>2. ASSUME UNCHANGED bankAccounts,
             step' = [step EXCEPT ![o] = step'[o]],
             local' = [local EXCEPT ![o] = local'[o]],
             step'[o] \in Storing => local'[o].value \in BalanceRange
      PROVE  RangeInv'
  BY <1>0, <1>2 DEF RangeInv, NumbersInRange, BalancesInRange, BankTypeOK, arguments
<1>3. CASE BeginProcess(o) \/ LoginFails(o) \/ Leave(o) \/ SegFault(o) \/ ShutDown(o)
  BY <1>1, <1>3 DEF BeginProcess, LoginFails, Leave, SegFault, ShutDown, Goes, Storing, BankTypeOK
<1>4. CASE OPCreateAccount(o) \/ CreateLock(o) \/ CreateUnlock(o) \/ BeginShutDown(o)
  BY <1>1, <1>4 DEF OPCreateAccount, CreateLock, CreateUnlock, BeginShutDown, Dispatch, Goes, Storing, BankTypeOK
<1>5. CASE BalanceLock(o) \/ checkBalance(o) \/ BalanceUnlock(o)
  BY <1>1, <1>5 DEF BalanceLock, checkBalance, BalanceUnlock, Goes, Storing, BankTypeOK
<1>6. CASE LockFirst(o) \/ LockSecond(o) \/ UnlockSecond(o) \/ FinalBalance(o)
  BY <1>1, <1>6 DEF LockFirst, LockSecond, UnlockSecond, FinalBalance, Goes, Storing, BankTypeOK
<1>7. CASE LoginRead(o)
  BY <1>2, <1>7 DEF LoginRead, Goes, Storing, BankTypeOK
<1>8. CASE OPBalance(o)
  BY <1>2, <1>8 DEF OPBalance, Dispatch, Goes, Storing, BankTypeOK
<1>9. CASE OPTransfer(o)
  BY <1>2, <1>9 DEF OPTransfer, Dispatch, Goes, Storing, BankTypeOK
<1>10. CASE TransferIds(o)
  BY <1>2, <1>10 DEF TransferIds, Goes, Storing, BankTypeOK
<1>11. CASE UnlockFirst(o)
  BY <1>2, <1>11 DEF UnlockFirst, Goes, Storing, BankTypeOK
<1>12. CASE sendReply(o)
  BY <1>2, <1>12 DEF sendReply, Storing, BankTypeOK
<1>13. CASE CreateCopy(o)
  <2>1. local'[o].value = arguments.number
    BY <1>13 DEF CreateCopy, BankTypeOK, Local
  <2>2. local' = [local EXCEPT ![o] = local'[o]]
    BY <1>13 DEF CreateCopy, BankTypeOK
  <2>3. QED
    BY <1>2, <1>13, <2>1, <2>2 DEF CreateCopy, Goes, RangeInv, NumbersInRange, BankTypeOK
<1>14. CASE Create(o)
  <2>1. PICK salt \in Salts :
          createBankAccount(local[o].id, local[o].value, local[o].password, salt)
    BY <1>14 DEF Create
  <2>2. local[o].value \in BalanceRange
    BY <1>14 DEF Create, Goes, RangeInv, NumbersInRange, Storing
  <2>3. BalancesInRange'
    BY <2>1, <2>2 DEF createBankAccount, RangeInv, BalancesInRange, BalanceRange
  <2>4. NumbersInRange'
    BY <1>0, <1>14 DEF Create, Goes, RangeInv, NumbersInRange, Storing, BankTypeOK, arguments
  <2>5. QED
    BY <2>3, <2>4 DEF RangeInv
<1>15. CASE subtractBalance(o)
  <2> DEFINE new == bankAccounts[header.account_id].balance - arguments.number
  <2>1. CASE TooLow(new)
    BY <1>1, <1>15, <2>1 DEF subtractBalance, Goes, Storing, BankTypeOK
  <2>2. CASE ~TooLow(new)
    <3>1. accountExists(header.account_id) /\ local' = Computed(o, header.account_id, new)
      BY <1>15, <2>2 DEF subtractBalance
    <3>2. new \in BalanceRange
      BY <2>2, <3>1, LimitsAssumption
         DEF TooLow, accountExists, RangeInv, NumbersInRange, BalancesInRange, BalanceRange
    <3>3. local'[o].value = new /\ local' = [local EXCEPT ![o] = local'[o]]
      BY <3>1 DEF Computed, BankTypeOK, Local
    <3>4. UNCHANGED bankAccounts /\ step' = [step EXCEPT ![o] = step'[o]]
      BY <1>15, <2>2 DEF subtractBalance, Goes, BankTypeOK
    <3>5. QED
      BY <1>2, <3>2, <3>3, <3>4
  <2>3. QED
    BY <2>1, <2>2
<1>16. CASE addBalance(o)
  <2> DEFINE new == bankAccounts[arguments.account_id].balance + arguments.number
  <2>1. CASE TooHigh(new)
    BY <1>1, <1>16, <2>1 DEF addBalance, Goes, Storing, BankTypeOK
  <2>2. CASE ~TooHigh(new)
    <3>1. accountExists(arguments.account_id) /\ local' = Computed(o, arguments.account_id, new)
      BY <1>16, <2>2 DEF addBalance
    <3>2. new \in BalanceRange
      BY <2>2, <3>1, LimitsAssumption
         DEF TooHigh, accountExists, RangeInv, NumbersInRange, BalancesInRange, BalanceRange
    <3>3. local'[o].value = new /\ local' = [local EXCEPT ![o] = local'[o]]
      BY <3>1 DEF Computed, BankTypeOK, Local
    <3>4. UNCHANGED bankAccounts /\ step' = [step EXCEPT ![o] = step'[o]]
      BY <1>16, <2>2 DEF addBalance, Goes, BankTypeOK
    <3>5. QED
      BY <1>2, <3>2, <3>3, <3>4
  <2>3. QED
    BY <2>1, <2>2
<1>17. CASE SubtractStore(o) \/ AddStore(o)
  <2>1. bankAccounts' = [bankAccounts EXCEPT ![local[o].add_id].balance = local[o].value]
    BY <1>17 DEF SubtractStore, AddStore, StoreBalance
  <2>2. local[o].value \in BalanceRange
    BY <1>17 DEF SubtractStore, AddStore, StoreBalance, Goes, RangeInv, NumbersInRange, Storing
  <2>3. BalancesInRange'
    BY <2>1, <2>2 DEF RangeInv, BalancesInRange, BalanceRange, BankTypeOK, Account
  <2>4. NumbersInRange'
    BY <1>0, <1>17 DEF SubtractStore, AddStore, StoreBalance, Goes, RangeInv, NumbersInRange,
                       Storing, BankTypeOK, arguments
  <2>5. QED
    BY <2>3, <2>4 DEF RangeInv
<1>18. QED
  BY <1>3, <1>4, <1>5, <1>6, <1>7, <1>8, <1>9, <1>10, <1>11, <1>12, <1>13, <1>14, <1>15, <1>16, <1>17
     DEF Process

\* What main and the users do keeps the numbers in the range: a user sends no
\* other amount, and what a message does not carry stays as it was.
LEMMA StepKeepsRange ==
  TypeOK /\ BankTypeOK /\ RangeInv /\ [BankNext]_serverVars => RangeInv'
<1> SUFFICES ASSUME TypeOK, BankTypeOK, RangeInv, [BankNext]_serverVars PROVE RangeInv'
  OBVIOUS
<1>1. ASSUME UNCHANGED <<bankAccounts, step, local>>, UNCHANGED <<request, incoming>>
      PROVE  RangeInv'
  BY <1>1 DEF RangeInv, NumbersInRange, BalancesInRange, arguments
<1>2. ASSUME MainThread PROVE RangeInv'
  <2>1. CASE UNCHANGED <<request, incoming>>
    BY <1>1, <1>2, <2>1 DEF MainThread, OnlyQueue, bankVars
  <2>2. CASE ReadValue
    <3>1. UNCHANGED incoming /\ request' = [request EXCEPT !.value = ValueRead(request.value, incoming)]
      BY <2>2 DEF ReadValue
    <3>2. arguments'.number \in BalanceRange
      BY <3>1 DEF TypeOK, tlv_request, arguments, ValueRead, ArgumentFields, RangeInv, NumbersInRange
    <3>3. QED
      BY <1>2, <3>1, <3>2 DEF MainThread, OnlyQueue, bankVars, RangeInv, NumbersInRange, BalancesInRange
  <2>3. QED
    BY <1>2, <2>1, <2>2
       DEF MainThread, MainStep, LoopTest, WaitNotFull, WriteRequest, PostNotEmpty,
           DrainTest, DrainWait, DrainPost, WakeOffice, JoinOffices
<1>3. CASE UserOpens \/ EndOfFile \/ ServerStopped \/ UNCHANGED serverVars
  BY <1>1, <1>3 DEF UserOpens, OpenFifo, EndOfFile, ReadEOF, OnlyQueue, bankVars,
                    ServerStopped, serverVars, vars, mainVars
<1>4. ASSUME NEW m \in Messages, Arrives(m) PROVE RangeInv'
  <2>1. /\ incoming' = m
        /\ UNCHANGED <<bankAccounts, step, local>>
        /\ request' = [request EXCEPT !.type = m.type]
    BY <1>4 DEF Arrives, ReadType
  <2>2. m.type \in {"OP_CREATE_ACCOUNT", "OP_TRANSFER"} => m.value.arguments.number \in BalanceRange
    BY BankAssumption, LimitsAssumption DEF SentByUsers, AmountAccepted, BalanceRange
  <2>3. UNCHANGED arguments
    BY <2>1 DEF TypeOK, tlv_request, arguments
  <2>4. QED
    BY <2>1, <2>2, <2>3 DEF RangeInv, NumbersInRange, BalancesInRange
<1>5. ASSUME NEW o \in Offices, OfficeThread(o) PROVE RangeInv'
  <2>1. CASE OfficeLoop(o)
    BY <1>1, <2>1 DEF OfficeLoop, WaitNotEmpty, CheckDown, ReadRequest, OnlyQueue, bankVars, mainVars
  <2>2. CASE TakeRequest(o)
    BY <2>2 DEF TakeRequest, PostNotFull, mainVars, BankTypeOK, Storing,
                RangeInv, NumbersInRange, BalancesInRange, arguments
  <2>3. CASE Process(o)
    BY <2>3, ProcessKeepsRange
  <2>4. QED
    BY <1>5, <2>1, <2>2, <2>3 DEF OfficeThread
<1>6. QED
  BY <1>2, <1>3, <1>4, <1>5 DEF BankNext

\* No balance ever leaves the range of constants.h, for any number of offices
\* and users and however main overwrites the request they work on, if the
\* struct on main's stack did not begin with a number outside the range: a
\* transfer can be made with that number while main is still reading its value.
THEOREM BalancesStayInRange ==
  ASSUME \A g \in Garbage : g.value.arguments.number \in 0 .. MAX_BALANCE
  PROVE  BankSpec => []BalancesInRange
<1>1. BankInit => RangeInv
  <2> SUFFICES ASSUME BankInit PROVE RangeInv
    OBVIOUS
  <2>1. request \in Garbage /\ incoming = request
    BY DEF BankInit, Init
  <2>2. NumbersInRange
    BY <2>1 DEF BankInit, NumbersInRange, BalanceRange, arguments, Storing
  <2>3. BalancesInRange
    BY LimitsAssumption
       DEF BankInit, createAdminAccount, BalancesInRange, ADMIN_ACCOUNT_BALLANCE
  <2>4. QED
    BY <2>2, <2>3 DEF RangeInv
<1>2. BankSpec => []TypeOK
  BY BankImplementsQueue, TypeCorrect, PTL DEF PathOfRequests
<1>3. RangeInv => BalancesInRange
  BY DEF RangeInv
<1>4. QED
  BY <1>1, <1>2, <1>3, BankTypeCorrect, StepKeepsRange, PTL DEF BankSpec
=============================================================================
