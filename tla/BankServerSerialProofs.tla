----------------------- MODULE BankServerSerialProofs -----------------------
(***************************************************************************)
(* Proofs about BankServerSerial: with users who come one after another    *)
(* the server answers every request as module Bank says, for any number of *)
(* offices, any messages and any limits.                                   *)
(***************************************************************************)
EXTENDS BankServerSerial, OneUserProofs

-----------------------------------------------------------------------------
(* The reference, in the words of the struct that the office works on.     *)

\* The struct says what the message says.
Served ==
  /\ header = incoming.value.header
  /\ request.type = incoming.type
  /\ \A f \in ArgumentFields(incoming.type) : arguments[f] = incoming.value.arguments[f]

LoggedIn == Sender \in DOMAIN before /\ before[Sender].password = header.password
AdminOperation == request.type \in {"OP_CREATE_ACCOUNT", "OP_SHUTDOWN"}
Creating == request.type = "OP_CREATE_ACCOUNT"
Transferring == request.type = "OP_TRANSFER"

\* The errors in the order in which the office comes upon them.
FirstError ==
  IF ~LoggedIn THEN "RC_LOGIN_FAIL"
  ELSE IF AdminOperation # checkAdminOperation THEN "RC_OP_NALLOW"
  ELSE IF Creating /\ Target \in DOMAIN before THEN "RC_ID_IN_USE"
  ELSE IF Transferring /\ Target \notin DOMAIN before THEN "RC_ID_NOT_FOUND"
  ELSE IF Transferring /\ Target = Sender THEN "RC_SAME_ID"
  ELSE IF Transferring /\ before[Sender].balance < MIN_BALANCE + arguments.number
       THEN "RC_NO_FUNDS"
  ELSE IF Transferring /\ before[Target].balance + arguments.number > MAX_BALANCE
       THEN "RC_TOO_HIGH"
  ELSE "RC_OK"

After == BankOf!LedgerAfter(before, incoming)

\* The ledger between the two stores of a transfer.
Subtracted == [before EXCEPT ![Sender].balance = @ - arguments.number]

\* The ledger that the request leaves.
Left == IF Expected = "RC_TOO_HIGH" THEN Subtracted ELSE After

-----------------------------------------------------------------------------
(* What the office knows of ledger, message and reply at each step, in     *)
(* addition to what OneUserInv says.                                       *)

\* Every hash was made with the salt that is kept with it.
SaltsMatch ==
  \A id \in DOMAIN bankAccounts : bankAccounts[id].hash[2] = bankAccounts[id].salt

\* The values kept in local variables.
ValuesKept(o) ==
  /\ step[o] = "hash" =>
       local[o].password = header.password /\ local[o].salt = bankAccounts[Sender].salt
  /\ step[o] \in {"createLock", "create"} =>
       local[o].value = arguments.number /\ local[o].password = arguments.password
  /\ step[o] = "subtractStore" => local[o].value = before[Sender].balance - arguments.number
  /\ step[o] = "addStore" => local[o].value = before[Target].balance + arguments.number

\* The return codes that are still possible.
CodesLeft(o) ==
  /\ step[o] \in CreateSteps \union BalanceSteps \union {"shutdown"} => Expected = "RC_OK"
  /\ step[o] \in {"transferIds", "lockFirst", "lockSecond", "subtract"} =>
       Expected \in {"RC_OK", "RC_NO_FUNDS", "RC_TOO_HIGH"}
  /\ step[o] \in {"subtractStore", "add"} => Expected \in {"RC_OK", "RC_TOO_HIGH"}
  /\ step[o] \in {"addStore", "unlockFirst", "unlockSecond", "finalBalance"} =>
       Expected = "RC_OK"
  /\ step[o] \in {"leave", "send"} => reply[o].ret_code = Expected

\* How far the ledger has come.
LedgerSteps(o) ==
  /\ step[o] \in {"login", "hash", "createCopy", "createLock", "create", "transferIds",
                  "lockFirst", "lockSecond", "subtract", "subtractStore", "shutdown"}
                 \union BalanceSteps => Ledger = before
  /\ step[o] \in {"add", "addStore"} => Ledger = Subtracted
  /\ step[o] \in {"createUnlock", "unlockFirst", "unlockSecond", "finalBalance"} =>
       Ledger = After
  /\ step[o] \in {"leave", "send"} => Ledger = Left

\* How far the reply has come.
ReplySteps(o) ==
  /\ step[o] \in CreateSteps \union BalanceSteps \union TransferSteps \union {"shutdown"} =>
       reply[o].ret_code = "RC_OK"
  /\ step[o] \in BalanceSteps \union TransferSteps \union {"shutdown"} =>
       reply[o].account_id = Sender
  /\ step[o] \in TransferSteps => reply[o].number = arguments.number
  /\ step[o] = "balanceUnlock" => reply[o].number = before[Sender].balance
  /\ step[o] \in {"leave", "send"} =>
       /\ Expected = "RC_OK" => reply[o].account_id = Sender
       /\ BankOf!HasNumber(before, incoming) => reply[o].number = BankOf!Number(before, incoming)

Right(o) == ValuesKept(o) /\ CodesLeft(o) /\ LedgerSteps(o) /\ ReplySteps(o)

SerialInv == SaltsMatch /\ \A o \in Offices : Right(o)
-----------------------------------------------------------------------------
(* What Bank says.                                                         *)

\* The code that Bank answers with is the first error in the order of types.h.
LEMMA FirstInOrder ==
  ASSUME NEW ledger, NEW m
  PROVE  LET Error(code) == BankOf!HasError(ledger, m, code) IN
         BankOf!RetCode(ledger, m) =
           IF Error("RC_LOGIN_FAIL") THEN "RC_LOGIN_FAIL"
           ELSE IF Error("RC_OP_NALLOW") THEN "RC_OP_NALLOW"
           ELSE IF Error("RC_ID_IN_USE") THEN "RC_ID_IN_USE"
           ELSE IF Error("RC_ID_NOT_FOUND") THEN "RC_ID_NOT_FOUND"
           ELSE IF Error("RC_SAME_ID") THEN "RC_SAME_ID"
           ELSE IF Error("RC_NO_FUNDS") THEN "RC_NO_FUNDS"
           ELSE IF Error("RC_TOO_HIGH") THEN "RC_TOO_HIGH"
           ELSE "RC_OK"
<1> DEFINE Error(code) == BankOf!HasError(ledger, m, code)
           order == BankOf!ErrorOrder
           errors == BankOf!Errors(ledger, m)
           first == CHOOSE i \in errors : \A j \in errors : i <= j
<1>1. /\ DOMAIN order = 1 .. 7
      /\ order[1] = "RC_LOGIN_FAIL" /\ order[2] = "RC_OP_NALLOW" /\ order[3] = "RC_ID_IN_USE"
      /\ order[4] = "RC_ID_NOT_FOUND" /\ order[5] = "RC_SAME_ID" /\ order[6] = "RC_NO_FUNDS"
      /\ order[7] = "RC_TOO_HIGH"
  BY DEF BankOf!ErrorOrder
<1>2. errors = {i \in DOMAIN order : Error(order[i])}
  BY DEF BankOf!Errors
<1>3. BankOf!RetCode(ledger, m) = IF errors = {} THEN "RC_OK" ELSE order[first]
  BY DEF BankOf!RetCode
<1> HIDE DEF Error, order, errors, first
<1>4. \A i : i \in errors <=> i \in 1 .. 7 /\ Error(order[i])
  BY <1>1, <1>2
<1>5. ASSUME NEW k \in errors, \A j \in errors : k <= j
      PROVE  BankOf!RetCode(ledger, m) = order[k]
  <2>1. first \in errors /\ \A j \in errors : first <= j
    BY <1>5, Zenon DEF first
  <2>2. first = k
    BY <1>4, <1>5, <2>1
  <2>3. QED
    BY <1>3, <2>2
<1>6. CASE errors = {}
  <2>1. \A i \in 1 .. 7 : ~Error(order[i])
    BY <1>4, <1>6
  <2>2. BankOf!RetCode(ledger, m) = "RC_OK"
    BY <1>3, <1>6
  <2>3. QED
    BY <1>1, <2>1, <2>2 DEF Error
<1>7. CASE errors # {}
  <2>1. \E k \in errors : \A j \in errors : k <= j
    BY <1>4, <1>7
  <2>2. PICK k \in errors : \A j \in errors : k <= j
    BY <2>1
  <2>3. /\ k \in 1 .. 7 /\ Error(order[k])
        /\ \A j \in 1 .. 7 : j < k => ~Error(order[j])
        /\ BankOf!RetCode(ledger, m) = order[k]
    BY <1>4, <1>5, <2>2
  <2>4. QED
    BY <1>1, <2>3 DEF Error
<1>8. QED
  BY <1>6, <1>7

\* The errors, one by one.
LEMMA ErrorCases ==
  ASSUME NEW ledger, NEW m
  PROVE  LET id     == m.value.header.account_id
             other  == m.value.arguments.account_id
             number == m.value.arguments.number
         IN
         /\ BankOf!HasError(ledger, m, "RC_LOGIN_FAIL") <=>
              ~ (id \in DOMAIN ledger /\ ledger[id].password = m.value.header.password)
         /\ BankOf!HasError(ledger, m, "RC_OP_NALLOW") <=>
              (m.type \in {"OP_CREATE_ACCOUNT", "OP_SHUTDOWN"}) # (id = ADMIN_ACCOUNT_ID)
         /\ BankOf!HasError(ledger, m, "RC_ID_IN_USE") <=>
              m.type = "OP_CREATE_ACCOUNT" /\ other \in DOMAIN ledger
         /\ BankOf!HasError(ledger, m, "RC_ID_NOT_FOUND") <=>
              m.type = "OP_TRANSFER" /\ other \notin DOMAIN ledger
         /\ BankOf!HasError(ledger, m, "RC_SAME_ID") <=> m.type = "OP_TRANSFER" /\ other = id
         /\ BankOf!HasError(ledger, m, "RC_NO_FUNDS") <=>
              /\ m.type = "OP_TRANSFER" /\ id \in DOMAIN ledger
              /\ ledger[id].balance < MIN_BALANCE + number
         /\ BankOf!HasError(ledger, m, "RC_TOO_HIGH") <=>
              /\ m.type = "OP_TRANSFER" /\ other \in DOMAIN ledger
              /\ ledger[other].balance + number > MAX_BALANCE
BY DEF BankOf!HasError, BankOf!AdminOps, BankOf!ADMIN_ACCOUNT_ID, ADMIN_ACCOUNT_ID

\* What the message says, read from the struct.
LEMMA MessageSays ==
  ASSUME Served
  PROVE  /\ incoming.type = request.type
         /\ incoming.value.header.account_id = Sender
         /\ incoming.value.header.password = header.password
         /\ Creating \/ Transferring =>
              /\ incoming.value.arguments.account_id = Target
              /\ incoming.value.arguments.number = arguments.number
         /\ Creating => incoming.value.arguments.password = arguments.password
BY DEF Served, Sender, Target, Creating, Transferring, ArgumentFields

\* The answer expected is the first error the office comes upon.
LEMMA ExpectedIsFirst ==
  ASSUME Served
  PROVE  Expected = FirstError
<1> DEFINE Error(code) == BankOf!HasError(before, incoming, code)
<1>1. /\ Error("RC_LOGIN_FAIL") <=> ~LoggedIn
      /\ Error("RC_OP_NALLOW") <=> AdminOperation # checkAdminOperation
  BY ErrorCases, MessageSays DEF LoggedIn, AdminOperation, checkAdminOperation, Sender
<1>2. /\ Error("RC_ID_IN_USE") <=> Creating /\ Target \in DOMAIN before
      /\ Error("RC_ID_NOT_FOUND") <=> Transferring /\ Target \notin DOMAIN before
      /\ Error("RC_SAME_ID") <=> Transferring /\ Target = Sender
  BY ErrorCases, MessageSays DEF Creating, Transferring
<1>3. Error("RC_NO_FUNDS") <=> /\ Transferring /\ Sender \in DOMAIN before
                               /\ before[Sender].balance < MIN_BALANCE + arguments.number
  BY ErrorCases, MessageSays DEF Transferring
<1>4. Error("RC_TOO_HIGH") <=> /\ Transferring /\ Target \in DOMAIN before
                               /\ before[Target].balance + arguments.number > MAX_BALANCE
  BY ErrorCases, MessageSays DEF Transferring
<1>5. QED
  <2> HIDE DEF Error
  <2>1. Expected = IF Error("RC_LOGIN_FAIL") THEN "RC_LOGIN_FAIL"
                   ELSE IF Error("RC_OP_NALLOW") THEN "RC_OP_NALLOW"
                   ELSE IF Error("RC_ID_IN_USE") THEN "RC_ID_IN_USE"
                   ELSE IF Error("RC_ID_NOT_FOUND") THEN "RC_ID_NOT_FOUND"
                   ELSE IF Error("RC_SAME_ID") THEN "RC_SAME_ID"
                   ELSE IF Error("RC_NO_FUNDS") THEN "RC_NO_FUNDS"
                   ELSE IF Error("RC_TOO_HIGH") THEN "RC_TOO_HIGH"
                   ELSE "RC_OK"
    BY FirstInOrder DEF Expected, Error
  <2>2. QED
    BY <1>1, <1>2, <1>3, <1>4, <2>1 DEF FirstError, LoggedIn

\* The ledger expected, for a request that changes it and for one that does not.
LEMMA AfterIs ==
  ASSUME Served
  PROVE  /\ Expected # "RC_OK" \/ ~(Creating \/ Transferring) => After = before
         /\ Expected = "RC_OK" /\ Creating =>
              After = [i \in DOMAIN before \union {Target} |->
                         IF i = Target THEN [password |-> arguments.password,
                                             balance  |-> arguments.number]
                                       ELSE before[i]]
         /\ Expected = "RC_OK" /\ Transferring =>
              After = [before EXCEPT ![Sender].balance = @ - arguments.number,
                                     ![Target].balance = @ + arguments.number]
<1> DEFINE id     == incoming.value.header.account_id
           other  == incoming.value.arguments.account_id
           number == incoming.value.arguments.number
<1>1. /\ Expected # "RC_OK" \/ incoming.type \notin {"OP_CREATE_ACCOUNT", "OP_TRANSFER"} =>
           After = before
      /\ Expected = "RC_OK" /\ incoming.type = "OP_CREATE_ACCOUNT" =>
           After = [i \in DOMAIN before \union {other} |->
                      IF i = other THEN [password |-> incoming.value.arguments.password,
                                         balance  |-> number]
                                   ELSE before[i]]
      /\ Expected = "RC_OK" /\ incoming.type = "OP_TRANSFER" =>
           After = [before EXCEPT ![id].balance = @ - number, ![other].balance = @ + number]
  BY Zenon DEF After, Expected, BankOf!LedgerAfter
<1>2. /\ incoming.type = request.type
      /\ id = Sender
      /\ Creating \/ Transferring => other = Target /\ number = arguments.number
      /\ Creating => incoming.value.arguments.password = arguments.password
  BY MessageSays
<1> HIDE DEF id, other, number
<1>3. CASE Expected = "RC_OK" /\ Creating
  BY <1>1, <1>2, <1>3 DEF Creating, Transferring
<1>4. CASE Expected = "RC_OK" /\ Transferring
  BY <1>1, <1>2, <1>4 DEF Creating, Transferring
<1>5. CASE Expected # "RC_OK" \/ ~(Creating \/ Transferring)
  BY <1>1, <1>2, <1>5 DEF Creating, Transferring
<1>6. QED
  BY <1>3, <1>4, <1>5

\* The number expected with the answer.
LEMMA NumberIs ==
  ASSUME Served
  PROVE  /\ BankOf!HasNumber(before, incoming) <=>
              \/ request.type = "OP_BALANCE" /\ Expected = "RC_OK"
              \/ Transferring /\ Expected # "RC_LOGIN_FAIL"
         /\ Expected = "RC_OK" => BankOf!Number(before, incoming) = After[Sender].balance
         /\ Expected # "RC_OK" /\ Transferring =>
              BankOf!Number(before, incoming) = arguments.number
BY MessageSays DEF BankOf!HasNumber, BankOf!Number, After, Expected, Transferring
-----------------------------------------------------------------------------
(* The accounts as a ledger.                                               *)

\* The ledger has the accounts that exist, with integral balances.
LEMMA LedgerHas ==
  ASSUME BankTypeOK
  PROVE  /\ DOMAIN Ledger = DOMAIN bankAccounts
         /\ \A id \in DOMAIN bankAccounts :
              /\ Ledger[id] = [password |-> bankAccounts[id].hash[1],
                               balance  |-> bankAccounts[id].balance]
              /\ bankAccounts[id].balance \in Int
BY DEF Ledger, BankTypeOK, Account

\* The hashes agree exactly when the passwords do.
LEMMA HashTellsPasswords ==
  ASSUME BankTypeOK, SaltsMatch, NEW id \in DOMAIN bankAccounts, NEW password
  PROVE  Hash(password, bankAccounts[id].salt) = bankAccounts[id].hash
           <=> Ledger[id].password = password
<1>1. PICK p \in Passwords, s \in Salts : bankAccounts[id].hash = <<p, s>>
  BY DEF BankTypeOK, Account, Hash
<1>2. bankAccounts[id].salt = s /\ Ledger[id].password = p
  BY <1>1, LedgerHas DEF SaltsMatch
<1>3. QED
  BY <1>1, <1>2 DEF Hash

\* A stored balance is a balance of the ledger.
LEMMA LedgerStores ==
  ASSUME BankTypeOK, SaltsMatch, NEW id \in DOMAIN bankAccounts, NEW balance,
         bankAccounts' = [bankAccounts EXCEPT ![id].balance = balance]
  PROVE  Ledger' = [Ledger EXCEPT ![id].balance = balance] /\ SaltsMatch'
<1>1. /\ DOMAIN bankAccounts' = DOMAIN bankAccounts
      /\ \A i \in DOMAIN bankAccounts :
           /\ bankAccounts'[i].hash = bankAccounts[i].hash
           /\ bankAccounts'[i].salt = bankAccounts[i].salt
           /\ bankAccounts'[i].balance = IF i = id THEN balance ELSE bankAccounts[i].balance
  BY DEF BankTypeOK, Account
<1>2. SaltsMatch'
  BY <1>1 DEF SaltsMatch
<1>3. Ledger' = [i \in DOMAIN bankAccounts |->
                   [password |-> bankAccounts[i].hash[1],
                    balance  |-> IF i = id THEN balance ELSE bankAccounts[i].balance]]
  BY <1>1 DEF Ledger
<1>4. QED
  BY <1>2, <1>3 DEF Ledger

\* A new account is a new entry of the ledger, or replaces the old one.
LEMMA LedgerCreates ==
  ASSUME BankTypeOK, SaltsMatch, NEW o \in Offices, Create(o)
  PROVE  /\ Ledger' = [i \in DOMAIN Ledger \union {local[o].id} |->
                         IF i = local[o].id
                         THEN [password |-> local[o].password, balance |-> local[o].value]
                         ELSE Ledger[i]]
         /\ SaltsMatch'
<1> DEFINE id == local[o].id
<1>1. PICK salt \in Salts :
        createBankAccount(id, local[o].value, local[o].password, salt)
  BY DEF Create
<1>2. /\ DOMAIN bankAccounts' = DOMAIN bankAccounts \union {id}
      /\ \A i \in DOMAIN bankAccounts' : i # id => bankAccounts'[i] = bankAccounts[i]
      /\ bankAccounts'[id] = [hash    |-> <<local[o].password, salt>>,
                              salt    |-> salt,
                              balance |-> local[o].value]
  BY <1>1 DEF createBankAccount, Hash
<1> HIDE DEF id
<1>3. SaltsMatch'
  BY <1>2 DEF SaltsMatch
<1>4. Ledger' = [i \in DOMAIN bankAccounts \union {id} |->
                   IF i = id
                   THEN [password |-> local[o].password, balance |-> local[o].value]
                   ELSE [password |-> bankAccounts[i].hash[1],
                         balance  |-> bankAccounts[i].balance]]
  BY <1>2 DEF Ledger
<1>5. QED
  BY <1>3, <1>4 DEF Ledger, id

-----------------------------------------------------------------------------
(* The steps of processRequest, from the login to the reply.               *)

\* What stays as it was while an office serves the message.
LEMMA NothingElseMoves ==
  ASSUME UNCHANGED <<request, incoming, before>>
  PROVE  /\ header' = header /\ arguments' = arguments
         /\ Sender' = Sender /\ Target' = Target
         /\ Expected' = Expected /\ After' = After /\ Subtracted' = Subtracted /\ Left' = Left
         /\ BankOf!HasNumber(before, incoming)' = BankOf!HasNumber(before, incoming)
         /\ BankOf!Number(before, incoming)' = BankOf!Number(before, incoming)
<1>1. header' = header /\ arguments' = arguments /\ Sender' = Sender /\ Target' = Target
  BY DEF header, arguments, Sender, Target
<1>2. Expected' = Expected /\ After' = After
  BY DEF Expected, After
<1>3. Subtracted' = Subtracted /\ Left' = Left
  BY <1>1, <1>2 DEF Subtracted, Left
<1>4. /\ BankOf!HasNumber(before, incoming)' = BankOf!HasNumber(before, incoming)
      /\ BankOf!Number(before, incoming)' = BankOf!Number(before, incoming)
  OBVIOUS
<1>5. QED
  BY <1>1, <1>2, <1>3, <1>4

\* What an office must know when it has finished with the request.
LEMMA AnswerReady ==
  ASSUME NEW o \in Offices, UNCHANGED <<request, incoming, before>>,
         step'[o] \in {"leave", "send"},
         reply'[o].ret_code = Expected,
         Ledger' = Left,
         Expected = "RC_OK" => reply'[o].account_id = Sender,
         BankOf!HasNumber(before, incoming) =>
           reply'[o].number = BankOf!Number(before, incoming)
  PROVE  Right(o)'
<1>1. /\ Sender' = Sender /\ Expected' = Expected /\ Left' = Left
      /\ BankOf!HasNumber(before, incoming)' = BankOf!HasNumber(before, incoming)
      /\ BankOf!Number(before, incoming)' = BankOf!Number(before, incoming)
  BY NothingElseMoves
<1>2. ValuesKept(o)' /\ CodesLeft(o)'
  BY <1>1 DEF ValuesKept, CodesLeft, CreateSteps, BalanceSteps
<1>3. LedgerSteps(o)' /\ ReplySteps(o)'
  BY <1>1 DEF LedgerSteps, ReplySteps, CreateSteps, BalanceSteps, TransferSteps
<1>4. QED
  BY <1>2, <1>3 DEF Right

\* A request that fails before it has changed anything is answered as Bank says.
LEMMA ErrorReady ==
  ASSUME NEW o \in Offices, UNCHANGED <<request, incoming, before, bankAccounts>>,
         Served, Ledger = before,
         step'[o] \in {"leave", "send"},
         reply'[o].ret_code = Expected, Expected \notin {"RC_OK", "RC_TOO_HIGH"},
         Expected # "RC_LOGIN_FAIL" /\ Transferring => reply'[o].number = arguments.number
  PROVE  Right(o)'
<1>1. Ledger' = Left
  <2>1. Left = before
    BY AfterIs DEF Left
  <2>2. Ledger' = Ledger
    BY DEF Ledger
  <2>3. QED
    BY <2>1, <2>2
<1>2. BankOf!HasNumber(before, incoming) =>
        reply'[o].number = BankOf!Number(before, incoming)
  BY NumberIs
<1>3. QED
  BY <1>1, <1>2, AnswerReady

\* The login is valid exactly when Bank says so.
LEMMA LoginIsRight ==
  ASSUME BankTypeOK, SaltsMatch, NEW o \in Offices, Work(o), Right(o), step[o] = "hash"
  PROVE  /\ Ledger = before /\ Sender \in DOMAIN before
         /\ validateLogin(o) <=> LoggedIn
<1>1. accountExists(Sender) /\ local[o].id = Sender
  BY DEF Work, AccountsThere
<1>2. local[o].password = header.password /\ local[o].salt = bankAccounts[Sender].salt
  BY DEF Right, ValuesKept
<1>3. Ledger = before
  BY DEF Right, LedgerSteps
<1>4. Sender \in DOMAIN bankAccounts /\ DOMAIN before = DOMAIN bankAccounts
  BY <1>1, <1>3, LedgerHas DEF accountExists
<1>5. validateLogin(o) <=> before[Sender].password = header.password
  <2>1. validateLogin(o) <=>
          Hash(header.password, bankAccounts[Sender].salt) = bankAccounts[Sender].hash
    BY <1>1, <1>2 DEF validateLogin
  <2>2. Hash(header.password, bankAccounts[Sender].salt) = bankAccounts[Sender].hash
          <=> Ledger[Sender].password = header.password
    BY <1>4, HashTellsPasswords
  <2>3. QED
    BY <1>3, <2>1, <2>2
<1>6. QED
  BY <1>3, <1>4, <1>5 DEF LoggedIn

\* The first step: whose the request is.
LEMMA LoginReadIsRight ==
  ASSUME TypeOK, BankTypeOK, NEW o \in Offices, LoginRead(o), Right(o), Served,
         UNCHANGED <<request, incoming, before>>
  PROVE  Right(o)'
<1>1. step[o] = "login" /\ UNCHANGED bankAccounts
  BY DEF LoginRead, Goes
<1>2. Ledger = before /\ Ledger' = before
  BY <1>1 DEF Right, LedgerSteps, Ledger
<1>3. CASE accountExists(Sender)
  <2>1. /\ step'[o] = "hash"
        /\ local'[o].password = header.password /\ local'[o].salt = bankAccounts[Sender].salt
    BY <1>3 DEF LoginRead, Goes, BankTypeOK, Local, Sender
  <2>2. ValuesKept(o)' /\ CodesLeft(o)'
    BY <1>1, <2>1, NothingElseMoves DEF ValuesKept, CodesLeft, CreateSteps, BalanceSteps
  <2>3. LedgerSteps(o)' /\ ReplySteps(o)'
    BY <1>2, <2>1 DEF LedgerSteps, ReplySteps, CreateSteps, BalanceSteps, TransferSteps
  <2>4. QED
    BY <2>2, <2>3 DEF Right
<1>4. CASE ~accountExists(Sender)
  <2>1. step'[o] = "send" /\ reply'[o].ret_code = "RC_LOGIN_FAIL"
    BY <1>4 DEF LoginRead, Goes, BankTypeOK, Reply, Sender
  <2>2. Expected = "RC_LOGIN_FAIL"
    BY <1>2, <1>4, LedgerHas, ExpectedIsFirst DEF FirstError, LoggedIn, accountExists
  <2>3. QED
    BY <1>1, <1>2, <2>1, <2>2, ErrorReady
<1>5. QED
  BY <1>3, <1>4

LEMMA LoginFailsIsRight ==
  ASSUME TypeOK, BankTypeOK, SaltsMatch, NEW o \in Offices, Work(o), LoginFails(o), Right(o),
         Served, UNCHANGED <<request, incoming, before>>
  PROVE  Right(o)'
<1>1. /\ step[o] = "hash" /\ step'[o] = "send" /\ UNCHANGED bankAccounts
      /\ ~validateLogin(o) /\ reply'[o].ret_code = "RC_LOGIN_FAIL"
  BY DEF LoginFails, Code, Goes, BankTypeOK, Reply
<1>2. Ledger = before /\ ~LoggedIn
  BY <1>1, LoginIsRight
<1>3. Expected = "RC_LOGIN_FAIL"
  BY <1>2, ExpectedIsFirst DEF FirstError
<1>4. QED
  BY <1>1, <1>2, <1>3, ErrorReady
\* What the office knows in the switch.
LEMMA SwitchIsRight ==
  ASSUME BankTypeOK, SaltsMatch, NEW o \in Offices, Work(o), Right(o),
         NEW type, NEW to, Dispatch(o, type, to)
  PROVE  /\ step[o] = "hash" /\ step'[o] = to /\ request.type = type
         /\ Ledger = before /\ Sender \in DOMAIN before /\ LoggedIn
         /\ \A id : accountExists(id) <=> id \in DOMAIN before
<1>1. step[o] = "hash" /\ step'[o] = to /\ request.type = type /\ validateLogin(o)
  BY DEF Dispatch, Goes, BankTypeOK
<1>2. Ledger = before /\ Sender \in DOMAIN before /\ LoggedIn
  BY <1>1, LoginIsRight
<1>3. \A id : accountExists(id) <=> id \in DOMAIN before
  BY <1>2, LedgerHas DEF accountExists
<1>4. QED
  BY <1>1, <1>2, <1>3

LEMMA OPCreateAccountIsRight ==
  ASSUME TypeOK, BankTypeOK, SaltsMatch, NEW o \in Offices, Work(o), OPCreateAccount(o),
         Right(o), Served, UNCHANGED <<request, incoming, before>>
  PROVE  Right(o)'
<1> DEFINE code == validateCreateAccount
<1>1. /\ Dispatch(o, "OP_CREATE_ACCOUNT", IF code = "RC_OK" THEN "createCopy" ELSE "leave")
      /\ reply'[o].ret_code = code /\ UNCHANGED bankAccounts
  BY DEF OPCreateAccount, Code, BankTypeOK, Reply
<1>2. /\ step'[o] = (IF code = "RC_OK" THEN "createCopy" ELSE "leave")
      /\ request.type = "OP_CREATE_ACCOUNT"
      /\ Ledger = before /\ LoggedIn /\ \A id : accountExists(id) <=> id \in DOMAIN before
  BY <1>1, SwitchIsRight
<1>3. Expected = code
  BY <1>2, ExpectedIsFirst
     DEF FirstError, AdminOperation, Creating, Transferring, validateCreateAccount,
         checkAdminOperation, Target
<1>4. CASE code # "RC_OK"
  BY <1>1, <1>2, <1>3, <1>4, ErrorReady DEF Transferring, validateCreateAccount
<1>5. CASE code = "RC_OK"
  <2>1. step'[o] = "createCopy" /\ reply'[o].ret_code = "RC_OK" /\ Expected = "RC_OK"
    BY <1>1, <1>2, <1>3, <1>5
  <2>2. Ledger' = before'
    BY <1>1, <1>2 DEF Ledger
  <2>3. ValuesKept(o)' /\ CodesLeft(o)'
    BY <2>1, NothingElseMoves DEF ValuesKept, CodesLeft, CreateSteps, BalanceSteps
  <2>4. LedgerSteps(o)' /\ ReplySteps(o)'
    BY <2>1, <2>2 DEF LedgerSteps, ReplySteps, CreateSteps, BalanceSteps, TransferSteps
  <2>5. QED
    BY <2>3, <2>4 DEF Right
<1>6. QED
  BY <1>4, <1>5

LEMMA OPBalanceIsRight ==
  ASSUME TypeOK, BankTypeOK, SaltsMatch, NEW o \in Offices, Work(o), OPBalance(o),
         Right(o), Served, UNCHANGED <<request, incoming, before>>
  PROVE  Right(o)'
<1> DEFINE code == validateOPBalance
<1>1. /\ Dispatch(o, "OP_BALANCE", IF code = "RC_OK" THEN "balanceLock" ELSE "leave")
      /\ UNCHANGED bankAccounts
  BY DEF OPBalance
<1>2. /\ reply'[o].ret_code = code
      /\ code = "RC_OK" => reply'[o].account_id = Sender
  BY DEF OPBalance, Code, BankTypeOK, Reply, Sender
<1>3. /\ step'[o] = (IF code = "RC_OK" THEN "balanceLock" ELSE "leave")
      /\ request.type = "OP_BALANCE" /\ Ledger = before /\ LoggedIn
  BY <1>1, SwitchIsRight
<1>4. Expected = code
  BY <1>3, ExpectedIsFirst
     DEF FirstError, AdminOperation, Creating, Transferring, validateOPBalance, checkAdminOperation
<1>5. CASE code # "RC_OK"
  BY <1>1, <1>2, <1>3, <1>4, <1>5, ErrorReady DEF Transferring, validateOPBalance
<1>6. CASE code = "RC_OK"
  <2>1. /\ step'[o] = "balanceLock" /\ reply'[o].ret_code = "RC_OK" /\ Expected = "RC_OK"
        /\ reply'[o].account_id = Sender
    BY <1>2, <1>3, <1>4, <1>6
  <2>2. Ledger' = before'
    BY <1>1, <1>3 DEF Ledger
  <2>3. ValuesKept(o)' /\ CodesLeft(o)'
    BY <2>1, NothingElseMoves DEF ValuesKept, CodesLeft, CreateSteps, BalanceSteps
  <2>4. LedgerSteps(o)' /\ ReplySteps(o)'
    BY <2>1, <2>2, NothingElseMoves
       DEF LedgerSteps, ReplySteps, CreateSteps, BalanceSteps, TransferSteps
  <2>5. QED
    BY <2>3, <2>4 DEF Right
<1>7. QED
  BY <1>5, <1>6

LEMMA OPTransferIsRight ==
  ASSUME TypeOK, BankTypeOK, SaltsMatch, NEW o \in Offices, Work(o), OPTransfer(o),
         Right(o), Served, UNCHANGED <<request, incoming, before>>
  PROVE  Right(o)'
<1> DEFINE code == validateOPTransfer
<1>1. /\ Dispatch(o, "OP_TRANSFER", IF code = "RC_OK" THEN "transferIds" ELSE "leave")
      /\ UNCHANGED bankAccounts
  BY DEF OPTransfer
<1>2. /\ reply'[o].ret_code = code /\ reply'[o].account_id = Sender
      /\ reply'[o].number = arguments.number
  BY DEF OPTransfer, BankTypeOK, Reply, Sender
<1>3. /\ step'[o] = (IF code = "RC_OK" THEN "transferIds" ELSE "leave")
      /\ request.type = "OP_TRANSFER" /\ Ledger = before /\ LoggedIn
      /\ \A id : accountExists(id) <=> id \in DOMAIN before
  BY <1>1, SwitchIsRight
<1>4. /\ code # "RC_OK" => Expected = code
      /\ code = "RC_OK" => Expected \in {"RC_OK", "RC_NO_FUNDS", "RC_TOO_HIGH"}
  BY <1>3, ExpectedIsFirst
     DEF FirstError, AdminOperation, Creating, Transferring, validateOPTransfer,
         checkAdminOperation, Sender, Target
<1>5. CASE code # "RC_OK"
  BY <1>1, <1>2, <1>3, <1>4, <1>5, ErrorReady DEF validateOPTransfer
<1>6. CASE code = "RC_OK"
  <2>1. /\ step'[o] = "transferIds" /\ reply'[o].ret_code = "RC_OK"
        /\ reply'[o].account_id = Sender /\ reply'[o].number = arguments.number
        /\ Expected \in {"RC_OK", "RC_NO_FUNDS", "RC_TOO_HIGH"}
    BY <1>2, <1>3, <1>4, <1>6
  <2>2. Ledger' = before'
    BY <1>1, <1>3 DEF Ledger
  <2>3. ValuesKept(o)' /\ CodesLeft(o)'
    BY <2>1, NothingElseMoves DEF ValuesKept, CodesLeft, CreateSteps, BalanceSteps
  <2>4. LedgerSteps(o)' /\ ReplySteps(o)'
    BY <2>1, <2>2, NothingElseMoves
       DEF LedgerSteps, ReplySteps, CreateSteps, BalanceSteps, TransferSteps
  <2>5. QED
    BY <2>3, <2>4 DEF Right
<1>7. QED
  BY <1>5, <1>6

LEMMA BeginShutDownIsRight ==
  ASSUME TypeOK, BankTypeOK, SaltsMatch, NEW o \in Offices, Work(o), BeginShutDown(o),
         Right(o), Served, UNCHANGED <<request, incoming, before>>
  PROVE  Right(o)'
<1> DEFINE code == validateShutDown
<1>1. /\ Dispatch(o, "OP_SHUTDOWN", IF code = "RC_OK" THEN "shutdown" ELSE "leave")
      /\ UNCHANGED bankAccounts
  BY DEF BeginShutDown
<1>2. /\ reply'[o].ret_code = code
      /\ code = "RC_OK" => reply'[o].account_id = Sender
  BY DEF BeginShutDown, Code, BankTypeOK, Reply, Sender
<1>3. /\ step'[o] = (IF code = "RC_OK" THEN "shutdown" ELSE "leave")
      /\ request.type = "OP_SHUTDOWN" /\ Ledger = before /\ LoggedIn
  BY <1>1, SwitchIsRight
<1>4. Expected = code
  BY <1>3, ExpectedIsFirst
     DEF FirstError, AdminOperation, Creating, Transferring, validateShutDown, checkAdminOperation
<1>5. CASE code # "RC_OK"
  BY <1>1, <1>2, <1>3, <1>4, <1>5, ErrorReady DEF Transferring, validateShutDown
<1>6. CASE code = "RC_OK"
  <2>1. /\ step'[o] = "shutdown" /\ reply'[o].ret_code = "RC_OK" /\ Expected = "RC_OK"
        /\ reply'[o].account_id = Sender
    BY <1>2, <1>3, <1>4, <1>6
  <2>2. Ledger' = before'
    BY <1>1, <1>3 DEF Ledger
  <2>3. ValuesKept(o)' /\ CodesLeft(o)'
    BY <2>1, NothingElseMoves DEF ValuesKept, CodesLeft, CreateSteps, BalanceSteps
  <2>4. LedgerSteps(o)' /\ ReplySteps(o)'
    BY <2>1, <2>2, NothingElseMoves
       DEF LedgerSteps, ReplySteps, CreateSteps, BalanceSteps, TransferSteps
  <2>5. QED
    BY <2>3, <2>4 DEF Right
<1>7. QED
  BY <1>5, <1>6
\* Copying the ids, taking and giving back mutexes and counting out change
\* neither the ledger nor the reply.
LEMMA LocksAreRight ==
  ASSUME TypeOK, BankTypeOK, NEW o \in Offices, Right(o), Served,
         UNCHANGED <<request, incoming, before>>,
         \/ TransferIds(o) \/ LockFirst(o) \/ LockSecond(o) \/ UnlockFirst(o) \/ UnlockSecond(o)
         \/ BalanceLock(o) \/ CreateLock(o) \/ Leave(o)
  PROVE  Right(o)'
<1>1. /\ UNCHANGED <<bankAccounts, reply>>
      /\ Ledger' = Ledger
  BY DEF TransferIds, LockFirst, LockSecond, UnlockFirst, UnlockSecond, BalanceLock, CreateLock,
         Leave, Ledger
<1>2. /\ Sender' = Sender /\ Target' = Target /\ arguments' = arguments
      /\ Expected' = Expected /\ After' = After /\ Subtracted' = Subtracted /\ Left' = Left
      /\ BankOf!HasNumber(before, incoming)' = BankOf!HasNumber(before, incoming)
      /\ BankOf!Number(before, incoming)' = BankOf!Number(before, incoming)
  BY NothingElseMoves
<1>3. CASE TransferIds(o) \/ LockFirst(o) \/ LockSecond(o)
  <2>1. \/ step[o] = "transferIds" /\ step'[o] = "lockFirst"
        \/ step[o] = "lockFirst" /\ step'[o] = "lockSecond"
        \/ step[o] = "lockSecond" /\ step'[o] = "subtract"
    BY <1>3 DEF TransferIds, LockFirst, LockSecond, Goes, BankTypeOK
  <2>2. ValuesKept(o)' /\ CodesLeft(o)'
    BY <1>2, <2>1 DEF Right, ValuesKept, CodesLeft, CreateSteps, BalanceSteps
  <2>3. LedgerSteps(o)' /\ ReplySteps(o)'
    BY <1>1, <1>2, <2>1
       DEF Right, LedgerSteps, ReplySteps, CreateSteps, BalanceSteps, TransferSteps
  <2>4. QED
    BY <2>2, <2>3 DEF Right
<1>4. CASE UnlockFirst(o) \/ UnlockSecond(o)
  <2>1. \/ step[o] = "unlockFirst" /\ step'[o] = "unlockSecond"
        \/ step[o] = "unlockSecond" /\ step'[o] = "finalBalance"
    BY <1>4 DEF UnlockFirst, UnlockSecond, Goes, BankTypeOK
  <2>2. ValuesKept(o)' /\ CodesLeft(o)'
    BY <1>2, <2>1 DEF Right, ValuesKept, CodesLeft, CreateSteps, BalanceSteps
  <2>3. LedgerSteps(o)' /\ ReplySteps(o)'
    BY <1>1, <1>2, <2>1
       DEF Right, LedgerSteps, ReplySteps, CreateSteps, BalanceSteps, TransferSteps
  <2>4. QED
    BY <2>2, <2>3 DEF Right
<1>5. CASE BalanceLock(o)
  <2>1. step[o] = "balanceLock" /\ step'[o] = "balance"
    BY <1>5 DEF BalanceLock, Goes, BankTypeOK
  <2>2. ValuesKept(o)' /\ CodesLeft(o)'
    BY <1>2, <2>1 DEF Right, ValuesKept, CodesLeft, CreateSteps, BalanceSteps
  <2>3. LedgerSteps(o)' /\ ReplySteps(o)'
    BY <1>1, <1>2, <2>1
       DEF Right, LedgerSteps, ReplySteps, CreateSteps, BalanceSteps, TransferSteps
  <2>4. QED
    BY <2>2, <2>3 DEF Right
<1>6. CASE CreateLock(o)
  <2>1. step[o] = "createLock" /\ step'[o] = "create" /\ UNCHANGED local
    BY <1>6 DEF CreateLock, Goes, BankTypeOK
  <2>2. ValuesKept(o)' /\ CodesLeft(o)'
    BY <1>2, <2>1 DEF Right, ValuesKept, CodesLeft, CreateSteps, BalanceSteps
  <2>3. LedgerSteps(o)' /\ ReplySteps(o)'
    BY <1>1, <1>2, <2>1
       DEF Right, LedgerSteps, ReplySteps, CreateSteps, BalanceSteps, TransferSteps
  <2>4. QED
    BY <2>2, <2>3 DEF Right
<1>7. CASE Leave(o)
  <2>1. step[o] = "leave" /\ step'[o] = "send"
    BY <1>7 DEF Leave, Goes, BankTypeOK
  <2>2. ValuesKept(o)' /\ CodesLeft(o)'
    BY <1>1, <1>2, <2>1 DEF Right, ValuesKept, CodesLeft, CreateSteps, BalanceSteps
  <2>3. LedgerSteps(o)' /\ ReplySteps(o)'
    BY <1>1, <1>2, <2>1
       DEF Right, LedgerSteps, ReplySteps, CreateSteps, BalanceSteps, TransferSteps
  <2>4. QED
    BY <2>2, <2>3 DEF Right
<1>8. QED
  BY <1>3, <1>4, <1>5, <1>6, <1>7

\* A creation writes the account that Bank has in its ledger.
LEMMA CreationIsRight ==
  ASSUME TypeOK, BankTypeOK, SaltsMatch, NEW o \in Offices, Work(o), Right(o), Served,
         UNCHANGED <<request, incoming, before>>,
         CreateCopy(o) \/ Create(o) \/ CreateUnlock(o)
  PROVE  Right(o)'
<1>1. step[o] \in CreateSteps
  BY DEF CreateCopy, Create, CreateUnlock, Goes, CreateSteps
<1>2. /\ Expected = "RC_OK" /\ reply[o].ret_code = "RC_OK"
      /\ Creating
  BY <1>1 DEF Right, CodesLeft, ReplySteps, Work, TypeKept, Creating
<1>3. CASE CreateCopy(o)
  <2>1. /\ step[o] = "createCopy" /\ step'[o] = "createLock" /\ UNCHANGED <<bankAccounts, reply>>
        /\ local'[o].value = arguments.number /\ local'[o].password = arguments.password
    BY <1>3 DEF CreateCopy, Goes, BankTypeOK, Local
  <2>2. Ledger' = before
    BY <2>1 DEF Right, LedgerSteps, Ledger
  <2>3. ValuesKept(o)' /\ CodesLeft(o)'
    BY <1>2, <2>1, NothingElseMoves DEF ValuesKept, CodesLeft, CreateSteps, BalanceSteps
  <2>4. LedgerSteps(o)' /\ ReplySteps(o)'
    BY <1>2, <2>1, <2>2 DEF LedgerSteps, ReplySteps, CreateSteps, BalanceSteps, TransferSteps
  <2>5. QED
    BY <2>3, <2>4 DEF Right
<1>4. CASE Create(o)
  <2>1. step[o] = "create" /\ step'[o] = "createUnlock" /\ UNCHANGED reply
    BY <1>4 DEF Create, Goes, BankTypeOK
  <2>2. /\ local[o].id = Target /\ Ledger = before
        /\ local[o].value = arguments.number /\ local[o].password = arguments.password
    BY <2>1 DEF Work, IdsKept, Right, ValuesKept, LedgerSteps
  <2>3. Ledger' = [i \in DOMAIN Ledger \union {local[o].id} |->
                     IF i = local[o].id
                     THEN [password |-> local[o].password, balance |-> local[o].value]
                     ELSE Ledger[i]]
    BY <1>4, LedgerCreates
  <2>4. Ledger' = [i \in DOMAIN before \union {Target} |->
                     IF i = Target THEN [password |-> arguments.password,
                                         balance  |-> arguments.number]
                                   ELSE before[i]]
    BY <2>2, <2>3, Zenon
  <2>5. Ledger' = After
    BY <1>2, <2>4, AfterIs
  <2>6. ValuesKept(o)' /\ CodesLeft(o)'
    BY <1>2, <2>1, NothingElseMoves DEF ValuesKept, CodesLeft, CreateSteps, BalanceSteps
  <2>7. LedgerSteps(o)' /\ ReplySteps(o)'
    BY <1>2, <2>1, <2>5, NothingElseMoves
       DEF LedgerSteps, ReplySteps, CreateSteps, BalanceSteps, TransferSteps
  <2>8. QED
    BY <2>6, <2>7 DEF Right
<1>5. CASE CreateUnlock(o)
  <2>1. /\ step[o] = "createUnlock" /\ step'[o] = "leave" /\ UNCHANGED bankAccounts
        /\ reply'[o].ret_code = "RC_OK" /\ reply'[o].account_id = Sender
    BY <1>2, <1>5 DEF CreateUnlock, Goes, BankTypeOK, Reply, Sender
  <2>2. Ledger' = Left
    BY <1>2, <2>1 DEF Right, LedgerSteps, Ledger, Left
  <2>3. ~BankOf!HasNumber(before, incoming)
    BY <1>2, NumberIs DEF Creating, Transferring
  <2>4. QED
    BY <1>2, <2>1, <2>2, <2>3, AnswerReady
<1>6. QED
  BY <1>3, <1>4, <1>5

\* The balance that is read is the one Bank has in its ledger.
LEMMA BalanceIsRight ==
  ASSUME TypeOK, BankTypeOK, NEW o \in Offices, Work(o), Right(o), Served,
         UNCHANGED <<request, incoming, before>>,
         checkBalance(o) \/ BalanceUnlock(o)
  PROVE  Right(o)'
<1>1. step[o] \in BalanceSteps /\ UNCHANGED bankAccounts
  BY DEF checkBalance, BalanceUnlock, Goes, BalanceSteps
<1>2. /\ Expected = "RC_OK" /\ reply[o].ret_code = "RC_OK" /\ reply[o].account_id = Sender
      /\ Ledger = before /\ Ledger' = before /\ request.type = "OP_BALANCE"
      /\ accountExists(Sender)
  BY <1>1 DEF Right, CodesLeft, ReplySteps, LedgerSteps, Work, TypeKept, AccountsThere, Ledger
<1>3. CASE checkBalance(o)
  <2>1. /\ step'[o] = "balanceUnlock"
        /\ reply'[o].ret_code = "RC_OK" /\ reply'[o].account_id = Sender
        /\ reply'[o].number = bankAccounts[Sender].balance
    BY <1>2, <1>3 DEF checkBalance, Goes, BankTypeOK, Reply, Sender
  <2>2. bankAccounts[Sender].balance = before[Sender].balance
    BY <1>2, LedgerHas DEF accountExists
  <2>3. ValuesKept(o)' /\ CodesLeft(o)'
    BY <1>2, <2>1, NothingElseMoves DEF ValuesKept, CodesLeft, CreateSteps, BalanceSteps
  <2>4. LedgerSteps(o)' /\ ReplySteps(o)'
    BY <1>2, <2>1, <2>2, NothingElseMoves
       DEF LedgerSteps, ReplySteps, CreateSteps, BalanceSteps, TransferSteps
  <2>5. QED
    BY <2>3, <2>4 DEF Right
<1>4. CASE BalanceUnlock(o)
  <2>1. step[o] = "balanceUnlock" /\ step'[o] = "leave" /\ UNCHANGED reply
    BY <1>4 DEF BalanceUnlock, Goes, BankTypeOK
  <2>2. reply[o].number = before[Sender].balance
    BY <2>1 DEF Right, ReplySteps
  <2>3. After = before /\ Left = before
    BY <1>2, AfterIs DEF Creating, Transferring, Left
  <2>4. BankOf!Number(before, incoming) = before[Sender].balance
    BY <1>2, <2>3, NumberIs
  <2>5. QED
    BY <1>2, <2>1, <2>2, <2>3, <2>4, AnswerReady
<1>5. QED
  BY <1>3, <1>4
\* What the office knows in the middle of a transfer.
LEMMA InTransfer ==
  ASSUME TypeOK, BankTypeOK, NEW o \in Offices, Work(o), Right(o), step[o] \in TransferSteps
  PROVE  /\ Transferring /\ request.type = "OP_TRANSFER" /\ arguments.number \in Nat
         /\ Sender \in DOMAIN bankAccounts /\ Target \in DOMAIN bankAccounts
         /\ Sender # Target /\ local[o].id = Sender
         /\ reply[o].ret_code = "RC_OK" /\ reply[o].account_id = Sender
         /\ reply[o].number = arguments.number
<1>1. request.type = "OP_TRANSFER"
  BY DEF Work, TypeKept
<1>2. /\ Sender \in DOMAIN bankAccounts /\ Target \in DOMAIN bankAccounts
      /\ Sender # Target /\ local[o].id = Sender
  BY DEF Work, AccountsThere, accountExists
<1>3. /\ reply[o].ret_code = "RC_OK" /\ reply[o].account_id = Sender
      /\ reply[o].number = arguments.number
  BY DEF Right, ReplySteps
<1>4. arguments.number \in Nat
  BY DEF TypeOK, tlv_request, req_value, req_arguments, arguments
<1>5. QED
  BY <1>1, <1>2, <1>3, <1>4 DEF Transferring

\* The lower limit is missed exactly when Bank says so.
LEMMA SubtractionIsRight ==
  ASSUME TypeOK, BankTypeOK, NEW o \in Offices, Work(o), Right(o), Served,
         UNCHANGED <<request, incoming, before>>, subtractBalance(o)
  PROVE  Right(o)'
<1> DEFINE new == bankAccounts[Sender].balance - arguments.number
<1>1. step[o] = "subtract" /\ UNCHANGED bankAccounts
  BY DEF subtractBalance, Goes
<1>2. /\ Transferring /\ arguments.number \in Nat /\ Sender \in DOMAIN bankAccounts
      /\ reply[o].ret_code = "RC_OK" /\ reply[o].account_id = Sender
      /\ reply[o].number = arguments.number
  BY <1>1, InTransfer DEF TransferSteps
<1>3. /\ Ledger = before /\ Ledger' = before
      /\ Expected \in {"RC_OK", "RC_NO_FUNDS", "RC_TOO_HIGH"}
  BY <1>1 DEF Right, LedgerSteps, CodesLeft, Ledger
<1>4. before[Sender].balance \in Int /\ new = before[Sender].balance - arguments.number
  BY <1>2, <1>3, LedgerHas
<1>5. TooLow(new) <=> before[Sender].balance < MIN_BALANCE + arguments.number
  BY <1>2, <1>4, LimitsAssumption DEF TooLow
<1>6. Expected = FirstError
  BY ExpectedIsFirst
<1>7. CASE TooLow(new)
  <2>1. step'[o] = "leave" /\ reply' = Code(o, "RC_NO_FUNDS")
    BY <1>7 DEF subtractBalance, Goes, BankTypeOK, Sender
  <2>2. reply'[o].ret_code = "RC_NO_FUNDS" /\ reply'[o].number = arguments.number
    BY <1>2, <2>1 DEF Code, BankTypeOK, Reply
  <2>3. Expected = "RC_NO_FUNDS"
    BY <1>2, <1>3, <1>5, <1>6, <1>7 DEF FirstError
  <2>4. QED
    BY <1>1, <1>3, <2>1, <2>2, <2>3, ErrorReady
<1>8. CASE ~TooLow(new)
  <2>1. /\ step'[o] = "subtractStore" /\ UNCHANGED reply
        /\ local'[o].value = before[Sender].balance - arguments.number
    BY <1>4, <1>8 DEF subtractBalance, Computed, Goes, BankTypeOK, Local, Sender
  <2>2. Expected \in {"RC_OK", "RC_TOO_HIGH"}
    BY <1>2, <1>3, <1>5, <1>6, <1>8 DEF FirstError
  <2>3. ValuesKept(o)' /\ CodesLeft(o)'
    BY <2>1, <2>2, NothingElseMoves DEF ValuesKept, CodesLeft, CreateSteps, BalanceSteps
  <2>4. LedgerSteps(o)' /\ ReplySteps(o)'
    BY <1>2, <1>3, <2>1, NothingElseMoves
       DEF LedgerSteps, ReplySteps, CreateSteps, BalanceSteps, TransferSteps
  <2>5. QED
    BY <2>3, <2>4 DEF Right
<1>9. QED
  BY <1>7, <1>8

\* So is the upper limit, although the sender's balance has changed by then.
LEMMA AdditionIsRight ==
  ASSUME TypeOK, BankTypeOK, NEW o \in Offices, Work(o), Right(o), Served,
         UNCHANGED <<request, incoming, before>>, addBalance(o)
  PROVE  Right(o)'
<1> DEFINE new == bankAccounts[Target].balance + arguments.number
<1>1. step[o] = "add" /\ UNCHANGED bankAccounts
  BY DEF addBalance, Goes
<1>2. /\ Transferring /\ arguments.number \in Nat
      /\ Target \in DOMAIN bankAccounts /\ Sender # Target
      /\ reply[o].ret_code = "RC_OK" /\ reply[o].account_id = Sender
      /\ reply[o].number = arguments.number
  BY <1>1, InTransfer DEF TransferSteps
<1>3. /\ Ledger = Subtracted /\ Ledger' = Subtracted
      /\ Expected \in {"RC_OK", "RC_TOO_HIGH"}
  BY <1>1 DEF Right, LedgerSteps, CodesLeft, Ledger
<1>4. before[Target].balance \in Int /\ new = before[Target].balance + arguments.number
  <2>1. Target \in DOMAIN before /\ Subtracted[Target] = before[Target]
    BY <1>2, <1>3, LedgerHas DEF Subtracted
  <2>2. Ledger[Target].balance = bankAccounts[Target].balance /\ bankAccounts[Target].balance \in Int
    BY <1>2, LedgerHas
  <2>3. QED
    BY <1>3, <2>1, <2>2
<1>5. TooHigh(new) <=> before[Target].balance + arguments.number > MAX_BALANCE
  BY <1>4 DEF TooHigh
<1>6. Expected = FirstError
  BY ExpectedIsFirst
<1>7. CASE TooHigh(new)
  <2>1. step'[o] = "leave" /\ reply' = Code(o, "RC_TOO_HIGH")
    BY <1>7 DEF addBalance, Goes, BankTypeOK, Target
  <2>2. reply'[o].ret_code = "RC_TOO_HIGH" /\ reply'[o].number = arguments.number
    BY <1>2, <2>1 DEF Code, BankTypeOK, Reply
  <2>3. Expected = "RC_TOO_HIGH"
    BY <1>2, <1>3, <1>5, <1>6, <1>7 DEF FirstError
  <2>4. BankOf!Number(before, incoming) = arguments.number
    BY <1>2, <2>3, NumberIs
  <2>5. Ledger' = Left
    BY <1>3, <2>3 DEF Left
  <2>6. QED
    BY <2>1, <2>2, <2>3, <2>4, <2>5, AnswerReady
<1>8. CASE ~TooHigh(new)
  <2>1. /\ step'[o] = "addStore" /\ UNCHANGED reply
        /\ local'[o].value = before[Target].balance + arguments.number
    BY <1>4, <1>8 DEF addBalance, Computed, Goes, BankTypeOK, Local, Target
  <2>2. Expected = "RC_OK"
    BY <1>2, <1>3, <1>5, <1>6, <1>8 DEF FirstError
  <2>3. ValuesKept(o)' /\ CodesLeft(o)'
    BY <2>1, <2>2, NothingElseMoves DEF ValuesKept, CodesLeft, CreateSteps, BalanceSteps
  <2>4. LedgerSteps(o)' /\ ReplySteps(o)'
    BY <1>2, <1>3, <2>1, NothingElseMoves
       DEF LedgerSteps, ReplySteps, CreateSteps, BalanceSteps, TransferSteps
  <2>5. QED
    BY <2>3, <2>4 DEF Right
<1>9. QED
  BY <1>7, <1>8

\* The two stores make the ledger what Bank says it is.
LEMMA StoresAreRight ==
  ASSUME TypeOK, BankTypeOK, SaltsMatch, NEW o \in Offices, Work(o), Right(o), Served,
         UNCHANGED <<request, incoming, before>>, SubtractStore(o) \/ AddStore(o)
  PROVE  Right(o)' /\ SaltsMatch'
<1>1. /\ \/ step[o] = "subtractStore" /\ step'[o] = "add"
         \/ step[o] = "addStore" /\ step'[o] = "unlockFirst"
      /\ UNCHANGED reply
      /\ bankAccounts' = [bankAccounts EXCEPT ![local[o].add_id].balance = local[o].value]
  BY DEF SubtractStore, AddStore, StoreBalance, Goes, BankTypeOK
<1>2. /\ Transferring /\ arguments.number \in Nat
      /\ Sender \in DOMAIN bankAccounts /\ Target \in DOMAIN bankAccounts /\ Sender # Target
      /\ reply[o].ret_code = "RC_OK" /\ reply[o].account_id = Sender
      /\ reply[o].number = arguments.number
  BY <1>1, InTransfer DEF TransferSteps
<1>3. local[o].add_id \in DOMAIN bankAccounts
  BY <1>1, <1>2 DEF Work, IdsKept
<1>4. Ledger' = [Ledger EXCEPT ![local[o].add_id].balance = local[o].value] /\ SaltsMatch'
  BY <1>1, <1>3, LedgerStores
<1>5. CASE step[o] = "subtractStore"
  <2>1. /\ Ledger = before /\ local[o].value = before[Sender].balance - arguments.number
        /\ Expected \in {"RC_OK", "RC_TOO_HIGH"} /\ local[o].add_id = Sender
    BY <1>5 DEF Right, LedgerSteps, ValuesKept, CodesLeft, Work, IdsKept
  <2>2. Ledger' = Subtracted
    BY <1>4, <2>1 DEF Subtracted
  <2>3. ValuesKept(o)' /\ CodesLeft(o)'
    BY <1>1, <1>5, <2>1, NothingElseMoves DEF ValuesKept, CodesLeft, CreateSteps, BalanceSteps
  <2>4. LedgerSteps(o)' /\ ReplySteps(o)'
    BY <1>1, <1>2, <1>5, <2>2, NothingElseMoves
       DEF LedgerSteps, ReplySteps, CreateSteps, BalanceSteps, TransferSteps
  <2>5. QED
    BY <1>4, <2>3, <2>4 DEF Right
<1>6. CASE step[o] = "addStore"
  <2>1. /\ Ledger = Subtracted /\ local[o].value = before[Target].balance + arguments.number
        /\ Expected = "RC_OK" /\ local[o].add_id = Target
    BY <1>6 DEF Right, LedgerSteps, ValuesKept, CodesLeft, Work, IdsKept
  <2>2. DOMAIN before = DOMAIN bankAccounts
    BY <2>1, LedgerHas DEF Subtracted
  <2>3. Ledger' = [Subtracted EXCEPT ![Target].balance = before[Target].balance + arguments.number]
    BY <1>4, <2>1
  <2>4. After = [before EXCEPT ![Sender].balance = @ - arguments.number,
                               ![Target].balance = @ + arguments.number]
    BY <1>2, <2>1, AfterIs
  <2>5. Ledger' = After
    BY <1>2, <2>2, <2>3, <2>4 DEF Subtracted
  <2>6. ValuesKept(o)' /\ CodesLeft(o)'
    BY <1>1, <1>6, <2>1, NothingElseMoves DEF ValuesKept, CodesLeft, CreateSteps, BalanceSteps
  <2>7. LedgerSteps(o)' /\ ReplySteps(o)'
    BY <1>1, <1>2, <1>6, <2>5, NothingElseMoves
       DEF LedgerSteps, ReplySteps, CreateSteps, BalanceSteps, TransferSteps
  <2>8. QED
    BY <1>4, <2>6, <2>7 DEF Right
<1>7. QED
  BY <1>1, <1>5, <1>6

\* The balance that is read after the unlocks is the one Bank answers with.
LEMMA FinalBalanceIsRight ==
  ASSUME TypeOK, BankTypeOK, NEW o \in Offices, Work(o), Right(o), Served,
         UNCHANGED <<request, incoming, before>>, FinalBalance(o)
  PROVE  Right(o)'
<1>1. step[o] = "finalBalance" /\ step'[o] = "leave" /\ UNCHANGED bankAccounts
  BY DEF FinalBalance, Goes, BankTypeOK
<1>2. /\ Sender \in DOMAIN bankAccounts /\ local[o].id = Sender
      /\ reply[o].ret_code = "RC_OK" /\ reply[o].account_id = Sender
  BY <1>1, InTransfer DEF TransferSteps
<1>3. Ledger = After /\ Ledger' = Left /\ Expected = "RC_OK"
  BY <1>1 DEF Right, LedgerSteps, CodesLeft, Ledger, Left
<1>4. /\ reply'[o].ret_code = "RC_OK" /\ reply'[o].account_id = Sender
      /\ reply'[o].number = bankAccounts[Sender].balance
  BY <1>2 DEF FinalBalance, BankTypeOK, Reply
<1>5. bankAccounts[Sender].balance = After[Sender].balance
  BY <1>2, <1>3, LedgerHas
<1>6. BankOf!Number(before, incoming) = After[Sender].balance
  BY <1>3, NumberIs
<1>7. QED
  BY <1>1, <1>3, <1>4, <1>5, <1>6, AnswerReady

LEMMA ShutDownIsRight ==
  ASSUME TypeOK, BankTypeOK, NEW o \in Offices, Work(o), Right(o), Served,
         UNCHANGED <<request, incoming, before>>, ShutDown(o)
  PROVE  Right(o)'
<1>1. step[o] = "shutdown" /\ step'[o] = "leave" /\ UNCHANGED bankAccounts
  BY DEF ShutDown, BankTypeOK
<1>2. /\ Expected = "RC_OK" /\ Ledger' = before /\ request.type = "OP_SHUTDOWN"
      /\ reply[o].ret_code = "RC_OK" /\ reply[o].account_id = Sender
  BY <1>1 DEF Right, CodesLeft, LedgerSteps, ReplySteps, Work, TypeKept, Ledger
<1>3. reply'[o].ret_code = "RC_OK" /\ reply'[o].account_id = Sender
  BY <1>2 DEF ShutDown, BankTypeOK, Reply
<1>4. Left = before /\ ~BankOf!HasNumber(before, incoming)
  BY <1>2, AfterIs, NumberIs DEF Creating, Transferring, Left
<1>5. QED
  BY <1>1, <1>2, <1>3, <1>4, AnswerReady
-----------------------------------------------------------------------------
(* The invariant.                                                          *)

\* The office serves what main read last.
LEMMA ServesMessage ==
  ASSUME BankTypeOK, OneRequest, NEW o \in Offices, Process(o)
  PROVE  Served
<1>1. waiting # {} /\ main # "value"
  BY ProcessAlone DEF InMain
<1>2. QED
  BY <1>1 DEF OneRequest, StructIsMessage, Served

\* The history variable remembers the ledger from the begin of processRequest
\* to the reply.
LEMMA BeforeKept ==
  ASSUME BankTypeOK, OneRequest, NEW o \in Offices, Process(o), SerialNext
  PROVE  /\ step[o] = "begin" /\ step'[o] = "login" => before' = Ledger
         /\ step[o] # "begin" /\ step'[o] \notin {"idle", "begin"} => before' = before
<1>1. \A p \in Offices : p # o => step[p] = "idle"
  BY ProcessAlone
<1>2. QED
  BY <1>1 DEF SerialNext

\* An office outside processRequest has nothing to be right about.
LEMMA IdleIsRight ==
  ASSUME NEW p \in Offices, step'[p] \in {"idle", "begin"}
  PROVE  Right(p)'
<1>1. ValuesKept(p)' /\ CodesLeft(p)'
  BY DEF ValuesKept, CodesLeft, CreateSteps, BalanceSteps
<1>2. LedgerSteps(p)' /\ ReplySteps(p)'
  BY DEF LedgerSteps, ReplySteps, CreateSteps, BalanceSteps, TransferSteps
<1>3. QED
  BY <1>1, <1>2 DEF Right

\* What it is right about is in the accounts, the request and its own structs.
LEMMA RightUndisturbed ==
  ASSUME NEW p \in Offices, Right(p),
         UNCHANGED <<request, incoming, before>>,
         UNCHANGED <<bankAccounts, local, reply>>, step'[p] = step[p]
  PROVE  Right(p)'
<1>1. /\ header' = header /\ arguments' = arguments
      /\ Sender' = Sender /\ Target' = Target
      /\ Expected' = Expected /\ After' = After /\ Subtracted' = Subtracted /\ Left' = Left
      /\ BankOf!HasNumber(before, incoming)' = BankOf!HasNumber(before, incoming)
      /\ BankOf!Number(before, incoming)' = BankOf!Number(before, incoming)
  BY NothingElseMoves
<1>2. Ledger' = Ledger
  BY DEF Ledger
<1>3. ValuesKept(p)' /\ CodesLeft(p)'
  BY <1>1 DEF Right, ValuesKept, CodesLeft
<1>4. LedgerSteps(p)' /\ ReplySteps(p)'
  BY <1>1, <1>2 DEF Right, LedgerSteps, ReplySteps
<1>5. QED
  BY <1>3, <1>4 DEF Right

\* The step of an office at work keeps its own part of the invariant.
LEMMA ProcessIsRight ==
  ASSUME TypeOK, BankTypeOK, SaltsMatch, OneRequest, SerialNext,
         NEW o \in Offices, Work(o), Right(o), Process(o)
  PROVE  Right(o)'
<1>1. Served /\ UNCHANGED <<request, incoming>>
  BY ServesMessage, ProcessAlone
<1>2. CASE BeginProcess(o)
  <2>1. step[o] = "begin" /\ step'[o] = "login" /\ UNCHANGED bankAccounts
    BY <1>2 DEF BeginProcess, Goes, BankTypeOK
  <2>2. Ledger' = before'
    BY <2>1, BeforeKept DEF Ledger
  <2>3. ValuesKept(o)' /\ CodesLeft(o)'
    BY <2>1 DEF ValuesKept, CodesLeft, CreateSteps, BalanceSteps
  <2>4. LedgerSteps(o)' /\ ReplySteps(o)'
    BY <2>1, <2>2 DEF LedgerSteps, ReplySteps, CreateSteps, BalanceSteps, TransferSteps
  <2>5. QED
    BY <2>3, <2>4 DEF Right
<1>3. CASE sendReply(o)
  <2>1. step'[o] = "idle"
    BY <1>3, ProcessMoves
  <2>2. QED
    BY <2>1, IdleIsRight
<1>4. ASSUME ~BeginProcess(o), ~sendReply(o)
      PROVE  UNCHANGED <<request, incoming, before>>
  <2>1. step'[o] # "idle" /\ step[o] # "begin" /\ step'[o] # "begin"
    BY <1>4, ProcessMoves
  <2>2. QED
    BY <1>1, <2>1, BeforeKept
<1>5. CASE UNCHANGED <<request, incoming, before>>
  <2>1. CASE LoginRead(o) \/ LoginFails(o)
    BY <1>1, <1>5, <2>1, LoginReadIsRight, LoginFailsIsRight
  <2>2. CASE OPCreateAccount(o) \/ OPBalance(o)
    BY <1>1, <1>5, <2>2, OPCreateAccountIsRight, OPBalanceIsRight
  <2>3. CASE OPTransfer(o) \/ BeginShutDown(o)
    BY <1>1, <1>5, <2>3, OPTransferIsRight, BeginShutDownIsRight
  <2>4. CASE \/ TransferIds(o) \/ LockFirst(o) \/ LockSecond(o) \/ UnlockFirst(o) \/ UnlockSecond(o)
             \/ BalanceLock(o) \/ CreateLock(o) \/ Leave(o)
    BY <1>1, <1>5, <2>4, LocksAreRight
  <2>5. CASE CreateCopy(o) \/ Create(o) \/ CreateUnlock(o)
    BY <1>1, <1>5, <2>5, CreationIsRight
  <2>6. CASE checkBalance(o) \/ BalanceUnlock(o)
    BY <1>1, <1>5, <2>6, BalanceIsRight
  <2>7. CASE subtractBalance(o) \/ addBalance(o)
    BY <1>1, <1>5, <2>7, SubtractionIsRight, AdditionIsRight
  <2>8. CASE SubtractStore(o) \/ AddStore(o)
    BY <1>1, <1>5, <2>8, StoresAreRight
  <2>9. CASE FinalBalance(o) \/ ShutDown(o)
    BY <1>1, <1>5, <2>9, FinalBalanceIsRight, ShutDownIsRight
  <2>10. CASE BeginProcess(o) \/ sendReply(o)
    BY <1>2, <1>3, <2>10
  <2>11. QED
    BY <2>1, <2>2, <2>3, <2>4, <2>5, <2>6, <2>7, <2>8, <2>9, <2>10, AccountsFound DEF Process
<1>6. QED
  BY <1>2, <1>3, <1>4, <1>5

\* Only a creation writes a hash, and keeps the salt with it.
LEMMA ProcessKeepsSalts ==
  ASSUME TypeOK, BankTypeOK, SaltsMatch, OneRequest, SerialNext,
         NEW o \in Offices, Work(o), Right(o), Process(o)
  PROVE  SaltsMatch'
<1>1. CASE Create(o)
  BY <1>1, LedgerCreates
<1>2. CASE SubtractStore(o) \/ AddStore(o)
  <2>1. /\ step[o] \in {"subtractStore", "addStore"}
        /\ bankAccounts' = [bankAccounts EXCEPT ![local[o].add_id].balance = local[o].value]
    BY <1>2 DEF SubtractStore, AddStore, StoreBalance, Goes
  <2>2. local[o].add_id \in DOMAIN bankAccounts
    BY <2>1 DEF Work, IdsKept, AccountsThere, TransferSteps, accountExists
  <2>3. QED
    BY <2>1, <2>2, LedgerStores
<1>3. CASE UNCHANGED bankAccounts
  BY <1>3 DEF SaltsMatch
<1>4. CASE BeginProcess(o) \/ LoginRead(o) \/ LoginFails(o) \/ Leave(o) \/ OPCreateAccount(o)
  BY <1>3, <1>4 DEF BeginProcess, LoginRead, LoginFails, Leave, OPCreateAccount
<1>5. CASE OPBalance(o) \/ OPTransfer(o) \/ BeginShutDown(o) \/ ShutDown(o) \/ sendReply(o)
  BY <1>3, <1>5 DEF OPBalance, OPTransfer, BeginShutDown, ShutDown, sendReply
<1>6. CASE CreateCopy(o) \/ CreateLock(o) \/ CreateUnlock(o) \/ SegFault(o)
  BY <1>3, <1>6 DEF CreateCopy, CreateLock, CreateUnlock, SegFault
<1>7. CASE BalanceLock(o) \/ checkBalance(o) \/ BalanceUnlock(o) \/ TransferIds(o)
  BY <1>3, <1>7 DEF BalanceLock, checkBalance, BalanceUnlock, TransferIds
<1>8. CASE LockFirst(o) \/ LockSecond(o) \/ subtractBalance(o) \/ addBalance(o)
  BY <1>3, <1>8 DEF LockFirst, LockSecond, subtractBalance, addBalance
<1>9. CASE UnlockFirst(o) \/ UnlockSecond(o) \/ FinalBalance(o)
  BY <1>3, <1>9 DEF UnlockFirst, UnlockSecond, FinalBalance
<1>10. QED
  BY <1>1, <1>2, <1>4, <1>5, <1>6, <1>7, <1>8, <1>9 DEF Process

\* While an office is at work, what main and the users do is not about its
\* request, and what the other offices do is to wait for theirs.
LEMMA OthersAreNoMatter ==
  ASSUME BankTypeOK, OneRequest, SerialNext, NEW p \in Offices, Right(p),
         \/ MainThread \/ UserOpens \/ EndOfFile \/ \E m \in Messages : Arrives(m)
         \/ \E o \in Offices : OfficeLoop(o) \/ TakeRequest(o)
         \/ UNCHANGED serverVars
  PROVE  Right(p)'
<1>1. UNCHANGED <<bankAccounts, local, reply>>
  BY DEF MainThread, UserOpens, EndOfFile, Arrives, OfficeLoop, TakeRequest, OnlyQueue,
         bankVars, serverVars
<1>2. \A q \in Offices : step'[q] = step[q] \/ step'[q] = "begin"
  BY DEF MainThread, UserOpens, EndOfFile, Arrives, OfficeLoop, TakeRequest, OnlyQueue,
         bankVars, serverVars, BankTypeOK
<1>3. CASE step'[p] \in {"idle", "begin"}
  BY <1>3, IdleIsRight
<1>4. CASE step'[p] \notin {"idle", "begin"}
  <2>1. step'[p] = step[p] /\ step[p] # "idle"
    BY <1>2, <1>4
  <2>2. UNCHANGED before
    BY <1>2, <1>4 DEF SerialNext
  <2>3. UNCHANGED <<request, incoming>>
    <3>1. CASE \/ MainThread \/ UserOpens \/ EndOfFile \/ \E m \in Messages : Arrives(m)
      BY <2>1, <3>1, OneUserAtATime, RequestUndisturbed
    <3>2. CASE \E o \in Offices : OfficeLoop(o) \/ TakeRequest(o)
      BY <3>2 DEF OfficeLoop, TakeRequest, WaitNotEmpty, CheckDown, ReadRequest, PostNotFull,
                  mainVars
    <3>3. CASE UNCHANGED serverVars
      BY <3>3 DEF serverVars, vars, mainVars
    <3>4. QED
      BY <3>1, <3>2, <3>3
  <2>4. QED
    BY <1>1, <2>1, <2>2, <2>3, RightUndisturbed
<1>5. QED
  BY <1>3, <1>4

LEMMA SerialInvInit == SerialInit => SerialInv
<1> SUFFICES ASSUME SerialInit PROVE SerialInv
  OBVIOUS
<1>1. BankInit
  BY DEF SerialInit
<1>2. PICK salt \in Salts : createAdminAccount(salt)
  BY <1>1 DEF BankInit
<1>3. SaltsMatch
  BY <1>2 DEF createAdminAccount, SaltsMatch, Hash
<1>4. \A o \in Offices : step[o] = "idle"
  BY <1>1 DEF BankInit
<1>5. \A o \in Offices : Right(o)
  BY <1>4 DEF Right, ValuesKept, CodesLeft, LedgerSteps, ReplySteps,
              CreateSteps, BalanceSteps, TransferSteps
<1>6. QED
  BY <1>3, <1>5 DEF SerialInv

\* The invariant is inductive, given the types and that of users in turn.
LEMMA SerialStep ==
  ASSUME TypeOK, BankTypeOK, OneUserInv, SerialInv, [SerialNext]_serialVars
  PROVE  SerialInv'
<1>1. /\ OneRequest /\ \A p \in Offices : Work(p)
      /\ SaltsMatch /\ \A p \in Offices : Right(p)
  BY DEF OneUserInv, SerialInv
<1>2. ASSUME SerialNext,
             \/ MainThread \/ UserOpens \/ EndOfFile \/ \E m \in Messages : Arrives(m)
             \/ \E o \in Offices : OfficeLoop(o) \/ TakeRequest(o)
             \/ UNCHANGED serverVars
      PROVE  SerialInv'
  <2>1. UNCHANGED bankAccounts
    BY <1>2 DEF MainThread, UserOpens, EndOfFile, Arrives, OfficeLoop, TakeRequest, OnlyQueue,
                bankVars, serverVars
  <2>2. SaltsMatch'
    BY <1>1, <2>1 DEF SaltsMatch
  <2>3. \A p \in Offices : Right(p)'
    BY <1>1, <1>2, OthersAreNoMatter
  <2>4. QED
    BY <2>2, <2>3 DEF SerialInv
<1>3. ASSUME SerialNext, NEW o \in Offices, Process(o) PROVE SerialInv'
  <2>1. SaltsMatch'
    BY <1>1, <1>3, ProcessKeepsSalts
  <2>2. Right(o)'
    BY <1>1, <1>3, ProcessIsRight
  <2>3. \A p \in Offices : p # o => step'[p] = "idle"
    BY <1>1, <1>3, ProcessAlone
  <2>4. \A p \in Offices : Right(p)'
    BY <2>2, <2>3, IdleIsRight
  <2>5. QED
    BY <2>1, <2>4 DEF SerialInv
<1>4. CASE UNCHANGED serialVars
  <2>1. UNCHANGED serverVars /\ UNCHANGED before
    BY <1>4 DEF serialVars
  <2>2. UNCHANGED <<request, incoming, bankAccounts, local, reply, step>>
    BY <2>1 DEF serverVars, vars, mainVars, bankVars
  <2>3. SaltsMatch' /\ \A p \in Offices : Right(p)'
    BY <1>1, <2>1, <2>2, RightUndisturbed DEF SaltsMatch
  <2>4. QED
    BY <2>3 DEF SerialInv
<1>5. CASE SerialNext
  <2>1. BankNext
    BY <1>5 DEF SerialNext
  <2>2. CASE ServerStopped
    BY <1>2, <1>5, <2>2 DEF ServerStopped
  <2>3. QED
    BY <1>2, <1>3, <1>5, <2>1, <2>2 DEF BankNext, OfficeThread
<1>6. QED
  BY <1>4, <1>5

-----------------------------------------------------------------------------
(* The theorems.                                                           *)

\* The history variable only watches.
LEMMA SerialIsBank == SerialSpec => BankSpec
<1>1. SerialInit => BankInit
  BY DEF SerialInit
<1>2. [SerialNext]_serialVars => [BankNext]_serverVars
  BY DEF SerialNext, serialVars
<1>3. QED
  BY <1>1, <1>2, PTL DEF SerialSpec, BankSpec

\* From the login to the reply, each place of processRequest agrees with what
\* Bank says of the message and of the ledger that the office began with.
THEOREM SerialInvariant == SerialSpec => [](OneUserInv /\ SerialInv)
<1>1. SerialSpec => [](QueueInv /\ BankTypeOK /\ OneUserInv)
  <2>1. BankSpec => []OneUserInv
    BY OneUserAtATime, OneUserInvariant
  <2>2. QED
    BY <2>1, SerialIsBank, BankKeepsQueueInv, BankTypeCorrect, PTL
<1>2. SerialInv /\ (QueueInv /\ BankTypeOK /\ OneUserInv) /\ [SerialNext]_serialVars => SerialInv'
  BY SerialStep DEF QueueInv
<1>3. QED
  BY <1>1, <1>2, SerialInvInit, PTL DEF SerialSpec

\* An office that is about to send serves a user who waits.
LEMMA SendsToWaiting ==
  ASSUME OneUserInv, NEW o \in Offices, step[o] = "send"
  PROVE  /\ Served
         /\ waiting = {incoming.value.header.pid} /\ header.pid \in waiting
         /\ reply[o].type = incoming.type
<1>1. OneRequest /\ Work(o)
  BY DEF OneUserInv
<1>2. Carrying(o) /\ Serving
  BY <1>1 DEF OneRequest, NothingLeft, Carrying
<1>3. waiting # {} /\ main # "value"
  BY <1>1, <1>2 DEF OneRequest, OnePlace, InMain
<1>4. Served /\ waiting = {incoming.value.header.pid}
  BY <1>1, <1>3 DEF OneRequest, StructIsMessage, Served
<1>5. reply[o].type = request.type
  BY <1>1 DEF Work, TypeKept
<1>6. QED
  BY <1>4, <1>5 DEF Served

\* Every answer is the one Bank gives: the operation, the first error in the
\* order of types.h, the account and the number, to the user who asked; for any
\* number of offices, any messages, passwords and limits, with users in turn.
THEOREM AnswersAreRight == SerialSpec => []AnswerIsRight
<1>1. OneUserInv /\ SerialInv => AnswerIsRight
  <2> SUFFICES ASSUME OneUserInv, SerialInv, NEW o \in Offices, step[o] = "send"
               PROVE  /\ reply[o].type = incoming.type
                      /\ reply[o].ret_code = Expected
                      /\ Expected = "RC_OK" =>
                           reply[o].account_id = incoming.value.header.account_id
                      /\ BankOf!HasNumber(before, incoming) =>
                           reply[o].number = BankOf!Number(before, incoming)
                      /\ waiting = {incoming.value.header.pid}
                      /\ header.pid \in waiting
    BY DEF AnswerIsRight
  <2>1. /\ Served
        /\ waiting = {incoming.value.header.pid} /\ header.pid \in waiting
        /\ reply[o].type = incoming.type
    BY SendsToWaiting
  <2>2. /\ reply[o].ret_code = Expected
        /\ Expected = "RC_OK" => reply[o].account_id = Sender
        /\ BankOf!HasNumber(before, incoming) =>
             reply[o].number = BankOf!Number(before, incoming)
    BY DEF SerialInv, Right, CodesLeft, ReplySteps
  <2>3. Sender = incoming.value.header.account_id
    BY <2>1, MessageSays
  <2>4. QED
    BY <2>1, <2>2, <2>3
<1>2. QED
  BY <1>1, SerialInvariant, PTL

\* The accounts are then those of Bank: the operations do what they promise and
\* failed ones change nothing, but for the transfer that would raise the other
\* account above the limit.
THEOREM LedgersAreRight == SerialSpec => []LedgerIsRight
<1>1. SerialInv => LedgerIsRight
  BY DEF SerialInv, Right, LedgerSteps, LedgerIsRight, Left, After
<1>2. QED
  BY <1>1, SerialInvariant, PTL
-----------------------------------------------------------------------------
(* The refinement: each step of the server is a step of AtomicBank, or one *)
(* that AtomicBank does not see.                                           *)

NotBegun == {"idle", "begin"}
Finished == {"leave", "send"}

\* What AtomicBank sees when one office at most is at work.
LEMMA SeenOfOffice ==
  ASSUME NEW o \in Offices
  PROVE  /\ (\A p \in Offices : p # o => step[p] = "idle") =>
              /\ Accounts = IF step[o] \in NotBegun \union Finished THEN Ledger ELSE before
              /\ Answer = IF step[o] \in Finished THEN {[to |-> header.pid, reply |-> reply[o]]}
                                                 ELSE {}
         /\ (\A p \in Offices : p # o => step'[p] = "idle") =>
              /\ Accounts' = IF step'[o] \in NotBegun \union Finished THEN Ledger' ELSE before'
              /\ Answer' = IF step'[o] \in Finished
                           THEN {[to |-> header'.pid, reply |-> reply'[o]]} ELSE {}
<1>1. ASSUME \A p \in Offices : p # o => step[p] = "idle"
      PROVE  /\ Accounts = IF step[o] \in NotBegun \union Finished THEN Ledger ELSE before
             /\ Answer = IF step[o] \in Finished THEN {[to |-> header.pid, reply |-> reply[o]]}
                                                ELSE {}
  BY <1>1 DEF Accounts, Answer, NotBegun, Finished
<1>2. ASSUME \A p \in Offices : p # o => step'[p] = "idle"
      PROVE  /\ Accounts' = IF step'[o] \in NotBegun \union Finished THEN Ledger' ELSE before'
             /\ Answer' = IF step'[o] \in Finished
                          THEN {[to |-> header'.pid, reply |-> reply'[o]]} ELSE {}
  BY <1>2 DEF Accounts, Answer, NotBegun, Finished
<1>3. QED
  BY <1>1, <1>2

\* What main, the users and the queue do is not seen, except that a user comes.
LEMMA OthersAreNotSeen ==
  ASSUME BankTypeOK, OneRequest, SerialNext,
         \/ MainThread \/ UserOpens \/ EndOfFile
         \/ \E o \in Offices : OfficeLoop(o) \/ TakeRequest(o)
         \/ UNCHANGED serverVars
  PROVE  UNCHANGED <<Accounts, Asked, Answer>>
<1>1. UNCHANGED <<bankAccounts, reply, waiting, incoming>>
  BY DEF MainThread, MainStep, UserOpens, OpenFifo, EndOfFile, ReadEOF, LoopTest, ReadValue,
         WaitNotFull, WriteRequest, PostNotEmpty, DrainTest, DrainWait, DrainPost, WakeOffice,
         JoinOffices, OfficeLoop, TakeRequest, WaitNotEmpty, CheckDown, ReadRequest, PostNotFull,
         OnlyQueue, mainVars, bankVars, serverVars, vars
<1>2. \A q \in Offices : step'[q] # step[q] => step[q] \in NotBegun /\ step'[q] \in NotBegun
  <2>1. CASE \/ MainThread \/ UserOpens \/ EndOfFile \/ UNCHANGED serverVars
             \/ \E o \in Offices : OfficeLoop(o)
    BY <2>1 DEF MainThread, UserOpens, EndOfFile, OfficeLoop, OnlyQueue, bankVars, serverVars
  <2>2. ASSUME NEW o \in Offices, TakeRequest(o)
        PROVE  \A q \in Offices : step'[q] # step[q] => step[q] \in NotBegun /\ step'[q] \in NotBegun
    <3>1. office[o] # "process" /\ step' = [step EXCEPT ![o] = "begin"]
      BY <2>2 DEF TakeRequest, PostNotFull, OfficeGoes
    <3>2. step[o] = "idle"
      BY <3>1 DEF OneRequest
    <3>3. QED
      BY <3>1, <3>2 DEF BankTypeOK, NotBegun
  <2>3. QED
    BY <2>1, <2>2
<1>3. Asked' = Asked
  BY <1>1 DEF Asked
<1>4. Accounts' = Accounts
  <2>1. Ledger' = Ledger
    BY <1>1 DEF Ledger
  <2>2. CASE \E q \in Offices : step[q] \notin NotBegun \union Finished
    <3>1. \E q \in Offices : step'[q] = step[q] /\ step'[q] \notin NotBegun \union Finished
      BY <1>2, <2>2 DEF NotBegun
    <3>2. before' = before
      BY <1>2, <3>1 DEF SerialNext, NotBegun
    <3>3. QED
      BY <2>2, <3>1, <3>2 DEF Accounts, NotBegun, Finished
  <2>3. CASE \A q \in Offices : step[q] \in NotBegun \union Finished
    <3>1. \A q \in Offices : step'[q] \in NotBegun \union Finished
      BY <1>2, <2>3
    <3>2. QED
      BY <2>1, <2>3, <3>1 DEF Accounts, NotBegun, Finished
  <2>4. QED
    BY <2>2, <2>3
<1>5. Answer' = Answer
  <2>1. \A q \in Offices : step'[q] \in Finished <=> step[q] \in Finished
    BY <1>2 DEF NotBegun, Finished
  <2>2. CASE \E q \in Offices : step[q] \in Finished
    <3>1. PICK q \in Offices : step[q] # "idle"
      BY <2>2 DEF Finished
    <3>2. UNCHANGED request
      <4>1. CASE MainThread \/ UserOpens \/ EndOfFile
        BY <3>1, <4>1, OneUserAtATime, RequestUndisturbed
      <4>2. CASE \E o \in Offices : OfficeLoop(o) \/ TakeRequest(o)
        BY <4>2 DEF OfficeLoop, TakeRequest, WaitNotEmpty, CheckDown, ReadRequest, PostNotFull,
                    mainVars
      <4>3. CASE UNCHANGED serverVars
        BY <4>3 DEF serverVars, vars, mainVars
      <4>4. QED
        BY <4>1, <4>2, <4>3
    <3>3. header' = header
      BY <3>2 DEF header
    <3>4. QED
      BY <1>1, <2>1, <3>3 DEF Answer, Finished
  <2>3. CASE \A q \in Offices : step[q] \notin Finished
    BY <2>1, <2>3 DEF Answer, Finished
  <2>4. QED
    BY <2>2, <2>3
<1>6. QED
  BY <1>3, <1>4, <1>5
\* A user who comes is seen to ask.
LEMMA ArrivalIsSeen ==
  ASSUME BankTypeOK, OneRequest, SerialNext, NEW m \in Messages, Arrives(m)
  PROVE  BankOf!Ask(m)
<1>1. waiting = {} /\ main = "type"
  BY OneUserAtATime, ArrivesAlone
<1>2. \A o \in Offices : step[o] = "idle"
  BY <1>1, NobodyWaits DEF OneRequest, Serving, Carrying
<1>3. UNCHANGED <<bankAccounts, step>> /\ incoming' = m /\ waiting' = {m.value.header.pid}
  BY <1>1 DEF Arrives, ReadType
<1>4. Asked = {} /\ Asked' = {m}
  BY <1>1, <1>3 DEF Asked
<1>5. Accounts' = Accounts
  BY <1>2, <1>3 DEF Accounts, Ledger
<1>6. Answer' = Answer
  BY <1>2, <1>3 DEF Answer
<1>7. QED
  BY <1>4, <1>5, <1>6 DEF BankOf!Ask

\* What an office still does for a request that it has served.
LEMMA FinishedSteps ==
  ASSUME BankTypeOK, NEW o \in Offices, Process(o), step[o] \in Finished
  PROVE  \/ Leave(o) /\ step[o] = "leave" /\ step'[o] = "send"
         \/ sendReply(o) /\ step[o] = "send"
<1>1. Leave(o) => step[o] = "leave" /\ step'[o] = "send"
  BY DEF Leave, Goes, BankTypeOK
<1>2. sendReply(o) => step[o] = "send"
  BY DEF sendReply
<1>3. ~ (BeginProcess(o) \/ LoginRead(o) \/ LoginFails(o) \/ OPCreateAccount(o))
  BY DEF BeginProcess, LoginRead, LoginFails, OPCreateAccount, Dispatch, Goes, Finished
<1>4. ~ (OPBalance(o) \/ OPTransfer(o) \/ BeginShutDown(o) \/ ShutDown(o))
  BY DEF OPBalance, OPTransfer, BeginShutDown, ShutDown, Dispatch, Goes, Finished
<1>5. ~ (CreateCopy(o) \/ CreateLock(o) \/ Create(o) \/ CreateUnlock(o))
  BY DEF CreateCopy, CreateLock, Create, CreateUnlock, Goes, Finished
<1>6. ~ (BalanceLock(o) \/ checkBalance(o) \/ BalanceUnlock(o) \/ TransferIds(o))
  BY DEF BalanceLock, checkBalance, BalanceUnlock, TransferIds, Goes, Finished
<1>7. ~ (LockFirst(o) \/ LockSecond(o) \/ subtractBalance(o) \/ addBalance(o))
  BY DEF LockFirst, LockSecond, subtractBalance, addBalance, Goes, Finished
<1>8. ~ (SubtractStore(o) \/ AddStore(o) \/ UnlockFirst(o) \/ UnlockSecond(o) \/ FinalBalance(o))
  BY DEF SubtractStore, AddStore, StoreBalance, UnlockFirst, UnlockSecond, FinalBalance, Goes, Finished
<1>9. ~SegFault(o)
  BY DEF SegFault, AccountRead, Goes, Finished
<1>10. QED
  BY <1>1, <1>2, <1>3, <1>4, <1>5, <1>6, <1>7, <1>8, <1>9 DEF Process

\* The ledger that a request leaves is the one AtomicBank says.
LEMMA LeftIs ==
  ASSUME Served
  PROVE  BankOf!LedgerLeft(before, incoming) = Left
<1>1. CASE Expected = "RC_TOO_HIGH"
  <2>1. Transferring
    BY <1>1, ExpectedIsFirst DEF FirstError
  <2>2. /\ incoming.value.header.account_id = Sender
        /\ incoming.value.arguments.number = arguments.number
    BY <2>1, MessageSays
  <2>3. QED
    BY <1>1, <2>2 DEF BankOf!LedgerLeft, Left, Subtracted, Expected
<1>2. CASE Expected # "RC_TOO_HIGH"
  BY <1>2 DEF BankOf!LedgerLeft, Left, After, Expected
<1>3. QED
  BY <1>1, <1>2

\* The step of an office is a step of AtomicBank: Serve when the answer is
\* settled, Send when it is sent, and nothing to be seen before and between.
LEMMA ProcessIsSeen ==
  ASSUME TypeOK, BankTypeOK, OneRequest, SerialNext, NEW o \in Offices, Process(o),
         Work(o)', Right(o)'
  PROVE  BankOf!AtomicNext \/ UNCHANGED <<Accounts, Asked, Answer>>
<1>1. /\ waiting = {header.pid} /\ header = incoming.value.header
      /\ UNCHANGED <<request, incoming>> /\ header' = header
      /\ \A p \in Offices : p # o => step[p] = "idle" /\ step'[p] = "idle"
      /\ Served
  BY ProcessAlone, ServesMessage
<1>2. /\ Accounts = IF step[o] \in NotBegun \union Finished THEN Ledger ELSE before
      /\ Answer = IF step[o] \in Finished THEN {[to |-> header.pid, reply |-> reply[o]]} ELSE {}
      /\ Accounts' = IF step'[o] \in NotBegun \union Finished THEN Ledger' ELSE before'
      /\ Answer' = IF step'[o] \in Finished
                   THEN {[to |-> header'.pid, reply |-> reply'[o]]} ELSE {}
  BY <1>1, SeenOfOffice
<1>3. Asked = {incoming} /\ (~sendReply(o) => Asked' = Asked)
  BY <1>1, ProcessMoves DEF Asked
<1>4. CASE BeginProcess(o)
  <2>1. step[o] = "begin" /\ step'[o] = "login" /\ UNCHANGED bankAccounts
    BY <1>4 DEF BeginProcess, Goes, BankTypeOK
  <2>2. before' = Ledger
    BY <2>1, BeforeKept
  <2>3. ~sendReply(o)
    BY <2>1, ProcessMoves
  <2>4. QED
    BY <1>2, <1>3, <2>1, <2>2, <2>3 DEF NotBegun, Finished
<1>5. CASE sendReply(o)
  <2>1. step[o] = "send" /\ step'[o] = "idle" /\ UNCHANGED bankAccounts /\ waiting' = {}
    BY <1>1, <1>5 DEF sendReply, BankTypeOK
  <2>2. Answer # {} /\ Answer' = {}
    BY <1>2, <2>1 DEF Finished
  <2>3. Asked' = {}
    BY <2>1 DEF Asked
  <2>4. Accounts' = Accounts
    BY <1>2, <2>1 DEF NotBegun, Finished, Ledger
  <2>5. QED
    BY <2>2, <2>3, <2>4 DEF BankOf!AtomicNext, BankOf!Send
<1>6. CASE Leave(o) /\ step[o] = "leave"
  <2>1. step'[o] = "send" /\ UNCHANGED <<bankAccounts, reply>> /\ ~sendReply(o)
    BY <1>6 DEF Leave, Goes, sendReply, BankTypeOK
  <2>2. Ledger' = Ledger
    BY <2>1 DEF Ledger
  <2>3. QED
    BY <1>1, <1>2, <1>3, <1>6, <2>1, <2>2 DEF Finished
<1>7. ASSUME step[o] \notin NotBegun \union Finished
      PROVE  BankOf!AtomicNext \/ UNCHANGED <<Accounts, Asked, Answer>>
  <2>1. ~sendReply(o) /\ step'[o] \notin NotBegun
    BY <1>7, ProcessMoves DEF NotBegun, Finished, sendReply
  <2>2. before' = before
    BY <1>7, <2>1, BeforeKept DEF NotBegun
  <2>3. CASE step'[o] \notin Finished
    BY <1>2, <1>3, <1>7, <2>1, <2>2, <2>3
  <2>4. CASE step'[o] \in Finished
    <3>1. /\ Accounts = before /\ Accounts' = Ledger'
          /\ Answer = {} /\ Answer' = {[to |-> header.pid, reply |-> reply'[o]]}
      BY <1>1, <1>2, <1>7, <2>4
    <3>2. /\ Expected' = Expected /\ Left' = Left /\ Sender' = Sender
          /\ BankOf!HasNumber(before, incoming)' = BankOf!HasNumber(before, incoming)
          /\ BankOf!Number(before, incoming)' = BankOf!Number(before, incoming)
      BY <1>1, <2>2, NothingElseMoves
    <3>3. Ledger' = BankOf!LedgerLeft(before, incoming)
      BY <1>1, <2>4, <3>2, LeftIs DEF Right, LedgerSteps, Finished
    <3>4. reply'[o].type = incoming.type
      <4>1. reply'[o].type = request'.type
        BY <2>4 DEF Work, TypeKept, Finished
      <4>2. QED
        BY <1>1, <4>1 DEF Served
    <3>5. /\ reply'[o].ret_code = Expected
          /\ Expected = "RC_OK" => reply'[o].account_id = Sender
          /\ BankOf!HasNumber(before, incoming) =>
               reply'[o].number = BankOf!Number(before, incoming)
      BY <2>4, <3>2 DEF Right, CodesLeft, ReplySteps, Finished
    <3>6. Sender = incoming.value.header.account_id
      BY <1>1 DEF Sender
    <3>7. BankOf!RightAnswer(before, incoming, [to |-> header.pid, reply |-> reply'[o]])
      BY <1>1, <3>4, <3>5, <3>6 DEF BankOf!RightAnswer, Expected
    <3>8. BankOf!Serve(incoming)
      BY <1>3, <2>1, <3>1, <3>3, <3>7 DEF BankOf!Serve
    <3>9. QED
      BY <1>3, <3>8 DEF BankOf!AtomicNext
  <2>5. QED
    BY <2>3, <2>4
<1>8. CASE step[o] \in Finished
  BY <1>5, <1>6, <1>8, FinishedSteps
<1>9. CASE step[o] \in NotBegun
  <2>1. step[o] # "idle"
    BY <1>1, ProcessAlone DEF OneRequest
  <2>2. BeginProcess(o)
    BY <1>9, <2>1, ProcessMoves DEF NotBegun
  <2>3. QED
    BY <1>4, <2>2
<1>10. QED
  BY <1>7, <1>8, <1>9

LEMMA AtomicInitially == SerialInit => BankOf!AtomicInit
<1> SUFFICES ASSUME SerialInit PROVE BankOf!AtomicInit
  OBVIOUS
<1>1. BankInit
  BY DEF SerialInit
<1>2. waiting = {} /\ \A o \in Offices : step[o] = "idle"
  BY <1>1 DEF BankInit
<1>3. PICK salt \in Salts : createAdminAccount(salt)
  BY <1>1 DEF BankInit
<1>4. Ledger = [id \in {ADMIN_ACCOUNT_ID} |-> [password |-> AdminPassword,
                                              balance  |-> ADMIN_ACCOUNT_BALLANCE]]
  BY <1>3 DEF createAdminAccount, Ledger, Hash
<1>5. Asked = {} /\ Answer = {} /\ Accounts = Ledger
  BY <1>2 DEF Asked, Answer, Accounts
<1>6. QED
  BY <1>4, <1>5 DEF BankOf!AtomicInit, BankOf!ADMIN_ACCOUNT_ID, BankOf!ADMIN_ACCOUNT_BALLANCE,
                    ADMIN_ACCOUNT_ID, ADMIN_ACCOUNT_BALLANCE

LEMMA AtomicStep ==
  ASSUME TypeOK, BankTypeOK, OneUserInv, OneUserInv', SerialInv', [SerialNext]_serialVars
  PROVE  [BankOf!AtomicNext]_<<Accounts, Asked, Answer>>
<1>1. OneRequest /\ \A o \in Offices : Work(o)' /\ Right(o)'
  BY DEF OneUserInv, SerialInv
<1>2. CASE UNCHANGED serialVars
  <2>1. UNCHANGED <<bankAccounts, step, reply, waiting, incoming, request, before>>
    BY <1>2 DEF serialVars, serverVars, vars, mainVars, bankVars
  <2>2. QED
    BY <2>1 DEF Accounts, Asked, Answer, Ledger, header
<1>3. CASE SerialNext
  <2>1. BankNext
    BY <1>3 DEF SerialNext
  <2>2. CASE \/ MainThread \/ UserOpens \/ EndOfFile \/ ServerStopped
             \/ \E o \in Offices : OfficeLoop(o) \/ TakeRequest(o)
    BY <1>1, <1>3, <2>2, OthersAreNotSeen DEF ServerStopped
  <2>3. ASSUME NEW m \in Messages, Arrives(m)
        PROVE  BankOf!AtomicNext
    <3>1. BankOf!Ask(m)
      BY <1>1, <1>3, <2>3, ArrivalIsSeen
    <3>2. QED
      BY <3>1 DEF BankOf!AtomicNext
  <2>4. ASSUME NEW o \in Offices, Process(o)
        PROVE  BankOf!AtomicNext \/ UNCHANGED <<Accounts, Asked, Answer>>
    BY <1>1, <1>3, <2>4, ProcessIsSeen
  <2>5. QED
    BY <2>1, <2>2, <2>3, <2>4 DEF BankNext, OfficeThread
<1>4. QED
  BY <1>2, <1>3

\* Users in turn see a bank that serves each request in one step as Bank says,
\* but for the amount that a transfer above the upper limit costs its sender,
\* and answers it once: however many steps processRequest takes, at whichever
\* of them the other offices and main go on, and whatever the mutexes are that
\* nobody frees.
THEOREM ServerIsAtomicBank == SerialSpec => ServesAtomically
<1>1. SerialSpec => [](QueueInv /\ BankTypeOK /\ OneUserInv /\ SerialInv)
  BY SerialInvariant, SerialIsBank, BankKeepsQueueInv, BankTypeCorrect, PTL
<1>2. /\ QueueInv /\ BankTypeOK /\ OneUserInv /\ SerialInv
      /\ (QueueInv /\ BankTypeOK /\ OneUserInv /\ SerialInv)'
      /\ [SerialNext]_serialVars
      => [BankOf!AtomicNext]_(BankOf!atomicVars)
  BY AtomicStep DEF QueueInv, BankOf!atomicVars
<1>3. QED
  BY <1>1, <1>2, AtomicInitially, PTL DEF SerialSpec, ServesAtomically, BankOf!AtomicSpec
=============================================================================
