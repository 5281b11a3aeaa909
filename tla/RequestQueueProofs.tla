------------------------- MODULE RequestQueueProofs -------------------------
(***************************************************************************)
(* Proofs about RequestQueue, for any number of bank offices, any messages *)
(* and any bound on the underflow.                                         *)
(***************************************************************************)
EXTENDS RequestQueue, FiniteSetTheorems, TLAPS

\* The successor of an index, without the remainder.
LEMMA NextSlotValue ==
  ASSUME NEW p \in Slots
  PROVE  /\ NextSlot(p) = IF p = BankOfficesNo - 1 THEN 0 ELSE p + 1
         /\ NextSlot(p) \in Slots
BY QueueAssumption DEF Slots, NextSlot

\* Reading a message over an old value gives a value again.
LEMMA ValueReadType ==
  ASSUME NEW old \in req_value, NEW m \in tlv_request
  PROVE  ValueRead(old, m) \in req_value
BY DEF ValueRead, req_value, tlv_request, req_arguments

\* Counting offices gives a number.
LEMMA OfficesAtType ==
  ASSUME NEW S
  PROVE  /\ OfficesAt(S) \in Nat
         /\ IsFiniteSet({o \in Offices : office[o] \in S})
<1>1. IsFiniteSet(Offices)
  BY FS_Interval, QueueAssumption DEF Offices
<1>2. {o \in Offices : office[o] \in S} \in SUBSET Offices
  OBVIOUS
<1>3. IsFiniteSet({o \in Offices : office[o] \in S})
  BY <1>1, <1>2, FS_Subset
<1>4. QED
  BY <1>3, FS_CardinalityType DEF OfficesAt

\* If some office is at one of the steps S, there is at least one.
LEMMA SomeOfficeAt ==
  ASSUME NEW S, NEW o \in Offices, office[o] \in S
  PROVE  OfficesAt(S) >= 1
<1> DEFINE A == {x \in Offices : office[x] \in S}
<1>1. IsFiniteSet(A) /\ Cardinality(A) \in Nat
  BY OfficesAtType DEF OfficesAt
<1>2. Cardinality(A) # 0
  <2>1. o \in A
    OBVIOUS
  <2>2. A # {}
    BY <2>1
  <2> HIDE DEF A
  <2>3. QED
    BY <1>1, <2>2, FS_EmptySet
<1>3. QED
  BY <1>1, <1>2 DEF OfficesAt

\* When one office moves, it leaves the old count and enters the new one.
LEMMA OfficeMoves ==
  ASSUME NEW S, NEW o \in Offices, NEW q,
         office \in [Offices -> OfficeSteps],
         office' = [office EXCEPT ![o] = q]
  PROVE  OfficesAt(S)' = OfficesAt(S) - (IF office[o] \in S THEN 1 ELSE 0)
                                      + (IF q \in S THEN 1 ELSE 0)
<1> DEFINE A == {x \in Offices : office[x] \in S}
           B == {x \in Offices : office'[x] \in S}
<1>1. IsFiniteSet(A) /\ Cardinality(A) \in Nat
  BY OfficesAtType DEF OfficesAt
<1>2. o \in A <=> office[o] \in S
  OBVIOUS
<1>3. CASE q \in S
  <2>1. B = A \cup {o}
    BY <1>3
  <2> HIDE DEF A, B
  <2>2. Cardinality(B) = IF o \in A THEN Cardinality(A) ELSE Cardinality(A) + 1
    BY <1>1, <2>1, FS_AddElement
  <2>3. Cardinality(B) = Cardinality(A) - (IF o \in A THEN 1 ELSE 0) + 1
    BY <1>1, <2>2
  <2>4. QED
    BY <1>2, <1>3, <2>3 DEF OfficesAt, A, B
<1>4. CASE q \notin S
  <2>1. B = A \ {o}
    BY <1>4
  <2> HIDE DEF A, B
  <2>2. Cardinality(B) = IF o \in A THEN Cardinality(A) - 1 ELSE Cardinality(A)
    BY <1>1, <2>1, FS_RemoveElement
  <2>3. Cardinality(B) = Cardinality(A) - (IF o \in A THEN 1 ELSE 0) + 0
    BY <1>1, <2>2
  <2>4. QED
    BY <1>2, <1>4, <2>3 DEF OfficesAt, A, B
<1>5. QED
  BY <1>3, <1>4

\* The two counts that the balances are made of follow the step of office o.
CountsFollow(o) ==
  /\ OfficesAt({"post"})' = OfficesAt({"post"})
       - (IF office[o] = "post" THEN 1 ELSE 0)
       + (IF office'[o] = "post" THEN 1 ELSE 0)
  /\ OfficesAt({"check", "read"})' = OfficesAt({"check", "read"})
       - (IF office[o] \in {"check", "read"} THEN 1 ELSE 0)
       + (IF office'[o] \in {"check", "read"} THEN 1 ELSE 0)

LEMMA CountsMove ==
  ASSUME NEW o \in Offices,
         office \in [Offices -> OfficeSteps],
         office' = [office EXCEPT ![o] = office'[o]]
  PROVE  CountsFollow(o)
<1>1. \A S : OfficesAt(S)' = OfficesAt(S) - (IF office[o] \in S THEN 1 ELSE 0)
                                         + (IF office'[o] \in S THEN 1 ELSE 0)
  BY OfficeMoves
<1>2. QED
  BY <1>1 DEF CountsFollow

\* At the start nobody is anywhere but at the semaphore.
LEMMA NobodyAt ==
  ASSUME NEW S, \A o \in Offices : office[o] \notin S
  PROVE  OfficesAt(S) = 0
<1>1. {o \in Offices : office[o] \in S} = {}
  OBVIOUS
<1>2. QED
  BY <1>1, FS_EmptySet DEF OfficesAt
-----------------------------------------------------------------------------
(* Type correctness.                                                       *)

LEMMA TypeInit == Init => TypeOK
<1> SUFFICES ASSUME Init PROVE TypeOK
  OBVIOUS
<1>1. BankOfficesNo \in Nat /\ 0 \in Slots /\ 0 \in 0 .. BankOfficesNo
  BY QueueAssumption DEF Slots
<1>2. requests \in [Slots -> {"unset", "request"}]
  BY DEF Init, createQueue
<1>3. /\ office \in [Offices -> OfficeSteps]
      /\ held \in [Offices -> {"own", "unset", "request"}]
  BY DEF Init, createBankOffices, OfficeSteps
<1>4. request \in tlv_request /\ incoming \in tlv_request
  BY QueueAssumption DEF Init
<1>5. main = "open" /\ n = 0 /\ posted = 0 /\ serverDown = FALSE /\ crashed = FALSE
  BY DEF Init
<1>6. read_p = 0 /\ write_p = 0 /\ itemsNo = 0 /\ notFull = BankOfficesNo /\ notEmpty = 0
  BY DEF Init, createQueue, initSynch
<1>7. main \in MainSteps /\ n \in {0, 1} /\ itemsNo \in Int /\ notEmpty \in Nat
  BY <1>5, <1>6 DEF MainSteps
<1>8. QED
  BY <1>1, <1>2, <1>3, <1>4, <1>5, <1>6, <1>7 DEF TypeOK

LEMMA TypeMain == TypeOK /\ MainStep => TypeOK'
<1> SUFFICES ASSUME TypeOK, MainStep PROVE TypeOK'
  OBVIOUS
<1> USE DEF TypeOK, MainGoes, MainSteps, queueVars, semVars, officeVars
<1>1. CASE LoopTest
  BY <1>1 DEF LoopTest
<1>2. CASE ReadValue
  <2>1. request.value \in req_value
    BY DEF tlv_request
  <2>2. ValueRead(request.value, incoming) \in req_value
    BY <2>1, ValueReadType
  <2>3. request' \in tlv_request
    BY <1>2, <2>2 DEF ReadValue, tlv_request
  <2>4. QED
    BY <1>2, <2>3 DEF ReadValue
<1>3. CASE WaitNotFull
  BY <1>3 DEF WaitNotFull, waitNotFull
<1>4. CASE WriteRequest
  BY <1>4, NextSlotValue DEF WriteRequest, writeRequest
<1>5. CASE PostNotEmpty
  BY <1>5 DEF PostNotEmpty, postNotEmpty
<1>6. CASE DrainTest
  BY <1>6 DEF DrainTest
<1>7. CASE DrainWait
  BY <1>7 DEF DrainWait, waitNotFull
<1>8. CASE DrainPost
  BY <1>8 DEF DrainPost, postNotEmpty
<1>9. CASE WakeOffice
  BY <1>9, QueueAssumption DEF WakeOffice, postNotEmpty
<1>10. CASE JoinOffices
  BY <1>10 DEF JoinOffices
<1>11. QED
  BY <1>1, <1>2, <1>3, <1>4, <1>5, <1>6, <1>7, <1>8, <1>9, <1>10 DEF MainStep

LEMMA TypeUser == TypeOK /\ UserStep => TypeOK'
<1> SUFFICES ASSUME TypeOK, UserStep PROVE TypeOK'
  OBVIOUS
<1> USE DEF TypeOK, MainGoes, MainSteps, queueVars, semVars, officeVars
<1>1. CASE OpenFifo
  BY <1>1 DEF OpenFifo
<1>2. CASE ReadEOF
  BY <1>2 DEF ReadEOF
<1>3. ASSUME NEW m \in Messages, ReadType(m) PROVE TypeOK'
  <2>1. m \in tlv_request /\ m.type \in op_type
    BY QueueAssumption DEF tlv_request
  <2>2. request' \in tlv_request
    BY <1>3, <2>1 DEF ReadType, tlv_request
  <2>3. QED
    BY <1>3, <2>1, <2>2 DEF ReadType
<1>4. QED
  BY <1>1, <1>2, <1>3 DEF UserStep

LEMMA TypeOffice ==
  ASSUME NEW o \in Offices, TypeOK, LoopStep(o) \/ OPShutDown(o) \/ FinishRequest(o)
  PROVE  TypeOK'
<1> USE DEF TypeOK, OfficeGoes, OfficeSteps, mainVars, queueVars, semVars, officeVars
<1>1. CASE WaitNotEmpty(o)
  BY <1>1 DEF WaitNotEmpty, waitNotEmpty
<1>2. CASE CheckDown(o)
  BY <1>2 DEF CheckDown
<1>3. CASE ReadRequest(o)
  BY <1>3, NextSlotValue DEF ReadRequest, readRequest
<1>4. CASE PostNotFull(o)
  BY <1>4 DEF PostNotFull, postNotFull
<1>5. CASE OPShutDown(o)
  BY <1>5 DEF OPShutDown
<1>6. CASE FinishRequest(o)
  BY <1>6 DEF FinishRequest
<1>7. QED
  BY <1>1, <1>2, <1>3, <1>4, <1>5, <1>6 DEF LoopStep

LEMMA TypeStep == TypeOK /\ [Next]_vars => TypeOK'
<1> SUFFICES ASSUME TypeOK, [Next]_vars PROVE TypeOK'
  OBVIOUS
<1>1. CASE UNCHANGED vars
  BY <1>1 DEF TypeOK, vars, mainVars, queueVars, semVars, officeVars
<1>2. CASE Next
  BY <1>1, <1>2, TypeMain, TypeUser, TypeOffice DEF Next, Stopped
<1>3. QED
  BY <1>1, <1>2

\* The state stays well typed: above all, the read and the write index never
\* leave the queue, and neither semaphore goes below zero.
THEOREM TypeCorrect == Spec => []TypeOK
BY TypeInit, TypeStep, PTL DEF Spec
-----------------------------------------------------------------------------
(* The inductive invariant of the queue.  While the server serves, the     *)
(* counts of slots and of wake-ups balance, the written slots form a ring, *)
(* and no office has left.                                                 *)

\* With the balances, the queue never holds fewer than none or more than its
\* size, and who is past the semaphore finds a request.
LEMMA BalancesBound ==
  ASSUME QueueInv, Serving
  PROVE  /\ itemsNo \in 0 .. BankOfficesNo
         /\ main = "write" => itemsNo < BankOfficesNo
         /\ \A o \in Offices : office[o] \in {"check", "read"} => itemsNo > 0
<1>1. /\ BankOfficesNo \in Nat /\ itemsNo \in Int
      /\ notFull \in Nat /\ notEmpty \in Nat
  BY QueueAssumption DEF QueueInv, TypeOK
<1>2. /\ notFull + MainAt("write") + itemsNo + OfficesAt({"post"}) = BankOfficesNo
      /\ notEmpty + MainAt("post") + OfficesAt({"check", "read"}) = itemsNo
  BY DEF QueueInv, SlotBalance, TokenBalance
<1>3. /\ OfficesAt({"post"}) \in Nat
      /\ OfficesAt({"check", "read"}) \in Nat
  BY OfficesAtType
<1>4. /\ MainAt("write") \in {0, 1} /\ MainAt("post") \in {0, 1}
      /\ main = "write" => MainAt("write") = 1
  BY DEF MainAt
<1>5. \A o \in Offices : office[o] \in {"check", "read"} => OfficesAt({"check", "read"}) >= 1
  BY SomeOfficeAt
<1>6. QED
  BY <1>1, <1>2, <1>3, <1>4, <1>5

\* The slot that the next office reads has been written.
LEMMA ReadSlotWritten ==
  ASSUME QueueInv, Serving, itemsNo > 0
  PROVE  requests[read_p] = "request"
<1>1. read_p \in Slots /\ read_p \in Int /\ itemsNo \in Int
  BY QueueAssumption DEF QueueInv, TypeOK, Slots
<1>2. Occupied(read_p)
  BY <1>1 DEF Occupied
<1>3. QED
  BY <1>1, <1>2 DEF QueueInv, Ring

LEMMA InvInit == Init => QueueInv
<1> SUFFICES ASSUME Init PROVE QueueInv
  OBVIOUS
<1>1. TypeOK
  BY TypeInit
<1>2. \A o \in Offices : office[o] = "waitNotEmpty"
  BY DEF Init, createBankOffices
<1>3. OfficesAt({"post"}) = 0 /\ OfficesAt({"check", "read"}) = 0
  BY <1>2, NobodyAt
<1>4. SlotBalance /\ TokenBalance
  BY <1>3, QueueAssumption
  DEF Init, createQueue, initSynch, SlotBalance, TokenBalance, MainAt
<1>5. Ring
  BY QueueAssumption DEF Init, createQueue, Ring, Occupied, Slots
<1>6. NobodyLeft
  BY <1>2 DEF Init, NobodyLeft
<1>7. QED
  BY <1>1, <1>4, <1>5, <1>6 DEF QueueInv

\* A step that leaves the counters and the offices alone and moves main between
\* steps that hold nothing keeps the invariant.
LEMMA InvMainOnly ==
  ASSUME QueueInv, TypeOK',
         UNCHANGED <<queueVars, semVars, officeVars, crashed>>,
         Serving' => Serving,
         Serving' => main \notin {"write", "post"} /\ main' \notin {"write", "post"}
  PROVE  QueueInv'
<1> USE DEF queueVars, semVars, officeVars
<1>1. SlotBalance' /\ TokenBalance'
  BY DEF QueueInv, SlotBalance, TokenBalance, MainAt, OfficesAt
<1>2. Ring'
  BY DEF QueueInv, Ring, Occupied
<1>3. NobodyLeft'
  BY DEF QueueInv, NobodyLeft
<1>4. QED
  BY <1>1, <1>2, <1>3 DEF QueueInv

LEMMA InvWriteRequest == QueueInv /\ WriteRequest => QueueInv'
<1> SUFFICES ASSUME QueueInv, WriteRequest PROVE QueueInv'
  OBVIOUS
<1>0. TypeOK'
  BY TypeMain DEF QueueInv, MainStep
<1>1. Serving /\ Serving' /\ main = "write" /\ main' = "post"
  BY DEF WriteRequest, MainGoes, Serving
<1>2. /\ itemsNo' = itemsNo + 1
      /\ UNCHANGED <<read_p, notFull, notEmpty, office, crashed>>
      /\ write_p' = NextSlot(write_p)
      /\ requests' = [requests EXCEPT ![write_p] = "request"]
  BY DEF WriteRequest, writeRequest, semVars, officeVars
<1>3. itemsNo >= 0 /\ itemsNo < BankOfficesNo
  BY <1>1, BalancesBound
<1>4. /\ BankOfficesNo \in Nat /\ itemsNo \in Int
      /\ notFull \in Nat /\ notEmpty \in Nat
      /\ write_p \in Slots /\ read_p \in Slots
      /\ requests \in [Slots -> {"unset", "request"}]
  BY QueueAssumption DEF QueueInv, TypeOK
<1>5. SlotBalance' /\ TokenBalance'
  <2>1. OfficesAt({"post"}) \in Nat /\ OfficesAt({"check", "read"}) \in Nat
    BY OfficesAtType
  <2>2. /\ OfficesAt({"post"})' = OfficesAt({"post"})
        /\ OfficesAt({"check", "read"})' = OfficesAt({"check", "read"})
    BY <1>2 DEF OfficesAt
  <2>3. QED
    BY <1>1, <1>2, <1>4, <2>1, <2>2 DEF QueueInv, SlotBalance, TokenBalance, MainAt
<1>6. Ring'
  <2>1. /\ write_p = read_p + itemsNo \/ write_p = read_p + itemsNo - BankOfficesNo
        /\ \A s \in Slots : Occupied(s) => requests[s] = "request"
    BY <1>1 DEF QueueInv, Ring
  <2>2. write_p' = IF write_p = BankOfficesNo - 1 THEN 0 ELSE write_p + 1
    BY <1>2, <1>4, NextSlotValue
  <2>3. \/ write_p' = read_p' + itemsNo'
        \/ write_p' = read_p' + itemsNo' - BankOfficesNo
    BY <1>2, <1>3, <1>4, <2>1, <2>2 DEF Slots
  <2>4. ASSUME NEW s \in Slots, Occupied(s)' PROVE requests'[s] = "request"
    <3>1. Occupied(s) \/ s = write_p
      BY <1>2, <1>3, <1>4, <2>1, <2>4 DEF Occupied, Slots
    <3>2. QED
      BY <1>2, <1>4, <2>1, <3>1
  <2>5. QED
    BY <2>3, <2>4 DEF Ring
<1>7. NobodyLeft'
  BY <1>1, <1>2 DEF QueueInv, NobodyLeft
<1>8. QED
  BY <1>0, <1>5, <1>6, <1>7 DEF QueueInv

LEMMA InvMain == QueueInv /\ MainStep => QueueInv'
<1> SUFFICES ASSUME QueueInv, MainStep PROVE QueueInv'
  OBVIOUS
<1>0. TypeOK'
  BY TypeMain DEF QueueInv
<1>a. /\ notFull \in Nat /\ notEmpty \in Nat /\ itemsNo \in Int
      /\ OfficesAt({"post"}) \in Nat /\ OfficesAt({"check", "read"}) \in Nat
  BY OfficesAtType DEF QueueInv, TypeOK
<1>1. CASE LoopTest
  BY <1>0, <1>1, InvMainOnly DEF LoopTest, MainGoes, Serving
<1>2. CASE ReadValue
  BY <1>0, <1>2, InvMainOnly DEF ReadValue, MainGoes, Serving
<1>3. CASE WaitNotFull
  <2>1. SlotBalance' /\ TokenBalance'
    BY <1>a, <1>3
    DEF WaitNotFull, waitNotFull, MainGoes, queueVars, officeVars, QueueInv, SlotBalance,
        TokenBalance, MainAt, OfficesAt, Serving
  <2>2. Ring' /\ NobodyLeft'
    BY <1>3 DEF WaitNotFull, waitNotFull, MainGoes, queueVars, officeVars, QueueInv, Ring, Occupied,
        NobodyLeft, Serving
  <2>3. QED
    BY <1>0, <2>1, <2>2 DEF QueueInv
<1>4. CASE WriteRequest
  BY <1>4, InvWriteRequest
<1>5. CASE PostNotEmpty
  <2>1. SlotBalance' /\ TokenBalance'
    BY <1>a, <1>5
    DEF PostNotEmpty, postNotEmpty, MainGoes, queueVars, officeVars, QueueInv, SlotBalance,
        TokenBalance, MainAt, OfficesAt, Serving
  <2>2. Ring' /\ NobodyLeft'
    BY <1>5 DEF PostNotEmpty, postNotEmpty, MainGoes, queueVars, officeVars, QueueInv, Ring, Occupied,
        NobodyLeft, Serving
  <2>3. QED
    BY <1>0, <2>1, <2>2 DEF QueueInv
<1>6. CASE DrainTest \/ DrainWait \/ DrainPost \/ WakeOffice \/ JoinOffices
  <2>1. ~Serving'
    BY <1>6 DEF DrainTest, DrainWait, DrainPost, WakeOffice, JoinOffices, MainGoes, Serving
  <2>2. QED
    BY <1>0, <2>1 DEF QueueInv, SlotBalance, TokenBalance, Ring, NobodyLeft
<1>7. QED
  BY <1>1, <1>2, <1>3, <1>4, <1>5, <1>6 DEF MainStep

LEMMA InvUser == QueueInv /\ UserStep => QueueInv'
<1> SUFFICES ASSUME QueueInv, UserStep PROVE QueueInv'
  OBVIOUS
<1>0. TypeOK'
  BY TypeUser DEF QueueInv
<1>1. CASE OpenFifo
  BY <1>0, <1>1, InvMainOnly DEF OpenFifo, MainGoes, Serving
<1>2. CASE ReadEOF
  BY <1>0, <1>2, InvMainOnly DEF ReadEOF, MainGoes, Serving
<1>3. ASSUME NEW m \in Messages, ReadType(m) PROVE QueueInv'
  BY <1>0, <1>3, InvMainOnly DEF ReadType, MainGoes, Serving
<1>4. QED
  BY <1>1, <1>2, <1>3 DEF UserStep

LEMMA InvReadRequest ==
  ASSUME NEW o \in Offices, QueueInv, ReadRequest(o)
  PROVE  QueueInv'
<1>0. TypeOK'
  BY TypeOffice DEF QueueInv, LoopStep
<1>1. /\ office[o] = "read"
      /\ office' = [office EXCEPT ![o] = "post"]
      /\ UNCHANGED <<main, requests, write_p, notFull, notEmpty>>
      /\ read_p' = NextSlot(read_p)
      /\ itemsNo' = itemsNo - 1
      /\ crashed' = (requests[read_p] = "unset")
  BY DEF ReadRequest, readRequest, OfficeGoes, mainVars, semVars
<1>2. /\ office \in [Offices -> OfficeSteps]
      /\ BankOfficesNo \in Nat /\ itemsNo \in Int
      /\ notFull \in Nat /\ notEmpty \in Nat
      /\ write_p \in Slots /\ read_p \in Slots
  BY QueueAssumption DEF QueueInv, TypeOK
<1>3. Serving' <=> Serving
  BY <1>1 DEF Serving
<1>4. SlotBalance' /\ TokenBalance'
  <2>1. OfficesAt({"post"}) \in Nat /\ OfficesAt({"check", "read"}) \in Nat
    BY OfficesAtType
  <2>a. office' = [office EXCEPT ![o] = office'[o]] /\ office'[o] = "post"
    BY <1>1, <1>2
  <2>b. CountsFollow(o)
    BY <1>2, <2>a, CountsMove
  <2>2. /\ OfficesAt({"post"})' = OfficesAt({"post"}) + 1
        /\ OfficesAt({"check", "read"})' = OfficesAt({"check", "read"}) - 1
    BY <1>1, <1>2, <2>1, <2>a, <2>b DEF CountsFollow
  <2>3. QED
    BY <1>1, <1>2, <1>3, <2>1, <2>2 DEF QueueInv, SlotBalance, TokenBalance, MainAt
<1>5. Serving => itemsNo > 0 /\ itemsNo <= BankOfficesNo /\ requests[read_p] = "request"
  <2>1. Serving => itemsNo > 0 /\ itemsNo \in 0 .. BankOfficesNo
    BY <1>1, BalancesBound
  <2>2. QED
    BY <1>2, <2>1, ReadSlotWritten
<1>6. Ring'
  <2> SUFFICES ASSUME Serving
               PROVE  /\ \/ write_p = read_p' + itemsNo'
                         \/ write_p = read_p' + itemsNo' - BankOfficesNo
                      /\ \A s \in Slots : Occupied(s)' => requests[s] = "request"
    BY <1>1, <1>3 DEF Ring
  <2>1. /\ write_p = read_p + itemsNo \/ write_p = read_p + itemsNo - BankOfficesNo
        /\ \A s \in Slots : Occupied(s) => requests[s] = "request"
    BY DEF QueueInv, Ring
  <2>2. read_p' = IF read_p = BankOfficesNo - 1 THEN 0 ELSE read_p + 1
    BY <1>1, <1>2, NextSlotValue
  <2>3. \/ write_p = read_p' + itemsNo'
        \/ write_p = read_p' + itemsNo' - BankOfficesNo
    BY <1>1, <1>2, <1>5, <2>1, <2>2 DEF Slots
  <2>4. \A s \in Slots : Occupied(s)' => Occupied(s)
    BY <1>1, <1>2, <1>5, <2>2 DEF Occupied, Slots
  <2>5. QED
    BY <2>1, <2>3, <2>4
<1>7. NobodyLeft'
  BY <1>1, <1>2, <1>3, <1>5 DEF QueueInv, NobodyLeft
<1>8. QED
  BY <1>0, <1>4, <1>6, <1>7 DEF QueueInv

LEMMA InvOffice ==
  ASSUME NEW o \in Offices, QueueInv, LoopStep(o) \/ OPShutDown(o) \/ FinishRequest(o)
  PROVE  QueueInv'
<1>0. TypeOK'
  BY TypeOffice DEF QueueInv
<1>a. /\ notFull \in Nat /\ notEmpty \in Nat /\ itemsNo \in Int
      /\ OfficesAt({"post"}) \in Nat /\ OfficesAt({"check", "read"}) \in Nat
      /\ office \in [Offices -> OfficeSteps]
  BY OfficesAtType DEF QueueInv, TypeOK
<1>1. CASE WaitNotEmpty(o)
  <2>1. /\ office[o] = "waitNotEmpty" /\ office' = [office EXCEPT ![o] = "check"]
        /\ notEmpty' = notEmpty - 1
        /\ UNCHANGED <<main, queueVars, notFull, crashed>>
    BY <1>1 DEF WaitNotEmpty, waitNotEmpty, OfficeGoes, mainVars
  <2>a. office' = [office EXCEPT ![o] = office'[o]] /\ office'[o] = "check"
    BY <1>a, <2>1
  <2>b. CountsFollow(o)
    BY <1>a, <2>a, CountsMove
  <2>2. /\ OfficesAt({"post"})' = OfficesAt({"post"})
        /\ OfficesAt({"check", "read"})' = OfficesAt({"check", "read"}) + 1
    BY <1>a, <2>1, <2>a, <2>b DEF CountsFollow
  <2>3. SlotBalance' /\ TokenBalance'
    BY <1>a, <2>1, <2>2
    DEF QueueInv, SlotBalance, TokenBalance, MainAt, Serving, queueVars
  <2>4. Ring' /\ NobodyLeft'
    BY <1>a, <2>1 DEF QueueInv, Ring, Occupied, NobodyLeft, Serving, queueVars
  <2>5. QED
    BY <1>0, <2>3, <2>4 DEF QueueInv
<1>2. CASE CheckDown(o)
  <2>1. /\ office[o] = "check"
        /\ office' = [office EXCEPT ![o] =
                        IF serverDown /\ itemsNo = 0 THEN "exited" ELSE "read"]
        /\ UNCHANGED <<main, queueVars, semVars, crashed>>
    BY <1>2 DEF CheckDown, OfficeGoes, mainVars
  <2> SUFFICES ASSUME Serving PROVE QueueInv'
    BY <1>0, <2>1 DEF QueueInv, SlotBalance, TokenBalance, Ring, NobodyLeft, Serving
  <2>2. itemsNo > 0
    BY <2>1, BalancesBound
  <2>3. office' = [office EXCEPT ![o] = "read"]
    <3>1. itemsNo # 0
      BY <1>a, <2>2
    <3>2. (IF serverDown /\ itemsNo = 0 THEN "exited" ELSE "read") = "read"
      BY <3>1, Zenon
    <3>3. QED
      BY <2>1, <3>2, Zenon
  <2>a. office' = [office EXCEPT ![o] = office'[o]] /\ office'[o] = "read"
    BY <1>a, <2>3
  <2>b. CountsFollow(o)
    BY <1>a, <2>a, CountsMove
  <2>4. /\ OfficesAt({"post"})' = OfficesAt({"post"})
        /\ OfficesAt({"check", "read"})' = OfficesAt({"check", "read"})
    BY <1>a, <2>1, <2>a, <2>b DEF CountsFollow
  <2>5. SlotBalance' /\ TokenBalance'
    BY <1>a, <2>1, <2>4
    DEF QueueInv, SlotBalance, TokenBalance, MainAt, Serving, queueVars, semVars
  <2>6. Ring' /\ NobodyLeft'
    BY <1>a, <2>1, <2>3 DEF QueueInv, Ring, Occupied, NobodyLeft, Serving, queueVars
  <2>7. QED
    BY <1>0, <2>5, <2>6 DEF QueueInv
<1>3. CASE ReadRequest(o)
  BY <1>3, InvReadRequest
<1>4. CASE PostNotFull(o)
  <2>1. /\ office[o] = "post" /\ office' = [office EXCEPT ![o] = "process"]
        /\ notFull' = notFull + 1
        /\ UNCHANGED <<main, queueVars, notEmpty, crashed>>
    BY <1>4 DEF PostNotFull, postNotFull, OfficeGoes, mainVars
  <2>a. office' = [office EXCEPT ![o] = office'[o]] /\ office'[o] = "process"
    BY <1>a, <2>1
  <2>b. CountsFollow(o)
    BY <1>a, <2>a, CountsMove
  <2>2. /\ OfficesAt({"post"})' = OfficesAt({"post"}) - 1
        /\ OfficesAt({"check", "read"})' = OfficesAt({"check", "read"})
    BY <1>a, <2>1, <2>a, <2>b DEF CountsFollow
  <2>3. SlotBalance' /\ TokenBalance'
    BY <1>a, <2>1, <2>2
    DEF QueueInv, SlotBalance, TokenBalance, MainAt, Serving, queueVars
  <2>4. Ring' /\ NobodyLeft'
    BY <1>a, <2>1 DEF QueueInv, Ring, Occupied, NobodyLeft, Serving, queueVars
  <2>5. QED
    BY <1>0, <2>3, <2>4 DEF QueueInv
<1>5. CASE OPShutDown(o)
  BY <1>0, <1>5
  DEF OPShutDown, mainVars, queueVars, semVars, officeVars, QueueInv, SlotBalance,
      TokenBalance, MainAt, OfficesAt, Ring, Occupied, NobodyLeft, Serving
<1>6. CASE FinishRequest(o)
  <2>1. /\ office[o] = "process" /\ office' = [office EXCEPT ![o] = "waitNotEmpty"]
        /\ UNCHANGED <<main, queueVars, semVars, crashed>>
    BY <1>6 DEF FinishRequest, OfficeGoes, mainVars
  <2>a. office' = [office EXCEPT ![o] = office'[o]] /\ office'[o] = "waitNotEmpty"
    BY <1>a, <2>1
  <2>b. CountsFollow(o)
    BY <1>a, <2>a, CountsMove
  <2>2. /\ OfficesAt({"post"})' = OfficesAt({"post"})
        /\ OfficesAt({"check", "read"})' = OfficesAt({"check", "read"})
    BY <1>a, <2>1, <2>a, <2>b DEF CountsFollow
  <2>3. SlotBalance' /\ TokenBalance'
    BY <1>a, <2>1, <2>2
    DEF QueueInv, SlotBalance, TokenBalance, MainAt, Serving, queueVars, semVars
  <2>4. Ring' /\ NobodyLeft'
    BY <1>a, <2>1 DEF QueueInv, Ring, Occupied, NobodyLeft, Serving, queueVars
  <2>5. QED
    BY <1>0, <2>3, <2>4 DEF QueueInv
<1>7. QED
  BY <1>1, <1>2, <1>3, <1>4, <1>5, <1>6 DEF LoopStep

\* The balances of slots and wake-ups, the ring of written slots and the
\* presence of every office are an inductive invariant of the server.
THEOREM QueueInvariant == Spec => []QueueInv
<1>1. QueueInv /\ [Next]_vars => QueueInv'
  <2> SUFFICES ASSUME QueueInv, [Next]_vars PROVE QueueInv'
    OBVIOUS
  <2>1. CASE UNCHANGED vars
    BY <2>1
    DEF vars, mainVars, queueVars, semVars, officeVars, QueueInv, TypeOK, SlotBalance,
        TokenBalance, MainAt, OfficesAt, Ring, Occupied, NobodyLeft, Serving
  <2>2. CASE Next
    BY <2>1, <2>2, InvMain, InvUser, InvOffice DEF Next, Stopped
  <2>3. QED
    BY <2>1, <2>2
<1>2. QED
  BY InvInit, <1>1, PTL DEF Spec

\* While the server serves, main never overwrites an unread request and no
\* office reads from an empty queue, with any number of offices.
THEOREM NoOverrun == Spec => []QueueNeverOverruns
<1>1. QueueInv => QueueNeverOverruns
  BY BalancesBound DEF QueueNeverOverruns
<1>2. QED
  BY <1>1, QueueInvariant, PTL

\* While the server serves, an accepted shutdown ends no office, and every
\* request pointer read from the queue was written to it.
THEOREM NoEarlyLeave == Spec => []NoOfficeLeavesEarly
<1>1. QueueInv => NoOfficeLeavesEarly
  <2> SUFFICES ASSUME QueueInv, Serving PROVE NoOfficeLeavesEarly
    BY DEF NoOfficeLeavesEarly
  <2>1. \A o \in Offices : office[o] \in {"check", "read"} => itemsNo > 0
    BY BalancesBound
  <2>2. \A o \in Offices : office[o] = "read" => requests[read_p] = "request"
    BY <2>1, ReadSlotWritten
  <2>3. ~crashed /\ \A o \in Offices : office[o] # "exited"
    BY DEF QueueInv, NobodyLeft
  <2>4. QED
    BY <2>1, <2>2, <2>3 DEF NoOfficeLeavesEarly
<1>2. QED
  BY <1>1, QueueInvariant, PTL
=============================================================================
