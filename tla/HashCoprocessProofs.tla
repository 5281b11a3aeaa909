------------------------- MODULE HashCoprocessProofs -------------------------
(***************************************************************************)
(* Theorems about HashCoprocess, for any threads and any number of calls.  *)
(*                                                                         *)
(* Each step of a thread moves that thread alone.  A descriptor of another *)
(* thread keeps its witness; one of the thread itself is still among those *)
(* that the thread's new place allows, because the step that leaves a      *)
(* place closes what the next place does not allow.                        *)
(***************************************************************************)
EXTENDS HashCoprocess, TLAPS

\* What a step of thread t must do to keep the invariant: only t moves, within
\* its call, and the descriptors stay, but for ends that t's new place forbids,
\* or are new ends of t that its new place allows.
LEMMA ThreadStep ==
  ASSUME DescriptorInv, NEW t \in Callers, NEW to \in Places,
         at' = [at EXCEPT ![t] = to], call' = call,
         \A d \in serverFds' :
           \/ d \in serverFds /\ (\A e \in EndsOpenAt(at[t]) :
                                    d = <<Call(t), e>> => e \in EndsOpenAt(to))
           \/ \E e \in EndsOpenAt(to) : d = <<Call(t), e>>
  PROVE  DescriptorInv'
<1>1. at' \in [Callers -> Places] /\ call' \in [Callers -> 0 .. MaxCalls]
  BY DEF DescriptorInv
<1>2. at'[t] = to /\ \A u \in Callers : u # t => at'[u] = at[u]
  BY DEF DescriptorInv
<1>3. \A u \in Callers : Call(u)' = Call(u)
  BY DEF Call
<1>4. ASSUME NEW d \in serverFds'
      PROVE  \E u \in Callers : \E e \in EndsOpenAt(at'[u]) : d = <<Call(u)', e>>
  <2>1. CASE \E e \in EndsOpenAt(to) : d = <<Call(t), e>>
    BY <2>1, <1>2, <1>3
  <2>2. CASE d \in serverFds /\ (\A e \in EndsOpenAt(at[t]) :
                                   d = <<Call(t), e>> => e \in EndsOpenAt(to))
    <3>1. PICK u \in Callers : \E e \in EndsOpenAt(at[u]) : d = <<Call(u), e>>
      BY <2>2 DEF DescriptorInv
    <3>2. CASE u = t
      BY <3>1, <3>2, <2>2, <1>2, <1>3
    <3>3. CASE u # t
      BY <3>1, <3>3, <1>2, <1>3
    <3>4. QED
      BY <3>2, <3>3
  <2>3. QED
    BY <2>1, <2>2
<1>5. QED
  BY <1>1, <1>4 DEF DescriptorInv, EndsOpenAt, Call

LEMMA DescriptorInit == Init => DescriptorInv
BY HashAssumption DEF Init, DescriptorInv, Places

\* The first pipe of a new call: nothing was open for the call before.
LEMMA FirstPipeStep ==
  ASSUME DescriptorInv, NEW t \in Callers, FirstPipe(t)
  PROVE  DescriptorInv'
<1>1. /\ at[t] = "out" /\ at' = [at EXCEPT ![t] = "pipe"]
      /\ call' = [call EXCEPT ![t] = call[t] + 1] /\ call[t] < MaxCalls
      /\ serverFds' = serverFds \union
                      {<<<<t, call'[t]>>, e>> : e \in {"fd1[READ]", "fd1[WRITE]"}}
  BY DEF FirstPipe, Goes
<1>2. at' \in [Callers -> Places] /\ call' \in [Callers -> 0 .. MaxCalls]
  <2>1. call[t] \in 0 .. MaxCalls /\ MaxCalls \in Nat
    BY HashAssumption DEF DescriptorInv
  <2>2. call[t] + 1 \in 0 .. MaxCalls
    BY <2>1, <1>1
  <2>3. QED
    BY <1>1, <2>2 DEF DescriptorInv, Places
<1>3. ASSUME NEW d \in serverFds'
      PROVE  \E u \in Callers : \E e \in EndsOpenAt(at'[u]) : d = <<Call(u)', e>>
  <2>1. CASE d \in serverFds
    <3>1. PICK u \in Callers : \E e \in EndsOpenAt(at[u]) : d = <<Call(u), e>>
      BY <2>1 DEF DescriptorInv
    <3>2. u # t
      BY <3>1, <1>1 DEF EndsOpenAt
    <3>3. at'[u] = at[u] /\ Call(u)' = Call(u)
      BY <3>2, <1>1 DEF DescriptorInv, Call
    <3>4. QED
      BY <3>1, <3>3
  <2>2. CASE d \notin serverFds
    <3>1. PICK e \in {"fd1[READ]", "fd1[WRITE]"} : d = <<<<t, call'[t]>>, e>>
      BY <2>2, <1>1
    <3>2. e \in EndsOpenAt(at'[t])
      BY <1>1 DEF DescriptorInv, EndsOpenAt
    <3>3. QED
      BY <3>1, <3>2 DEF Call
  <2>3. QED
    BY <2>1, <2>2
<1>4. QED
  BY <1>2, <1>3 DEF DescriptorInv, EndsOpenAt, Call

\* The steps of a thread in the middle of a call.
LEMMA InCallStep ==
  ASSUME DescriptorInv, NEW t \in Callers, InCall(t)
  PROVE  DescriptorInv'
<1> USE DEF Goes, Places
<1>1. CASE SecondPipe(t)
  <2>1. \A d \in serverFds' :
          \/ d \in serverFds
          \/ \E e \in Ends : d = <<Call(t), e>>
    BY <1>1 DEF SecondPipe, Ends
  <2>2. at[t] = "pipe" /\ EndsOpenAt("fork") = Ends /\ EndsOpenAt("pipe") \subseteq Ends
    BY <1>1 DEF SecondPipe, EndsOpenAt, Ends
  <2>3. \A d \in serverFds' :
          \/ d \in serverFds /\ (\A e \in EndsOpenAt(at[t]) :
                                   d = <<Call(t), e>> => e \in EndsOpenAt("fork"))
          \/ \E e \in EndsOpenAt("fork") : d = <<Call(t), e>>
    BY <2>1, <2>2
  <2>4. at' = [at EXCEPT ![t] = "fork"] /\ call' = call /\ "fork" \in Places
    BY <1>1 DEF SecondPipe
  <2>5. QED
    BY <2>3, <2>4, ThreadStep
<1>2. CASE Fork(t)
  <2>1. at[t] = "fork" /\ EndsOpenAt("fork") = EndsOpenAt("closeOut")
    BY <1>2 DEF Fork, EndsOpenAt
  <2>2. at' = [at EXCEPT ![t] = "closeOut"] /\ call' = call /\ "closeOut" \in Places
    BY <1>2 DEF Fork, Goes, Places
  <2>3. \A d \in serverFds' :
          d \in serverFds /\ (\A e \in EndsOpenAt(at[t]) :
                                d = <<Call(t), e>> => e \in EndsOpenAt("closeOut"))
    BY <1>2, <2>1 DEF Fork
  <2>4. QED
    BY <2>2, <2>3, ThreadStep
<1>3. CASE CloseOut(t)
  <2>1. /\ at[t] = "closeOut" /\ EndsOpenAt("closeIn") = EndsOpenAt("closeOut") \ {"fd2[WRITE]"}
        /\ \A d \in serverFds' : d \in serverFds /\ d # <<Call(t), "fd2[WRITE]">>
    BY <1>3 DEF CloseOut, Close, EndsOpenAt
  <2>2. at' = [at EXCEPT ![t] = "closeIn"] /\ call' = call /\ "closeIn" \in Places
    BY <1>3 DEF CloseOut, Goes, Places
  <2>3. \A d \in serverFds' :
          d \in serverFds /\ (\A e \in EndsOpenAt(at[t]) :
                                d = <<Call(t), e>> => e \in EndsOpenAt("closeIn"))
    BY <2>1
  <2>4. QED
    BY <2>2, <2>3, ThreadStep
<1>4. CASE CloseIn(t)
  <2>1. /\ at[t] = "closeIn" /\ EndsOpenAt("write") = EndsOpenAt("closeIn") \ {"fd1[READ]"}
        /\ \A d \in serverFds' : d \in serverFds /\ d # <<Call(t), "fd1[READ]">>
    BY <1>4 DEF CloseIn, Close, EndsOpenAt, Ends
  <2>2. at' = [at EXCEPT ![t] = "write"] /\ call' = call /\ "write" \in Places
    BY <1>4 DEF CloseIn, Goes, Places
  <2>3. \A d \in serverFds' :
          d \in serverFds /\ (\A e \in EndsOpenAt(at[t]) :
                                d = <<Call(t), e>> => e \in EndsOpenAt("write"))
    BY <2>1
  <2>4. QED
    BY <2>2, <2>3, ThreadStep
<1>5. CASE WriteText(t)
  <2>1. at[t] = "write" /\ EndsOpenAt("write") = EndsOpenAt("closeText")
    BY <1>5 DEF WriteText, EndsOpenAt
  <2>2. at' = [at EXCEPT ![t] = "closeText"] /\ call' = call /\ "closeText" \in Places
    BY <1>5 DEF WriteText, Goes, Places
  <2>3. \A d \in serverFds' :
          d \in serverFds /\ (\A e \in EndsOpenAt(at[t]) :
                                d = <<Call(t), e>> => e \in EndsOpenAt("closeText"))
    BY <1>5, <2>1 DEF WriteText
  <2>4. QED
    BY <2>2, <2>3, ThreadStep
<1>6. CASE CloseText(t)
  <2>1. /\ at[t] = "closeText" /\ EndsOpenAt("read") = EndsOpenAt("closeText") \ {"fd1[WRITE]"}
        /\ \A d \in serverFds' : d \in serverFds /\ d # <<Call(t), "fd1[WRITE]">>
    BY <1>6 DEF CloseText, Close, EndsOpenAt
  <2>2. at' = [at EXCEPT ![t] = "read"] /\ call' = call /\ "read" \in Places
    BY <1>6 DEF CloseText, Goes, Places
  <2>3. \A d \in serverFds' :
          d \in serverFds /\ (\A e \in EndsOpenAt(at[t]) :
                                d = <<Call(t), e>> => e \in EndsOpenAt("read"))
    BY <2>1
  <2>4. QED
    BY <2>2, <2>3, ThreadStep
<1>7. CASE ReadHash(t)
  <2>1. at[t] = "read" /\ EndsOpenAt("read") = EndsOpenAt("closeHash")
    BY <1>7 DEF ReadHash, EndsOpenAt
  <2>2. at' = [at EXCEPT ![t] = "closeHash"] /\ call' = call /\ "closeHash" \in Places
    BY <1>7 DEF ReadHash, Goes, Places
  <2>3. \A d \in serverFds' :
          d \in serverFds /\ (\A e \in EndsOpenAt(at[t]) :
                                d = <<Call(t), e>> => e \in EndsOpenAt("closeHash"))
    BY <1>7, <2>1 DEF ReadHash
  <2>4. QED
    BY <2>2, <2>3, ThreadStep
<1>8. CASE CloseHash(t)
  <2>1. /\ at[t] = "closeHash" /\ EndsOpenAt("closeHash") = {"fd2[READ]"}
        /\ \A d \in serverFds' : d \in serverFds /\ d # <<Call(t), "fd2[READ]">>
    BY <1>8 DEF CloseHash, Close, EndsOpenAt
  <2>2. at' = [at EXCEPT ![t] = "out"] /\ call' = call /\ "out" \in Places
    BY <1>8 DEF CloseHash, Goes, Places
  <2>3. \A d \in serverFds' :
          d \in serverFds /\ (\A e \in EndsOpenAt(at[t]) :
                                d = <<Call(t), e>> => e \in EndsOpenAt("out"))
    BY <2>1
  <2>4. QED
    BY <2>2, <2>3, ThreadStep
<1>9. QED
  BY <1>1, <1>2, <1>3, <1>4, <1>5, <1>6, <1>7, <1>8 DEF InCall

\* Steps of the children, and stuttering, leave the thread's variables alone.
LEMMA DescriptorUnchanged == DescriptorInv /\ UNCHANGED serverVars => DescriptorInv'
BY DEF DescriptorInv, serverVars, Call

\* Every descriptor that the server has open belongs to a call in progress that
\* has not yet come to the step that closes it.
THEOREM DescriptorInvariant == Spec => []DescriptorInv
<1>1. DescriptorInv /\ [Next]_vars => DescriptorInv'
  <2> SUFFICES ASSUME DescriptorInv, [Next]_vars PROVE DescriptorInv'
    OBVIOUS
  <2>1. CASE \E t \in Callers : FirstPipe(t) \/ InCall(t)
    BY <2>1, FirstPipeStep, InCallStep
  <2>2. CASE \E c \in Calls : InChild(c)
    BY <2>2, DescriptorUnchanged
    DEF InChild, ChildCloses, Sha256sum, ChildExits, serverVars
  <2>3. CASE AllReturned \/ UNCHANGED vars
    BY <2>3, DescriptorUnchanged DEF AllReturned, vars
  <2>4. QED
    BY <2>1, <2>2, <2>3 DEF Next
<1>2. QED
  BY DescriptorInit, <1>1, PTL DEF Spec

\* However the calls of generateHash overlap, the server has no descriptor open
\* of a call that has returned.
THEOREM NoLeak == Spec => []NoDescriptorLeak
<1>1. DescriptorInv => NoDescriptorLeak
  BY DEF DescriptorInv, NoDescriptorLeak, Call, EndsOpenAt
<1>2. QED
  BY DescriptorInvariant, <1>1, PTL
=============================================================================
