------------------------- MODULE RunDiagnosticsProofs -------------------------
(***************************************************************************)
(* Theorems about RunDiagnostics, for every number of targets and workers    *)
(* and every buffer size:                                                  *)
(*                                                                         *)
(*   TypeCorrect          every variable stays in its type                   *)
(*   OrderTheorem         the answer is in input order                       *)
(*   EachTargetOnceTheorem  an index is in one place at a time               *)
(*   ReceivedTheorem      the collector's counter counts the filled slots     *)
(*   CompleteTheorem      a batch nobody cancelled answers for every target  *)
(*   SlotsTheorem         a filled slot keeps its result                     *)
(*   ClosedTheorem        nothing is sent on a closed channel                *)
(*   RefinesBatch         the pool implements Batch                          *)
(*   NobodyStuckTheorem   the goroutines never all wait for one another       *)
(*   BoundedTheorem       a batch ends after a bounded number of steps        *)
(*                                                                         *)
(* The invariants are proved in that order, each from the ones before it.    *)
(***************************************************************************)
EXTENDS RunDiagnostics, TLAPS, SequenceTheorems, FiniteSetTheorems

\* The clamp leaves at least one worker, and the channels have room for one
\* element at least.
LEMMA Sizes ==
  /\ NumWorkers \in Nat \ {0}
  /\ BufSize \in Nat \ {0}
  /\ 1 \in Workers
BY RunAssumption DEF NumWorkers, BufSize, Workers

\* What a goroutine takes from a channel was an element of it, and the rest
\* moves up one position.
LEMMA QueueTake ==
  ASSUME NEW S, NEW q \in Seq(S), q # <<>>
  PROVE  /\ Head(q) \in S
         /\ Head(q) = q[1]
         /\ Tail(q) \in Seq(S)
         /\ Len(q) \in Nat \ {0}
         /\ Len(Tail(q)) = Len(q) - 1
         /\ DOMAIN q = 1..Len(q)
         /\ DOMAIN Tail(q) = 1..Len(q) - 1
         /\ \A i \in 1..Len(q) - 1 : Tail(q)[i] = q[i + 1]
BY HeadTailProperties, EmptySeq, LenProperties

\* The first m elements of a function on 1..n, as a sequence.
LEMMA Prefix ==
  ASSUME NEW S, NEW n \in Nat, NEW f \in [1..n -> S], NEW m \in 0..n
  PROVE  SubSeq(f, 1, m) = [i \in 1..m |-> f[i]]
OBVIOUS

\* A slice of the slots is a sequence of slots, position by position.
LEMMA Slice ==
  ASSUME NEW S, NEW f \in [Targets -> S], NEW m \in 0..NumTargets
  PROVE  /\ SubSeq(f, 1, m) \in Seq(S)
         /\ Len(SubSeq(f, 1, m)) = m
         /\ DOMAIN SubSeq(f, 1, m) = 1..m
         /\ \A i \in 1..m : SubSeq(f, 1, m)[i] = f[i]
<1>1. m \in Nat /\ NumTargets \in Nat
  BY RunAssumption
<1>2. SubSeq(f, 1, m) = [i \in 1..m |-> f[i]]
  BY <1>1, Prefix DEF Targets
<1>3. SubSeq(f, 1, m) \in [1..m -> S]
  <2>1. \A i \in 1..m : f[i] \in S
    BY <1>1 DEF Targets
  <2> QED BY <2>1, <1>2
<1>4. SubSeq(f, 1, m) \in Seq(S)
  BY <1>1, <1>3, SeqDef, Zenon
<1>5. DOMAIN SubSeq(f, 1, m) = 1..m
  BY <1>2
<1>6. Len(SubSeq(f, 1, m)) = m
  BY <1>1, <1>4, <1>5, LenProperties
<1>7. \A i \in 1..m : SubSeq(f, 1, m)[i] = f[i]
  BY <1>2
<1> QED BY <1>4, <1>5, <1>6, <1>7

\* The slots themselves are a sequence with one element per target.
LEMMA SlotsSeq ==
  ASSUME NEW S, NEW f \in [Targets -> S]
  PROVE  f \in Seq(S) /\ Len(f) = NumTargets /\ DOMAIN f = Targets
BY RunAssumption, SeqDef DEF Targets

-----------------------------------------------------------------------------
(* Types and order. *)

\* What a worker carries: TypeOK is not inductive without it, because only a
\* worker that has received an index executes, and only one that has executed
\* sends.
CarryInv == \A w \in Workers :
              /\ Busy(w) => held[w] \in Targets
              /\ pc[w] = "send" => found[w] \in ResultOf(held[w])

\* A result travels with the index of its own target.
OrderInv == /\ \A k \in DOMAIN resultChan : resultChan[k].result \in ResultOf(resultChan[k].index)
            /\ OrderPreserved

LEMMA TypeInit == Init => TypeOK /\ CarryInv /\ OrderInv
<1> SUFFICES ASSUME Init PROVE TypeOK /\ CarryInv /\ OrderInv
  OBVIOUS
<1>1. /\ <<>> \in Seq(Targets)
      /\ <<>> \in Seq(IndexedResult)
      /\ <<>> \in Seq(Result \cup {ZeroResult})
      /\ Len(<<>>) = 0
  BY EmptySeq
<1>2. TypeOK
  <2>1. next \in 1..NumTargets + 1 /\ received \in Nat
    BY RunAssumption DEF Init
  <2>2. /\ pc \in [Workers -> {"receive", "poll", "execute", "send", "exited"}]
        /\ held \in [Workers -> Targets \cup {0}]
        /\ found \in [Workers -> Result \cup {ZeroResult}]
        /\ results \in [Targets -> Result \cup {ZeroResult}]
    BY DEF Init
  <2> QED BY <1>1, <2>1, <2>2 DEF Init, TypeOK
<1>3. CarryInv
  BY DEF Init, CarryInv, Busy
<1>4. OrderInv
  BY <1>1, LenProperties DEF Init, OrderInv, OrderPreserved
<1> QED BY <1>2, <1>3, <1>4

LEMMA TypeStep == TypeOK /\ CarryInv /\ [Next]_vars => TypeOK' /\ CarryInv'
<1> SUFFICES ASSUME TypeOK, CarryInv, [Next]_vars PROVE TypeOK' /\ CarryInv'
  OBVIOUS
<1> USE DEF TypeOK, CarryInv, Busy, ResultOf
<1>1. CASE Cancel
  BY <1>1 DEF Cancel, feederVars, workerVars, collectorVars
<1>2. CASE FeedSend
  <2>1. next \in Targets /\ next' \in 1..NumTargets + 1
    BY <1>2, RunAssumption DEF FeedSend, Targets
  <2> QED BY <1>2, <2>1 DEF FeedSend, workerVars, collectorVars
<1>3. CASE FeedClose
  BY <1>3 DEF FeedClose, workerVars, collectorVars
<1>4. ASSUME NEW w \in Workers, Receive(w) PROVE TypeOK' /\ CarryInv'
  <2>1. Head(targetChan) \in Targets /\ Tail(targetChan) \in Seq(Targets)
    BY <1>4, QueueTake DEF Receive
  <2> QED BY <1>4, <2>1 DEF Receive, Goto, feederVars, collectorVars
<1>5. ASSUME NEW w \in Workers, ReceiveClosed(w) PROVE TypeOK' /\ CarryInv'
  BY <1>5 DEF ReceiveClosed, Goto, feederVars, collectorVars
<1>6. ASSUME NEW w \in Workers, Poll(w) PROVE TypeOK' /\ CarryInv'
  BY <1>6 DEF Poll, Goto, feederVars, collectorVars
<1>7. ASSUME NEW w \in Workers, Execute(w) PROVE TypeOK' /\ CarryInv'
  <2>1. PICK o \in Outcomes : found' = [found EXCEPT ![w] = [target |-> held[w], outcome |-> o]]
    BY <1>7 DEF Execute
  <2>2. held[w] \in Targets /\ [target |-> held[w], outcome |-> o] \in ResultOf(held[w])
    BY <1>7 DEF Execute, Goto, Result
  <2> QED BY <1>7, <2>1, <2>2 DEF Execute, Goto, feederVars, collectorVars
<1>8. ASSUME NEW w \in Workers, Send(w) PROVE TypeOK' /\ CarryInv'
  <2>1. [index |-> held[w], result |-> found[w]] \in IndexedResult
    BY <1>8 DEF Send, Goto, IndexedResult
  <2> QED BY <1>8, <2>1 DEF Send, Goto, feederVars, collectorVars
<1>9. ASSUME NEW w \in Workers, Abandon(w) PROVE TypeOK' /\ CarryInv'
  BY <1>9 DEF Abandon, Goto, feederVars, collectorVars
<1>10. CASE CloseResults
  BY <1>10 DEF CloseResults, feederVars, workerVars, collectorVars
<1>11. CASE Collect
  <2>1. Head(resultChan) \in IndexedResult /\ Tail(resultChan) \in Seq(IndexedResult)
    BY <1>11, QueueTake DEF Collect
  <2>2. results' \in [Targets -> Result \cup {ZeroResult}]
    BY <1>11, <2>1 DEF Collect, IndexedResult
  <2> QED BY <1>11, <2>1, <2>2 DEF Collect, feederVars, workerVars
<1>12. CASE Return
  <2>1. Trimmed \in Seq(Result \cup {ZeroResult})
    <3>1. CASE received < NumTargets
      <4>1. received \in 0..NumTargets
        BY <3>1, RunAssumption
      <4> QED BY <3>1, <4>1, Slice DEF Trimmed
    <3>2. CASE ~(received < NumTargets)
      BY <3>2, SlotsSeq DEF Trimmed
    <3> QED BY <3>1, <3>2
  <2> QED BY <1>12, <2>1 DEF Return, feederVars, workerVars
<1>13. CASE Done \/ UNCHANGED vars
  BY <1>13 DEF Done, vars, feederVars, workerVars, collectorVars
<1> QED
  BY <1>1, <1>2, <1>3, <1>4, <1>5, <1>6, <1>7, <1>8, <1>9, <1>10, <1>11, <1>12, <1>13
     DEF Next, WorkerSteps

\* Every variable of the pool stays in its type, for any number of targets and
\* workers and any buffer size.
THEOREM TypeCorrect == Spec => []TypeOK
<1>1. Spec => [](TypeOK /\ CarryInv)
  BY TypeInit, TypeStep, PTL DEF Spec
<1> QED BY <1>1, PTL

\* Only busy workers hold an index, and only a target's own result is sent.
LEMMA CarryCorrect == Spec => []CarryInv
<1>1. Spec => [](TypeOK /\ CarryInv)
  BY TypeInit, TypeStep, PTL DEF Spec
<1> QED BY <1>1, PTL

\* A probed result is never the zero value a slot starts with.
LEMMA ResultNotZero == \A i \in Targets : \A r \in ResultOf(i) : r # ZeroResult
BY RunAssumption DEF ResultOf, Result, ZeroResult, Targets

\* What is in flight is an indexed result.
LEMMA InFlightType ==
  TypeOK => /\ Len(resultChan) \in Nat
            /\ DOMAIN resultChan = 1..Len(resultChan)
            /\ \A k \in 1..Len(resultChan) : /\ resultChan[k] \in IndexedResult
                                             /\ resultChan[k].index \in Targets
<1> SUFFICES ASSUME TypeOK
             PROVE  /\ Len(resultChan) \in Nat
                    /\ DOMAIN resultChan = 1..Len(resultChan)
                    /\ \A k \in 1..Len(resultChan) : /\ resultChan[k] \in IndexedResult
                                                     /\ resultChan[k].index \in Targets
  OBVIOUS
<1>1. resultChan \in Seq(IndexedResult)
  BY DEF TypeOK
<1>2. \A k \in 1..Len(resultChan) : resultChan[k] \in IndexedResult
  BY <1>1, ElementOfSeq
<1> QED BY <1>1, <1>2, LenProperties DEF IndexedResult

LEMMA OrderStep ==
  TypeOK /\ CarryInv /\ OrderInv /\ [Next]_vars => OrderInv'
<1> SUFFICES ASSUME TypeOK, CarryInv, OrderInv, [Next]_vars PROVE OrderInv'
  OBVIOUS
<1> USE DEF OrderInv, OrderPreserved
<1>1. ASSUME NEW w \in Workers, Send(w) PROVE OrderInv'
  <2>1. found[w] \in ResultOf(held[w])
    BY <1>1 DEF Send, Goto, CarryInv
  <2>2. resultChan' = Append(resultChan, [index |-> held[w], result |-> found[w]])
    BY <1>1 DEF Send
  <2>3. \A k \in DOMAIN resultChan' :
           resultChan'[k] = IF k <= Len(resultChan) THEN resultChan[k]
                            ELSE [index |-> held[w], result |-> found[w]]
    BY <2>2 DEF TypeOK
  <2>4. \A k \in DOMAIN resultChan' : k <= Len(resultChan) => k \in DOMAIN resultChan
    BY <2>2 DEF TypeOK
  <2>5. \A k \in DOMAIN resultChan' : resultChan'[k].result \in ResultOf(resultChan'[k].index)
    BY <2>1, <2>3, <2>4
  <2> QED BY <1>1, <2>5 DEF Send, collectorVars, ResultOf
<1>2. CASE Collect
  <2>1. /\ Head(resultChan) = resultChan[1]
        /\ resultChan[1] \in IndexedResult
        /\ 1 \in DOMAIN resultChan
        /\ \A k \in DOMAIN Tail(resultChan) : Tail(resultChan)[k] = resultChan[k + 1]
                                              /\ k + 1 \in DOMAIN resultChan
    BY <1>2, QueueTake DEF Collect, TypeOK
  <2>2. \A k \in DOMAIN resultChan' : resultChan'[k].result \in ResultOf(resultChan'[k].index)
    BY <1>2, <2>1 DEF Collect
  <2>3. \A i \in Targets : results'[i] \in ResultOf(i) \cup {ZeroResult}
    BY <1>2, <2>1 DEF Collect, TypeOK, IndexedResult
  <2> QED BY <1>2, <2>2, <2>3 DEF Collect, ResultOf
<1>3. CASE Return
  <2>1. \A i \in DOMAIN Trimmed : i \in Targets /\ Trimmed[i] = results[i]
    <3>1. CASE received < NumTargets
      <4>1. received \in 0..NumTargets
        BY <3>1, RunAssumption DEF TypeOK
      <4>2. /\ DOMAIN SubSeq(results, 1, received) = 1..received
            /\ \A i \in 1..received : SubSeq(results, 1, received)[i] = results[i]
        BY <4>1, Slice DEF TypeOK
      <4> QED BY <3>1, <4>1, <4>2, RunAssumption DEF Trimmed, Targets
    <3>2. CASE ~(received < NumTargets)
      BY <3>2 DEF Trimmed, TypeOK
    <3> QED BY <3>1, <3>2
  <2> QED BY <1>3, <2>1 DEF Return, ResultOf
<1>4. CASE UNCHANGED <<resultChan, results, answer>>
  BY <1>4 DEF ResultOf
<1>5. \/ UNCHANGED <<resultChan, results, answer>>
      \/ \E w \in Workers : Send(w)
      \/ Collect \/ Return
  BY DEF Next, WorkerSteps, Cancel, FeedSend, FeedClose, Receive, ReceiveClosed, Poll, Execute,
         Abandon, CloseResults, Done, vars, collectorVars
<1> QED BY <1>1, <1>2, <1>3, <1>4, <1>5

\* Position i of the slots and of the answer holds a result of target i or the
\* zero value, whatever order the workers finish in.
THEOREM OrderTheorem == Spec => []OrderPreserved
<1>1. Spec => []OrderInv
  BY TypeInit, OrderStep, TypeCorrect, CarryCorrect, PTL DEF Spec
<1>2. OrderInv => OrderPreserved
  BY DEF OrderInv
<1> QED BY <1>1, <1>2, PTL

LEMMA OrderInvCorrect == Spec => []OrderInv
BY TypeInit, OrderStep, TypeCorrect, CarryCorrect, PTL DEF Spec

-----------------------------------------------------------------------------
(* Where an index can be. *)

\* How many indices have been taken from targetChan.
Taken == next - 1 - Len(targetChan)

\* targetChan holds the indices Taken + 1 .. next - 1, in that order.
QueueInv == /\ Len(targetChan) <= next - 1
            /\ \A k \in 1..Len(targetChan) : targetChan[k] = Taken + k

\* An index that was taken is with one worker, or in flight once, or stored.
UniqueInv ==
  /\ \A w \in Workers : Busy(w) => held[w] <= Taken /\ results[held[w]] = ZeroResult
  /\ \A v, w \in Workers : Busy(v) /\ Busy(w) /\ held[v] = held[w] => v = w
  /\ \A w \in Workers : \A k \in 1..Len(resultChan) :
        Busy(w) => resultChan[k].index # held[w]
  /\ \A k \in 1..Len(resultChan) :
        resultChan[k].index <= Taken /\ results[resultChan[k].index] = ZeroResult
  /\ \A j, k \in 1..Len(resultChan) : resultChan[j].index = resultChan[k].index => j = k
  /\ \A i \in Filled : i <= Taken

\* Until a cancellation, an index that was taken is still somewhere.
KeptInv ==
  ~cancelled => \A i \in 1..Taken : \/ i \in Filled
                                    \/ \E w \in Workers : Busy(w) /\ held[w] = i
                                    \/ \E k \in 1..Len(resultChan) : resultChan[k].index = i

LEMMA PlacesInit == Init => QueueInv /\ UniqueInv /\ KeptInv
<1> SUFFICES ASSUME Init PROVE QueueInv /\ UniqueInv /\ KeptInv
  OBVIOUS
<1>0. Len(<<>>) = 0
  OBVIOUS
<1>1. Len(targetChan) = 0 /\ Len(resultChan) = 0 /\ Taken = 0
  <2>1. targetChan = <<>> /\ resultChan = <<>> /\ next = 1
    BY DEF Init
  <2>2. Len(targetChan) = 0 /\ Len(resultChan) = 0
    BY <1>0, <2>1, Zenon
  <2>3. next = 1
    BY <2>1
  <2> QED BY <2>2, <2>3 DEF Taken
<1>2. QueueInv /\ KeptInv
  BY <1>1 DEF Init, QueueInv, KeptInv
<1>3. Filled = {} /\ \A w \in Workers : ~Busy(w)
  BY DEF Init, Busy, Filled
<1>4. UniqueInv
  BY <1>1, <1>3 DEF UniqueInv
<1> QED BY <1>2, <1>4

LEMMA QueueStep == TypeOK /\ QueueInv /\ [Next]_vars => QueueInv'
<1> SUFFICES ASSUME TypeOK, QueueInv, [Next]_vars PROVE QueueInv'
  OBVIOUS
<1> USE DEF QueueInv, Taken, TypeOK
<1>1. CASE FeedSend
  BY <1>1 DEF FeedSend
<1>2. ASSUME NEW w \in Workers, Receive(w) PROVE QueueInv'
  <2>1. /\ Len(targetChan') = Len(targetChan) - 1
        /\ Len(targetChan) \in Nat \ {0}
        /\ \A k \in 1..Len(targetChan) - 1 : targetChan'[k] = targetChan[k + 1]
    BY <1>2, QueueTake DEF Receive
  <2>2. next' = next
    BY <1>2 DEF Receive, feederVars
  <2> QED BY <2>1, <2>2
<1>3. CASE UNCHANGED <<next, targetChan>>
  BY <1>3
<1>4. \/ UNCHANGED <<next, targetChan>>
      \/ FeedSend
      \/ \E w \in Workers : Receive(w)
  BY DEF Next, WorkerSteps, Cancel, FeedClose, ReceiveClosed, Poll, Execute, Send, Abandon,
         CloseResults, Collect, Return, Done, vars, feederVars
<1> QED BY <1>1, <1>2, <1>3, <1>4

\* The index a worker receives is the next one in input order.
LEMMA ReceiveNext ==
  ASSUME TypeOK, QueueInv, NEW w \in Workers, Receive(w)
  PROVE  /\ Taken \in Nat
         /\ Taken' = Taken + 1
         /\ held' = [held EXCEPT ![w] = Taken + 1]
         /\ Taken + 1 \in Targets
<1>1. /\ Head(targetChan) = targetChan[1]
      /\ Head(targetChan) \in Targets
      /\ Len(targetChan) \in Nat \ {0}
      /\ Len(targetChan') = Len(targetChan) - 1
  BY QueueTake DEF Receive, TypeOK
<1>2. targetChan[1] = Taken + 1
  BY <1>1 DEF QueueInv
<1>3. next' = next /\ held' = [held EXCEPT ![w] = Taken + 1]
  BY <1>1, <1>2 DEF Receive, feederVars
<1>4. Taken' = Taken + 1
  BY <1>1, <1>3 DEF Taken, TypeOK
<1>5. Taken \in Nat
  BY DEF Taken, TypeOK, QueueInv
<1> QED BY <1>1, <1>2, <1>3, <1>4, <1>5

LEMMA TakenBounds == TypeOK /\ QueueInv => Taken \in 0..NumTargets
BY RunAssumption DEF TypeOK, QueueInv, Taken

\* The collector fills the slot of the index at the head of resultChan, and no
\* other slot changes.
LEMMA CollectFills ==
  ASSUME TypeOK, OrderInv, Collect
  PROVE  /\ resultChan[1].index \in Targets
         /\ resultChan[1].result \in ResultOf(resultChan[1].index)
         /\ results' = [results EXCEPT ![resultChan[1].index] = resultChan[1].result]
         /\ Filled' = Filled \cup {resultChan[1].index}
<1>1. /\ Head(resultChan) = resultChan[1]
      /\ Len(resultChan) \in Nat \ {0}
  BY QueueTake DEF Collect, TypeOK
<1>2. /\ resultChan[1].index \in Targets
      /\ resultChan[1].result \in ResultOf(resultChan[1].index)
      /\ resultChan[1].result # ZeroResult
  BY <1>1, ResultNotZero, InFlightType DEF OrderInv
<1>3. results' = [results EXCEPT ![resultChan[1].index] = resultChan[1].result]
  BY <1>1 DEF Collect
<1>4. Filled' = Filled \cup {resultChan[1].index}
  BY <1>2, <1>3 DEF Filled, TypeOK
<1> QED BY <1>2, <1>3, <1>4

LEMMA UniqueStep ==
  TypeOK /\ CarryInv /\ OrderInv /\ QueueInv /\ UniqueInv /\ [Next]_vars => UniqueInv'
<1> SUFFICES ASSUME TypeOK, CarryInv, OrderInv, QueueInv, UniqueInv, [Next]_vars
             PROVE  UniqueInv'
  OBVIOUS
<1>0. Taken \in Nat /\ Len(resultChan) \in Nat
  BY TakenBounds, RunAssumption DEF TypeOK
<1>1. CASE FeedSend
  <2>1. Taken' = Taken
    BY <1>1 DEF FeedSend, Taken, TypeOK
  <2> QED BY <1>1, <2>1 DEF FeedSend, UniqueInv, Busy, Filled, workerVars, collectorVars
<1>2. ASSUME NEW w \in Workers, Receive(w) PROVE UniqueInv'
  <2>1. /\ Taken' = Taken + 1
        /\ held' = [held EXCEPT ![w] = Taken + 1]
        /\ Taken + 1 \in Targets
    BY <1>2, ReceiveNext
  <2>2. pc' = [pc EXCEPT ![w] = "poll"] /\ pc[w] = "receive"
    BY <1>2 DEF Receive, Goto
  <2>3. UNCHANGED <<resultChan, results>>
    BY <1>2 DEF Receive, collectorVars
  <2>4. results[Taken + 1] = ZeroResult
    BY <1>0, <2>1 DEF UniqueInv, Filled
  <2>5. held'[w] = Taken + 1 /\ \A v \in Workers \ {w} : held'[v] = held[v] /\ pc'[v] = pc[v]
    BY <2>1, <2>2 DEF TypeOK
  <2>6. \A v \in Workers : Busy(v)' => v = w \/ (Busy(v) /\ v # w)
    BY <2>5 DEF Busy
  <2>7. \A v \in Workers : Busy(v) => held[v] \in Int /\ held[v] <= Taken
    BY <1>0 DEF UniqueInv, CarryInv, Targets
  <2>8. \A k \in 1..Len(resultChan) :
           resultChan[k].index \in Int /\ resultChan[k].index <= Taken
    BY InFlightType DEF UniqueInv, Targets
  <2>9. Filled' = Filled
    BY <2>3 DEF Filled
  <2>10. \A v \in Workers : Busy(v)' => held'[v] <= Taken' /\ results'[held'[v]] = ZeroResult
    BY <1>0, <2>1, <2>3, <2>4, <2>5, <2>6, <2>7 DEF UniqueInv
  <2>11. \A u, v \in Workers : Busy(u)' /\ Busy(v)' /\ held'[u] = held'[v] => u = v
    BY <1>0, <2>5, <2>6, <2>7 DEF UniqueInv
  <2>12. \A v \in Workers : \A k \in 1..Len(resultChan') :
            Busy(v)' => resultChan'[k].index # held'[v]
    BY <1>0, <2>3, <2>5, <2>6, <2>8 DEF UniqueInv
  <2>13. \A k \in 1..Len(resultChan') :
            resultChan'[k].index <= Taken' /\ results'[resultChan'[k].index] = ZeroResult
    BY <1>0, <2>1, <2>3, <2>8 DEF UniqueInv
  <2>14. \A i \in Filled' : i <= Taken'
    BY <1>0, <2>1, <2>9 DEF UniqueInv, Filled, Targets
  <2> QED BY <2>3, <2>10, <2>11, <2>12, <2>13, <2>14 DEF UniqueInv
<1>3. ASSUME NEW w \in Workers, Send(w) PROVE UniqueInv'
  <2>1. /\ resultChan' = Append(resultChan, [index |-> held[w], result |-> found[w]])
        /\ pc' = [pc EXCEPT ![w] = "receive"] /\ pc[w] = "send"
        /\ UNCHANGED <<held, results>>
    BY <1>3 DEF Send, Goto, collectorVars
  <2>2. Taken' = Taken /\ Filled' = Filled
    BY <1>3 DEF Send, Taken, Filled, feederVars, collectorVars
  <2>3. /\ Len(resultChan') = Len(resultChan) + 1
        /\ \A k \in 1..Len(resultChan) : resultChan'[k] = resultChan[k]
        /\ resultChan'[Len(resultChan) + 1].index = held[w]
    BY <1>0, <2>1 DEF TypeOK
  <2>4. Busy(w) /\ ~Busy(w)' /\ \A v \in Workers \ {w} : Busy(v)' <=> Busy(v)
    BY <2>1 DEF Busy, TypeOK
  <2>5. \A k \in 1..Len(resultChan') : k \in 1..Len(resultChan) \/ k = Len(resultChan) + 1
    BY <1>0, <2>3
  <2>6. \A v \in Workers : Busy(v)' => Busy(v) /\ v # w
    BY <2>4
  <2>7. \A v \in Workers : \A k \in 1..Len(resultChan') :
           Busy(v)' => resultChan'[k].index # held'[v]
    BY <2>1, <2>3, <2>4, <2>5, <2>6 DEF UniqueInv
  <2>8. \A k \in 1..Len(resultChan') :
           resultChan'[k].index <= Taken' /\ results'[resultChan'[k].index] = ZeroResult
    BY <2>1, <2>2, <2>3, <2>4, <2>5 DEF UniqueInv
  <2>9. \A j, k \in 1..Len(resultChan') : resultChan'[j].index = resultChan'[k].index => j = k
    BY <2>3, <2>4, <2>5 DEF UniqueInv
  <2> QED BY <2>1, <2>2, <2>6, <2>7, <2>8, <2>9 DEF UniqueInv
<1>4. CASE Collect
  <2> DEFINE i == resultChan[1].index
  <2>1. /\ Head(resultChan) = resultChan[1]
        /\ resultChan[1] \in IndexedResult
        /\ Len(resultChan) \in Nat \ {0}
        /\ Len(resultChan') = Len(resultChan) - 1
        /\ \A k \in 1..Len(resultChan) - 1 : resultChan'[k] = resultChan[k + 1]
    BY <1>4, QueueTake DEF Collect, TypeOK
  <2>2. i \in Targets /\ Filled' = Filled \cup {i}
    BY <1>4, CollectFills
  <2>3. \A t \in Targets : results'[t] = IF t = i THEN resultChan[1].result ELSE results[t]
    BY <1>4, CollectFills DEF TypeOK
  <2>5. Taken' = Taken /\ UNCHANGED <<pc, held>>
    BY <1>4 DEF Collect, Taken, feederVars, workerVars
  <2>6. \A k \in 1..Len(resultChan') : resultChan'[k].index \in Targets /\ resultChan'[k].index # i
    BY <2>1, InFlightType DEF UniqueInv
  <2>7. \A w \in Workers : Busy(w)' => held'[w] \in Targets /\ held'[w] # i
    BY <2>1, <2>5 DEF UniqueInv, CarryInv, Busy
  <2>8. i <= Taken
    BY <2>1 DEF UniqueInv
  <2>9. \A w \in Workers : Busy(w)' => held'[w] <= Taken' /\ results'[held'[w]] = ZeroResult
    BY <2>3, <2>5, <2>7 DEF UniqueInv, Busy
  <2>10. \A k \in 1..Len(resultChan') :
            resultChan'[k].index <= Taken' /\ results'[resultChan'[k].index] = ZeroResult
    BY <2>1, <2>3, <2>5, <2>6 DEF UniqueInv
  <2>11. \A w \in Workers : \A k \in 1..Len(resultChan') :
            Busy(w)' => resultChan'[k].index # held'[w]
    BY <2>1, <2>5 DEF UniqueInv, Busy
  <2>12. \A j, k \in 1..Len(resultChan') : resultChan'[j].index = resultChan'[k].index => j = k
    BY <2>1 DEF UniqueInv
  <2>13. \A v, w \in Workers : Busy(v)' /\ Busy(w)' /\ held'[v] = held'[w] => v = w
    BY <2>5 DEF UniqueInv, Busy
  <2> HIDE DEF i
  <2>14. \A t \in Filled' : t <= Taken'
    BY <2>2, <2>5, <2>8 DEF UniqueInv
  <2> QED BY <2>9, <2>10, <2>11, <2>12, <2>13, <2>14 DEF UniqueInv
<1>5. ASSUME UNCHANGED <<next, targetChan, held, resultChan, results>>,
             \A w \in Workers : Busy(w)' => Busy(w)
      PROVE  UniqueInv'
  BY <1>5 DEF UniqueInv, Taken, Filled
<1>6. ASSUME NEW w \in Workers, ReceiveClosed(w) \/ Poll(w) \/ Execute(w) \/ Abandon(w)
      PROVE  UniqueInv'
  <2>1. UNCHANGED <<next, targetChan, held, resultChan, results>>
    BY <1>6 DEF ReceiveClosed, Poll, Execute, Abandon, feederVars, collectorVars
  <2>2. \A v \in Workers : Busy(v)' => Busy(v)
    BY <1>6 DEF ReceiveClosed, Poll, Execute, Abandon, Goto, Busy, TypeOK
  <2> QED BY <1>5, <2>1, <2>2
<1>7. CASE Cancel \/ FeedClose \/ CloseResults \/ Return \/ Done \/ UNCHANGED vars
  <2>1. UNCHANGED <<next, targetChan, held, resultChan, results, pc>>
    BY <1>7 DEF Cancel, FeedClose, CloseResults, Return, Done, vars, feederVars, workerVars,
                collectorVars
  <2> QED BY <1>5, <2>1 DEF Busy
<1> QED BY <1>1, <1>2, <1>3, <1>4, <1>6, <1>7 DEF Next, WorkerSteps

LEMMA KeptStep ==
  TypeOK /\ OrderInv /\ QueueInv /\ KeptInv /\ [Next]_vars => KeptInv'
<1> SUFFICES ASSUME TypeOK, OrderInv, QueueInv, KeptInv, [Next]_vars, ~cancelled'
             PROVE  \A i \in 1..Taken' : \/ i \in Filled'
                                         \/ \E w \in Workers : Busy(w)' /\ held'[w] = i
                                         \/ \E k \in 1..Len(resultChan') : resultChan'[k].index = i
  BY DEF KeptInv
<1> DEFINE Kept(i) == \/ i \in Filled
                      \/ \E w \in Workers : Busy(w) /\ held[w] = i
                      \/ \E k \in 1..Len(resultChan) : resultChan[k].index = i
           KeptNext(i) == \/ i \in Filled'
                          \/ \E w \in Workers : Busy(w)' /\ held'[w] = i
                          \/ \E k \in 1..Len(resultChan') : resultChan'[k].index = i
<1>0. ~cancelled /\ \A i \in 1..Taken : Kept(i)
  <2>1. ~cancelled
    <3>1. cancelled' = cancelled \/ cancelled'
      BY DEF Next, WorkerSteps, Cancel, FeedSend, FeedClose, Receive, ReceiveClosed, Poll,
             Execute, Send, Abandon, CloseResults, Collect, Return, Done, vars
    <3> QED BY <3>1
  <2> QED BY <2>1 DEF KeptInv
<1>1. CASE FeedSend
  <2>1. Taken' = Taken
    BY <1>1 DEF FeedSend, Taken, TypeOK
  <2> QED BY <1>0, <1>1, <2>1 DEF FeedSend, Busy, Filled, workerVars, collectorVars
<1>2. ASSUME NEW w \in Workers, Receive(w) PROVE \A i \in 1..Taken' : KeptNext(i)
  <2>1. /\ Taken \in Nat
        /\ Taken' = Taken + 1
        /\ held' = [held EXCEPT ![w] = Taken + 1]
    BY <1>2, ReceiveNext
  <2>2. /\ pc' = [pc EXCEPT ![w] = "poll"] /\ pc[w] = "receive"
        /\ UNCHANGED <<resultChan, results>>
    BY <1>2 DEF Receive, Goto, collectorVars
  <2>3. Busy(w)' /\ held'[w] = Taken + 1
    BY <2>1, <2>2 DEF Busy, TypeOK
  <2>4. \A v \in Workers : Busy(v) => Busy(v)' /\ held'[v] = held[v]
    BY <2>1, <2>2 DEF Busy, TypeOK
  <2>5. \A i \in 1..Taken : KeptNext(i)
    BY <1>0, <2>2, <2>4 DEF Filled
  <2>6. KeptNext(Taken + 1)
    BY <2>3
  <2> HIDE DEF KeptNext
  <2> QED BY <2>1, <2>5, <2>6
<1>3. ASSUME NEW w \in Workers, Send(w) PROVE \A i \in 1..Taken' : KeptNext(i)
  <2>1. /\ resultChan' = Append(resultChan, [index |-> held[w], result |-> found[w]])
        /\ pc' = [pc EXCEPT ![w] = "receive"] /\ pc[w] = "send"
        /\ UNCHANGED <<held, results>>
    BY <1>3 DEF Send, Goto, collectorVars
  <2>2. Taken' = Taken /\ Filled' = Filled
    BY <1>3 DEF Send, Taken, Filled, feederVars, collectorVars
  <2>3. /\ Len(resultChan) \in Nat
        /\ Len(resultChan') = Len(resultChan) + 1
        /\ \A k \in 1..Len(resultChan) : resultChan'[k] = resultChan[k]
        /\ resultChan'[Len(resultChan) + 1].index = held[w]
    BY <2>1 DEF TypeOK
  <2>4. \A v \in Workers : Busy(v) => v = w \/ Busy(v)'
    BY <2>1 DEF Busy, TypeOK
  <2>5. ASSUME NEW i \in 1..Taken', NEW v \in Workers, Busy(v), held[v] = i PROVE KeptNext(i)
    <3>1. CASE v = w
      BY <2>3, <2>5, <3>1
    <3>2. CASE Busy(v)'
      BY <2>1, <2>5, <3>2
    <3> QED BY <2>4, <2>5, <3>1, <3>2
  <2>6. ASSUME NEW i \in 1..Taken', NEW k \in 1..Len(resultChan), resultChan[k].index = i
        PROVE  KeptNext(i)
    BY <2>3, <2>6
  <2>7. \A i \in 1..Taken' : Kept(i)
    BY <1>0, <2>2
  <2>8. \A i \in 1..Taken' : i \in Filled => KeptNext(i)
    BY <2>2
  <2> HIDE DEF KeptNext
  <2> QED BY <2>5, <2>6, <2>7, <2>8
<1>4. CASE Collect
  <2>1. /\ Head(resultChan) = resultChan[1]
        /\ resultChan[1] \in IndexedResult
        /\ Len(resultChan) \in Nat \ {0}
        /\ Len(resultChan') = Len(resultChan) - 1
        /\ \A k \in 1..Len(resultChan) - 1 : resultChan'[k] = resultChan[k + 1]
    BY <1>4, QueueTake DEF Collect, TypeOK
  <2>2. Filled' = Filled \cup {resultChan[1].index}
    BY <1>4, CollectFills
  <2>3. Taken' = Taken /\ UNCHANGED <<pc, held>>
    BY <1>4 DEF Collect, Taken, feederVars, workerVars
  <2>4. ASSUME NEW i \in 1..Taken', NEW k \in 1..Len(resultChan), resultChan[k].index = i
        PROVE  KeptNext(i)
    <3>1. CASE k = 1
      BY <2>2, <2>4, <3>1
    <3>2. CASE k # 1
      <4>1. k - 1 \in 1..Len(resultChan') /\ resultChan'[k - 1] = resultChan[k]
        BY <2>1, <3>2
      <4> QED BY <2>4, <4>1
    <3> QED BY <3>1, <3>2
  <2>5. \A i \in 1..Taken' : Kept(i)
    BY <1>0, <2>3
  <2>6. \A i \in 1..Taken' : i \in Filled => KeptNext(i)
    BY <2>2
  <2>7. ASSUME NEW i \in 1..Taken', NEW w \in Workers, Busy(w), held[w] = i PROVE KeptNext(i)
    BY <2>3, <2>7 DEF Busy
  <2>8. \A i \in 1..Taken' : KeptNext(i)
    <3> HIDE DEF KeptNext
    <3> QED BY <2>4, <2>5, <2>6, <2>7
  <2> QED BY <2>8
<1>5. ASSUME NEW w \in Workers, ReceiveClosed(w) \/ Poll(w) \/ Execute(w)
      PROVE  \A i \in 1..Taken' : KeptNext(i)
  <2>1. UNCHANGED <<next, targetChan, held, resultChan, results>>
    BY <1>5 DEF ReceiveClosed, Poll, Execute, feederVars, collectorVars
  <2>2. \A v \in Workers : Busy(v) => Busy(v)'
    BY <1>0, <1>5 DEF ReceiveClosed, Poll, Execute, Goto, Busy, TypeOK
  <2> QED BY <1>0, <2>1, <2>2 DEF Taken, Filled
<1>6. CASE FeedClose \/ CloseResults \/ Return \/ Done \/ UNCHANGED vars
  <2>1. UNCHANGED <<next, targetChan, held, resultChan, results, pc>>
    BY <1>6 DEF FeedClose, CloseResults, Return, Done, vars, feederVars, workerVars, collectorVars
  <2> QED BY <1>0, <2>1 DEF Taken, Filled, Busy
<1> QED BY <1>0, <1>1, <1>2, <1>3, <1>4, <1>5, <1>6 DEF Next, WorkerSteps, Cancel, Abandon

\* The three facts about places hold in every reachable state.
LEMMA PlacesCorrect == Spec => [](QueueInv /\ UniqueInv /\ KeptInv)
<1>1. Spec => []QueueInv
  BY PlacesInit, QueueStep, TypeCorrect, PTL DEF Spec
<1>2. Spec => []UniqueInv
  BY <1>1, PlacesInit, UniqueStep, TypeCorrect, CarryCorrect, OrderInvCorrect, PTL DEF Spec
<1>3. Spec => []KeptInv
  BY <1>1, PlacesInit, KeptStep, TypeCorrect, OrderInvCorrect, PTL DEF Spec
<1> QED BY <1>1, <1>2, <1>3, PTL

\* A target's index is in at most one place (waiting, with a worker, in flight,
\* stored), only once it was fed, and in one as long as nobody cancels.
THEOREM EachTargetOnceTheorem == Spec => []EachTargetOnce
<1>1. ASSUME TypeOK, QueueInv, UniqueInv, KeptInv PROVE EachTargetOnce
  <2> SUFFICES ASSUME NEW i \in Targets
               PROVE  /\ \A p, q \in Places(i) : p = q
                      /\ Places(i) # {} => i < next
                      /\ ~cancelled /\ i < next => Places(i) # {}
    BY <1>1 DEF EachTargetOnce
  <2> DEFINE Wait(k) == k \in 1..Len(targetChan) /\ targetChan[k] = i
             Work(w) == w \in Workers /\ Busy(w) /\ held[w] = i
             Flight(k) == k \in 1..Len(resultChan) /\ resultChan[k].index = i
  <2>1. /\ Len(targetChan) \in Nat /\ DOMAIN targetChan = 1..Len(targetChan)
        /\ DOMAIN resultChan = 1..Len(resultChan)
    BY <1>1, LenProperties DEF TypeOK
  <2>2. \A p \in Places(i) : \/ \E k : Wait(k) /\ p = <<"waiting", k>>
                             \/ \E w : Work(w) /\ p = <<"working", w>>
                             \/ \E k : Flight(k) /\ p = <<"inFlight", k>>
                             \/ i \in Filled /\ p = <<"stored", i>>
    BY <2>1 DEF Places
  <2>3. /\ \A k : Wait(k) => <<"waiting", k>> \in Places(i)
        /\ \A w : Work(w) => <<"working", w>> \in Places(i)
        /\ \A k : Flight(k) => <<"inFlight", k>> \in Places(i)
        /\ i \in Filled => <<"stored", i>> \in Places(i)
    BY <2>1 DEF Places
  <2>4. Taken \in Nat /\ next \in Nat /\ i \in Nat /\ i >= 1 /\ Taken = next - 1 - Len(targetChan)
    BY <1>1, <2>1, TakenBounds, RunAssumption DEF Taken, TypeOK, Targets
  <2>5. \A k : Wait(k) => i = Taken + k
    BY <1>1 DEF QueueInv
  <2>6. /\ \A w : Work(w) => i <= Taken
        /\ \A k : Flight(k) => i <= Taken
        /\ i \in Filled => i <= Taken
    BY <1>1 DEF UniqueInv
  <2>7. /\ \A v, w : Work(v) /\ Work(w) => v = w
        /\ \A j, k : Flight(j) /\ Flight(k) => j = k
        /\ \A w, k : ~(Work(w) /\ Flight(k))
        /\ \A w : ~(Work(w) /\ i \in Filled)
        /\ \A k : ~(Flight(k) /\ i \in Filled)
    BY <1>1 DEF UniqueInv, Filled
  <2>8. \A j, k : Wait(j) /\ Wait(k) => j = k
    BY <2>1, <2>4, <2>5
  <2>9. \A k : Wait(k) => ~(i <= Taken)
    BY <2>1, <2>4, <2>5
  <2>10. \A k : Wait(k) => i < next
    BY <2>1, <2>4, <2>5
  <2>11. i <= Taken => i < next
    BY <2>1, <2>4
  <2>12. ASSUME ~cancelled, i < next PROVE Places(i) # {}
    <3>1. CASE i <= Taken
      <4>1. i \in Filled \/ (\E w : Work(w)) \/ (\E k : Flight(k))
        BY <1>1, <2>4, <2>12, <3>1 DEF KeptInv
      <4> HIDE DEF Work, Flight
      <4> QED BY <2>3, <4>1
    <3>2. CASE ~(i <= Taken)
      <4>1. i - Taken \in 1..Len(targetChan)
        BY <2>1, <2>4, <2>12, <3>2
      <4>2. targetChan[i - Taken] = Taken + (i - Taken)
        BY <1>1, <4>1 DEF QueueInv
      <4>3. Wait(i - Taken)
        BY <2>4, <4>1, <4>2
      <4> QED BY <2>3, <4>3
    <3> QED BY <3>1, <3>2
  <2> HIDE DEF Wait, Work, Flight
  <2>13. \A p, q \in Places(i) : p = q
    BY <2>2, <2>6, <2>7, <2>8, <2>9
  <2>14. Places(i) # {} => i < next
    BY <2>2, <2>6, <2>10, <2>11
  <2> QED BY <2>12, <2>13, <2>14
<1> QED BY <1>1, TypeCorrect, PlacesCorrect, PTL

-----------------------------------------------------------------------------
(* Counting. *)

LEMMA CountStep ==
  ASSUME TypeOK, OrderInv, UniqueInv, ReceivedExact, [Next]_vars
  PROVE  ReceivedExact'
<1>1. CASE Collect
  <2>1. Filled' = Filled \cup {resultChan[1].index}
    BY <1>1, CollectFills
  <2>2. results[resultChan[1].index] = ZeroResult
    <3>1. 1 \in 1..Len(resultChan)
      BY <1>1, QueueTake DEF Collect, TypeOK
    <3> QED BY <3>1 DEF UniqueInv
  <2>3. resultChan[1].index \notin Filled
    BY <2>2 DEF Filled
  <2>4. IsFiniteSet(Filled)
    <3>1. NumTargets \in Int /\ 1 \in Int
      BY RunAssumption
    <3>2. IsFiniteSet(Targets)
      BY <3>1, FS_Interval DEF Targets
    <3> QED BY <3>2, FS_Subset DEF Filled
  <2>5. Cardinality(Filled') = Cardinality(Filled) + 1
    BY <2>1, <2>3, <2>4, FS_AddElement
  <2> QED BY <1>1, <2>5 DEF ReceivedExact, Collect
<1>2. CASE UNCHANGED <<results, received>>
  BY <1>2 DEF ReceivedExact, Filled
<1>3. Collect \/ UNCHANGED <<results, received>>
  BY DEF Next, WorkerSteps, Cancel, FeedSend, FeedClose, Receive, ReceiveClosed, Poll, Execute,
         Send, Abandon, CloseResults, Return, Done, vars, collectorVars
<1> QED BY <1>1, <1>2, <1>3

\* The collector's counter, which decides where the answer is cut, is the
\* number of slots that hold a result.
THEOREM ReceivedTheorem == Spec => []ReceivedExact
<1>1. Init => ReceivedExact
  <2> SUFFICES ASSUME Init PROVE ReceivedExact
    OBVIOUS
  <2>1. Filled = {} /\ received = 0
    BY DEF Init, Filled
  <2> QED BY <2>1, FS_EmptySet DEF ReceivedExact
<1>2. TypeOK /\ OrderInv /\ UniqueInv /\ ReceivedExact /\ [Next]_vars => ReceivedExact'
  BY CountStep
<1> QED BY <1>1, <1>2, TypeCorrect, OrderInvCorrect, PlacesCorrect, PTL DEF Spec

\* The counter reaches the number of targets exactly when every slot is filled.
LEMMA CountFull ==
  ASSUME ReceivedExact
  PROVE  /\ received \in 0..NumTargets
         /\ received = NumTargets <=> Filled = Targets
<1>1. NumTargets \in Int /\ 1 \in Int /\ NumTargets >= 1
  BY RunAssumption
<1>2. IsFiniteSet(Targets) /\ Cardinality(Targets) = NumTargets
  BY <1>1, FS_Interval DEF Targets
<1>3. Filled \in SUBSET Targets
  BY DEF Filled
<1>4. /\ IsFiniteSet(Filled)
      /\ Cardinality(Filled) <= NumTargets
      /\ Cardinality(Filled) = NumTargets => Filled = Targets
  BY <1>2, <1>3, FS_Subset
<1>5. Cardinality(Filled) \in Nat
  BY <1>4, FS_CardinalityType
<1> QED BY <1>1, <1>2, <1>4, <1>5 DEF ReceivedExact

-----------------------------------------------------------------------------
(* The end of the batch. *)

\* What each closed channel and each ended goroutine says about the others.
EndInv ==
  /\ targetClosed /\ ~cancelled => next = NumTargets + 1
  /\ \A w \in Workers : pc[w] = "exited" /\ ~cancelled => targetClosed /\ targetChan = <<>>
  /\ resultClosed => \A w \in Workers : pc[w] = "exited"
  /\ returned => resultClosed /\ resultChan = <<>> /\ answer = Trimmed

LEMMA EndStep == TypeOK /\ EndInv /\ [Next]_vars => EndInv'
<1> SUFFICES ASSUME TypeOK, EndInv, [Next]_vars PROVE EndInv'
  OBVIOUS
<1> USE DEF EndInv, TypeOK
<1>1. CASE Cancel
  BY <1>1 DEF Cancel, Trimmed, feederVars, workerVars, collectorVars
<1>2. CASE FeedSend
  BY <1>2 DEF FeedSend, Trimmed, workerVars, collectorVars
<1>3. CASE FeedClose
  <2>1. ~cancelled => next' = NumTargets + 1
    BY <1>3, RunAssumption DEF FeedClose
  <2> QED BY <1>3, <2>1 DEF FeedClose, Trimmed, workerVars, collectorVars
<1>4. ASSUME NEW w \in Workers, Receive(w) PROVE EndInv'
  BY <1>4 DEF Receive, Goto, Trimmed, feederVars, collectorVars
<1>5. ASSUME NEW w \in Workers, ReceiveClosed(w) PROVE EndInv'
  BY <1>5 DEF ReceiveClosed, Goto, Trimmed, feederVars, collectorVars
<1>6. ASSUME NEW w \in Workers, Poll(w) \/ Execute(w) \/ Abandon(w) PROVE EndInv'
  BY <1>6 DEF Poll, Execute, Abandon, Goto, Trimmed, feederVars, collectorVars
<1>7. ASSUME NEW w \in Workers, Send(w) PROVE EndInv'
  BY <1>7 DEF Send, Goto, Trimmed, feederVars, collectorVars
<1>8. CASE CloseResults
  BY <1>8 DEF CloseResults, Trimmed, feederVars, workerVars, collectorVars
<1>9. CASE Collect
  BY <1>9 DEF Collect, feederVars, workerVars
<1>10. CASE Return
  BY <1>10 DEF Return, Trimmed, feederVars, workerVars
<1>11. CASE Done \/ UNCHANGED vars
  BY <1>11 DEF Done, vars, Trimmed, feederVars, workerVars, collectorVars
<1> QED
  BY <1>1, <1>2, <1>3, <1>4, <1>5, <1>6, <1>7, <1>8, <1>9, <1>10, <1>11 DEF Next, WorkerSteps

LEMMA EndCorrect == Spec => []EndInv
<1>1. Init => EndInv
  BY DEF Init, EndInv
<1> QED BY <1>1, EndStep, TypeCorrect, PTL DEF Spec

\* When the channels are closed and drained without a cancellation, every slot
\* is filled.
LEMMA AllFilled ==
  ASSUME TypeOK, QueueInv, KeptInv, EndInv, resultClosed, resultChan = <<>>, ~cancelled
  PROVE  Filled = Targets
<1>1. targetChan = <<>> /\ next = NumTargets + 1
  BY Sizes DEF EndInv
<1>2. Len(targetChan) = 0 /\ Len(resultChan) = 0
  <2>1. Len(<<>>) = 0
    OBVIOUS
  <2> QED BY <1>1, <2>1, Zenon
<1>3. Taken = NumTargets
  <2>1. next = NumTargets + 1
    BY <1>1
  <2> QED BY <1>2, <2>1, RunAssumption DEF Taken
<1>4. \A w \in Workers : ~Busy(w)
  BY DEF EndInv, Busy
<1>5. 1..Len(resultChan) = {}
  BY <1>2
<1>6. \A i \in Targets : i \in Filled
  BY <1>3, <1>4, <1>5 DEF KeptInv, Targets
<1> QED BY <1>6 DEF Filled

\* A batch nobody cancelled returns one result for every target, in order.
THEOREM CompleteTheorem == Spec => []AnswerComplete
<1>1. ASSUME TypeOK, OrderInv, QueueInv, KeptInv, EndInv, ReceivedExact
      PROVE  AnswerComplete
  <2> SUFFICES ASSUME returned, ~cancelled
               PROVE  /\ Len(answer) = NumTargets
                      /\ \A i \in Targets : answer[i] \in ResultOf(i)
    BY DEF AnswerComplete
  <2>1. Filled = Targets
    BY <1>1, AllFilled DEF EndInv
  <2>2. received = NumTargets
    BY <1>1, <2>1, CountFull
  <2>3. answer = results
    BY <1>1, <2>2, RunAssumption DEF EndInv, Trimmed
  <2>4. Len(results) = NumTargets
    BY <1>1, SlotsSeq DEF TypeOK
  <2>5. \A i \in Targets : results[i] \in ResultOf(i)
    BY <1>1, <2>1 DEF OrderInv, OrderPreserved, Filled
  <2> QED BY <2>3, <2>4, <2>5
<1> QED
  BY <1>1, TypeCorrect, OrderInvCorrect, PlacesCorrect, EndCorrect, ReceivedTheorem, PTL

\* No result overwrites another: a filled slot keeps its value for ever.
THEOREM SlotsTheorem == Spec => SlotsWrittenOnce
<1>1. ASSUME TypeOK, OrderInv, UniqueInv, [Next]_vars
      PROVE  [\A i \in Filled : results'[i] = results[i]]_vars
  <2>1. CASE Collect
    <3>1. /\ resultChan[1].index \in Targets
          /\ results' = [results EXCEPT ![resultChan[1].index] = resultChan[1].result]
      BY <1>1, <2>1, CollectFills
    <3>2. 1 \in 1..Len(resultChan)
      BY <1>1, <2>1, QueueTake DEF Collect, TypeOK
    <3>3. resultChan[1].index \notin Filled
      BY <1>1, <3>2 DEF UniqueInv, Filled
    <3> QED BY <1>1, <3>1, <3>3 DEF Filled, TypeOK
  <2>2. CASE UNCHANGED results
    BY <2>2
  <2>3. Collect \/ UNCHANGED results
    BY <1>1 DEF Next, WorkerSteps, Cancel, FeedSend, FeedClose, Receive, ReceiveClosed, Poll,
                Execute, Send, Abandon, CloseResults, Return, Done, vars, collectorVars
  <2> QED BY <2>1, <2>2, <2>3
<1> QED
  BY <1>1, TypeCorrect, OrderInvCorrect, PlacesCorrect, PTL DEF Spec, SlotsWrittenOnce

\* Nothing is sent on a channel that was closed: the feeder closes after its
\* last send, and resultChan is closed when no worker is left to send.
THEOREM ClosedTheorem == Spec => ClosedMeansNoSend
<1>1. ASSUME TypeOK, EndInv, [Next]_vars
      PROVE  [ /\ targetClosed => Len(targetChan') <= Len(targetChan)
               /\ resultClosed => Len(resultChan') <= Len(resultChan) ]_vars
  <2>1. Len(targetChan) \in Nat /\ Len(resultChan) \in Nat
    BY <1>1, LenProperties DEF TypeOK
  <2>2. targetClosed => Len(targetChan') <= Len(targetChan)
    <3>1. CASE \E w \in Workers : Receive(w)
      <4>1. Len(targetChan') = Len(targetChan) - 1
        BY <1>1, <3>1, QueueTake DEF Receive, TypeOK
      <4> QED BY <2>1, <4>1
    <3>2. CASE UNCHANGED targetChan
      BY <2>1, <3>2
    <3>3. ~targetClosed \/ (\E w \in Workers : Receive(w)) \/ UNCHANGED targetChan
      BY <1>1 DEF Next, WorkerSteps, Cancel, FeedSend, FeedClose, ReceiveClosed, Poll, Execute,
                  Send, Abandon, CloseResults, Collect, Return, Done, vars
    <3> QED BY <3>1, <3>2, <3>3
  <2>3. resultClosed => Len(resultChan') <= Len(resultChan)
    <3>1. CASE Collect
      <4>1. Len(resultChan') = Len(resultChan) - 1
        BY <1>1, <3>1, QueueTake DEF Collect, TypeOK
      <4> QED BY <2>1, <4>1
    <3>2. CASE UNCHANGED resultChan
      BY <2>1, <3>2
    <3>3. CASE \E w \in Workers : Send(w)
      BY <1>1, <3>3 DEF Send, Goto, EndInv
    <3>4. \/ Collect
          \/ UNCHANGED resultChan
          \/ \E w \in Workers : Send(w)
      BY <1>1 DEF Next, WorkerSteps, Cancel, FeedSend, FeedClose, Receive, ReceiveClosed, Poll,
                  Execute, Abandon, CloseResults, Return, Done, vars
    <3> QED BY <3>1, <3>2, <3>3, <3>4
  <2> QED BY <2>2, <2>3
<1> QED BY <1>1, TypeCorrect, EndCorrect, PTL DEF Spec, ClosedMeansNoSend

-----------------------------------------------------------------------------
(* Refinement. *)

LEMMA ReturnedAnswer ==
  ASSUME TypeOK, ReceivedExact, QueueInv, KeptInv, EndInv, Return
  PROVE  B!Return
<1>1. cancelled \/ Filled = Targets
  BY AllFilled DEF Return
<1>2. received = Cardinality(Filled) /\ received \in 0..NumTargets
  BY CountFull DEF ReceivedExact
<1>3. Trimmed = SubSeq(results, 1, received)
  <2>1. CASE received < NumTargets
    BY <2>1 DEF Trimmed
  <2>2. CASE ~(received < NumTargets)
    <3>1. received = Len(results) /\ Trimmed = results
      <4>1. received = NumTargets
        BY <1>2, <2>2, RunAssumption
      <4>2. Len(results) = NumTargets
        BY SlotsSeq DEF TypeOK
      <4> QED BY <2>2, <4>1, <4>2 DEF Trimmed
    <3>2. results \in Seq(Result \cup {ZeroResult})
      BY SlotsSeq DEF TypeOK
    <3> QED BY <3>1, <3>2, SubSeqFull
  <2> QED BY <2>1, <2>2
<1>4. B!Filled = Filled
  BY DEF B!Filled, Filled, B!Targets, Targets, B!ZeroResult, ZeroResult
<1>5. B!Cardinality(Filled) = Cardinality(Filled)
  BY DEF B!Cardinality, Cardinality
<1> QED
  BY <1>1, <1>2, <1>3, <1>4, <1>5, Zenon DEF B!Return, Return, B!Targets, Targets, collectorVars

LEMMA DeliveredResult ==
  ASSUME TypeOK, OrderInv, UniqueInv, EndInv, Collect
  PROVE  \E i \in B!Targets : B!Deliver(i)
<1> DEFINE i == resultChan[1].index
<1>1. /\ i \in Targets
      /\ resultChan[1].result \in ResultOf(i)
      /\ results' = [results EXCEPT ![i] = resultChan[1].result]
  BY CollectFills
<1>2. results[i] = ZeroResult
  <2>1. 1 \in 1..Len(resultChan)
    BY QueueTake DEF Collect, TypeOK
  <2> QED BY <2>1 DEF UniqueInv
<1>3. ~returned /\ UNCHANGED <<cancelled, returned, answer>>
  BY DEF EndInv, Collect
<1>4. /\ B!Targets = Targets
      /\ B!ResultOf(i) = ResultOf(i)
      /\ B!ZeroResult = ZeroResult
  BY DEF B!Targets, Targets, B!ResultOf, ResultOf, B!Result, Result, B!ZeroResult, ZeroResult
<1>5. B!Deliver(i)
  BY <1>1, <1>2, <1>3, <1>4 DEF B!Deliver
<1> QED BY <1>1, <1>4, <1>5

\* The pool implements Batch: to its caller, the feeder, the workers, the closer
\* and the two channels amount to slots filled one at a time, a stop request and
\* one answer.
THEOREM RefinesBatch == Spec => B!Spec
<1>1. Init => B!Init
  BY DEF Init, B!Init, B!Targets, Targets, B!ZeroResult, ZeroResult
<1>2. ASSUME TypeOK, OrderInv, QueueInv, UniqueInv, KeptInv, EndInv, ReceivedExact, [Next]_vars
      PROVE  [B!Next]_B!vars
  <2>1. CASE Cancel
    BY <2>1 DEF Cancel, collectorVars, B!Next, B!Stop
  <2>2. CASE Collect
    BY <1>2, <2>2, DeliveredResult DEF B!Next
  <2>3. CASE Return
    BY <1>2, <2>3, ReturnedAnswer DEF B!Next
  <2>4. CASE UNCHANGED <<cancelled, results, returned, answer>>
    BY <2>4 DEF B!vars
  <2>5. Cancel \/ Collect \/ Return \/ UNCHANGED <<cancelled, results, returned, answer>>
    BY <1>2 DEF Next, WorkerSteps, FeedSend, FeedClose, Receive, ReceiveClosed, Poll, Execute,
                Send, Abandon, CloseResults, Done, vars, collectorVars
  <2> QED BY <2>1, <2>2, <2>3, <2>4, <2>5
<1> QED
  BY <1>1, <1>2, TypeCorrect, OrderInvCorrect, PlacesCorrect, EndCorrect, ReceivedTheorem, PTL
     DEF Spec, B!Spec

-----------------------------------------------------------------------------
(* Progress, without time: somebody can always go on, and not for ever. *)

\* What a goroutine that has not ended blocks on: a send on a full channel, a receive
\* from an empty one that is still open, a select none of whose cases is ready, Wait.
FeederWaits    == next <= NumTargets /\ Len(targetChan) >= BufSize /\ ~cancelled
WorkerWaits(w) == \/ pc[w] = "receive" /\ targetChan = <<>> /\ ~targetClosed
                  \/ pc[w] = "send" /\ Len(resultChan) >= BufSize /\ ~cancelled
CloserWaits    == \E w \in Workers : pc[w] # "exited"
CollectorWaits == resultChan = <<>> /\ ~resultClosed

Ended == targetClosed /\ (\A w \in Workers : pc[w] = "exited") /\ resultClosed /\ returned

SomebodyRuns == \/ ~targetClosed /\ ~FeederWaits
                \/ \E w \in Workers : pc[w] # "exited" /\ ~WorkerWaits(w)
                \/ ~resultClosed /\ ~CloserWaits
                \/ ~returned /\ ~CollectorWaits

\* The goroutines of a batch never all wait for one another, with two channels of any
\* size of which both may be full, cancelled or not: until each of them has ended,
\* one that has not can go on (runner.go:146-206).
THEOREM NobodyStuckTheorem == Spec => [](Ended \/ SomebodyRuns)
<1>1. ASSUME TypeOK, EndInv PROVE Ended \/ SomebodyRuns
  <2> SUFFICES ASSUME ~SomebodyRuns PROVE Ended
    OBVIOUS
  <2>1. Len(<<>>) = 0 /\ BufSize \in Nat \ {0}
    BY Sizes
  <2>2. returned
    <3> SUFFICES ASSUME ~returned PROVE FALSE
      OBVIOUS
    <3>1. resultChan = <<>> /\ ~resultClosed
      BY DEF SomebodyRuns, CollectorWaits
    <3>2. ~(Len(resultChan) >= BufSize)
      BY <2>1, <3>1
    <3>3. PICK w \in Workers : pc[w] # "exited"
      BY <3>1 DEF SomebodyRuns, CloserWaits
    <3>4. targetChan = <<>> /\ ~targetClosed
      BY <3>2, <3>3 DEF SomebodyRuns, WorkerWaits
    <3>5. ~(Len(targetChan) >= BufSize)
      BY <2>1, <3>4
    <3> QED BY <3>4, <3>5 DEF SomebodyRuns, FeederWaits
  <2>3. resultClosed /\ \A w \in Workers : pc[w] = "exited"
    BY <1>1, <2>2 DEF EndInv
  <2>4. cancelled \/ targetClosed
    BY <1>1, <2>3, Sizes DEF EndInv
  <2>5. targetClosed
    BY <2>4 DEF SomebodyRuns, FeederWaits
  <2> QED BY <2>2, <2>3, <2>5 DEF Ended
<1> QED BY <1>1, TypeCorrect, EndCorrect, PTL

\* The workers at one place of their loop.
At(place) == {w \in Workers : pc[w] = place}

Flag(done) == IF done THEN 0 ELSE 1

\* How many steps are left at most: those an index that was not sent, one in
\* targetChan, a result in flight, a worker, and each of the events that happen once
\* can still cause.
Queued == 6 * (NumTargets + 1 - next) + 5 * Len(targetChan) + Len(resultChan)

Working == Cardinality(At("receive")) + 5 * Cardinality(At("poll"))
           + 4 * Cardinality(At("execute")) + 3 * Cardinality(At("send"))

Events == Flag(cancelled) + Flag(targetClosed) + Flag(resultClosed) + Flag(returned)

StepsLeft == Queued + Working + Events

MaxSteps == 6 * NumTargets + NumWorkers + 4

LEMMA AtFinite ==
  /\ IsFiniteSet(Workers) /\ Cardinality(Workers) = NumWorkers
  /\ \A place : IsFiniteSet(At(place)) /\ Cardinality(At(place)) \in Nat
<1>1. NumWorkers \in Int /\ 1 \in Int /\ NumWorkers >= 1
  BY Sizes
<1>2. IsFiniteSet(Workers) /\ Cardinality(Workers) = NumWorkers
  BY <1>1, FS_Interval DEF Workers
<1>3. ASSUME NEW place PROVE IsFiniteSet(At(place)) /\ Cardinality(At(place)) \in Nat
  BY <1>2, FS_Subset, FS_CardinalityType DEF At
<1> QED BY <1>2, <1>3

\* A worker that moves leaves one place and is at one more.
LEMMA Moved ==
  ASSUME TypeOK, NEW w \in Workers, NEW from, NEW to, from # to, Goto(w, from, to)
  PROVE  /\ Cardinality(At(from))' = Cardinality(At(from)) - 1
         /\ Cardinality(At(to))' = Cardinality(At(to)) + 1
         /\ \A place : place \notin {from, to} => Cardinality(At(place))' = Cardinality(At(place))
<1>1. \A v \in Workers : pc'[v] = IF v = w THEN to ELSE pc[v]
  BY DEF Goto, TypeOK
<1>2. pc[w] = from
  BY DEF Goto
<1>3. At(from)' = At(from) \ {w} /\ w \in At(from)
  BY <1>1, <1>2 DEF At
<1>4. At(to)' = At(to) \cup {w} /\ w \notin At(to)
  BY <1>1, <1>2 DEF At
<1>5. \A place : place \notin {from, to} => At(place)' = At(place)
  BY <1>1, <1>2 DEF At
<1>6. Cardinality(At(from)') = Cardinality(At(from)) - 1
  BY <1>3, AtFinite, FS_RemoveElement
<1>7. Cardinality(At(to)') = Cardinality(At(to)) + 1
  BY <1>4, AtFinite, FS_AddElement
<1> QED BY <1>5, <1>6, <1>7

\* What is left for the workers after each of their moves.
LEMMA WorkMoved ==
  ASSUME TypeOK, NEW w \in Workers
  PROVE  /\ Goto(w, "receive", "poll")   => Working' = Working + 4
         /\ Goto(w, "receive", "exited") => Working' = Working - 1
         /\ Goto(w, "poll", "execute")   => Working' = Working - 1
         /\ Goto(w, "poll", "exited")    => Working' = Working - 5
         /\ Goto(w, "execute", "send")   => Working' = Working - 1
         /\ Goto(w, "send", "receive")   => Working' = Working - 2
         /\ Goto(w, "send", "exited")    => Working' = Working - 3
<1> DEFINE R == Cardinality(At("receive"))
           P == Cardinality(At("poll"))
           X == Cardinality(At("execute"))
           S == Cardinality(At("send"))
<1>1. R \in Nat /\ P \in Nat /\ X \in Nat /\ S \in Nat
  BY AtFinite
<1>2. Working = R + 5 * P + 4 * X + 3 * S
  BY DEF Working
<1>3. Goto(w, "receive", "poll") => R' = R - 1 /\ P' = P + 1 /\ X' = X /\ S' = S
  BY Moved
<1>4. Goto(w, "receive", "exited") => R' = R - 1 /\ P' = P /\ X' = X /\ S' = S
  BY Moved
<1>5. Goto(w, "poll", "execute") => R' = R /\ P' = P - 1 /\ X' = X + 1 /\ S' = S
  BY Moved
<1>6. Goto(w, "poll", "exited") => R' = R /\ P' = P - 1 /\ X' = X /\ S' = S
  BY Moved
<1>7. Goto(w, "execute", "send") => R' = R /\ P' = P /\ X' = X - 1 /\ S' = S + 1
  BY Moved
<1>8. Goto(w, "send", "receive") => R' = R + 1 /\ P' = P /\ X' = X /\ S' = S - 1
  BY Moved
<1>9. Goto(w, "send", "exited") => R' = R /\ P' = P /\ X' = X /\ S' = S - 1
  BY Moved
<1>10. Working' = R' + 5 * P' + 4 * X' + 3 * S'
  BY DEF Working
<1> HIDE DEF R, P, X, S
<1> QED BY <1>1, <1>2, <1>3, <1>4, <1>5, <1>6, <1>7, <1>8, <1>9, <1>10

LEMMA StepsType ==
  ASSUME TypeOK
  PROVE  /\ Queued \in Nat /\ Working \in Nat /\ Events \in Nat /\ StepsLeft \in Nat
         /\ next \in Nat /\ NumTargets \in Nat
         /\ Len(targetChan) \in Nat /\ Len(resultChan) \in Nat
<1>1. /\ NumTargets + 1 - next \in Nat /\ Len(targetChan) \in Nat /\ Len(resultChan) \in Nat
      /\ next \in Nat /\ NumTargets \in Nat
  BY LenProperties, RunAssumption DEF TypeOK
<1>2. Queued \in Nat
  BY <1>1 DEF Queued
<1>3. Working \in Nat
  <2>1. /\ Cardinality(At("receive")) \in Nat /\ Cardinality(At("poll")) \in Nat
        /\ Cardinality(At("execute")) \in Nat /\ Cardinality(At("send")) \in Nat
    BY AtFinite
  <2> QED BY <2>1 DEF Working
<1>4. Events \in Nat
  BY DEF Events, Flag
<1> QED BY <1>1, <1>2, <1>3, <1>4 DEF StepsLeft

\* What a step that leaves them alone does to the parts of the count.
LEMMA PartsKept ==
  /\ UNCHANGED <<next, targetChan, resultChan>> => Queued' = Queued
  /\ UNCHANGED pc => Working' = Working
  /\ UNCHANGED <<cancelled, targetClosed, resultClosed, returned>> => Events' = Events
<1>1. UNCHANGED <<next, targetChan, resultChan>> => Queued' = Queued
  BY DEF Queued
<1>2. UNCHANGED pc => Working' = Working
  <2>1. UNCHANGED pc => \A place : At(place)' = At(place)
    BY DEF At
  <2>2. UNCHANGED pc => \A place : Cardinality(At(place))' = Cardinality(At(place))
    BY <2>1
  <2> QED BY <2>2 DEF Working
<1>3. UNCHANGED <<cancelled, targetClosed, resultClosed, returned>> => Events' = Events
  BY DEF Events
<1> QED BY <1>1, <1>2, <1>3

\* Every step uses up at least one of those left, and at first there are no more than
\* MaxSteps: a batch ends after at most that many steps of all its goroutines and its
\* caller together, whatever the workers find and the context does.
THEOREM BoundedTheorem == Spec => [](StepsLeft \in 0..MaxSteps) /\ [][StepsLeft' < StepsLeft]_vars
<1>1. Init => StepsLeft = MaxSteps
  <2> SUFFICES ASSUME Init PROVE StepsLeft = MaxSteps
    OBVIOUS
  <2>1. /\ At("receive") = Workers /\ At("poll") = {} /\ At("execute") = {} /\ At("send") = {}
    BY DEF Init, At
  <2>2. /\ Cardinality(At("receive")) = NumWorkers /\ Cardinality(At("poll")) = 0
        /\ Cardinality(At("execute")) = 0 /\ Cardinality(At("send")) = 0
    BY <2>1, AtFinite, FS_EmptySet
  <2>3. Working = NumWorkers
    BY <2>2, Sizes DEF Working
  <2>4. Queued = 6 * NumTargets
    <3>1. next = 1 /\ Len(targetChan) = 0 /\ Len(resultChan) = 0
      BY DEF Init
    <3> QED BY <3>1, RunAssumption DEF Queued
  <2>5. Events = 4
    BY DEF Init, Events, Flag
  <2> QED BY <2>3, <2>4, <2>5, RunAssumption, Sizes DEF StepsLeft, MaxSteps
<1>2. ASSUME TypeOK, EndInv, [Next]_vars, ~UNCHANGED vars PROVE StepsLeft' < StepsLeft
  <2>1. /\ Queued \in Nat /\ Working \in Nat /\ Events \in Nat
        /\ next \in Nat /\ NumTargets \in Nat
        /\ Len(targetChan) \in Nat /\ Len(resultChan) \in Nat
    BY <1>2, StepsType
  <2> USE DEF feederVars, workerVars, collectorVars
  <2>2. CASE Cancel \/ FeedClose \/ CloseResults \/ Return
    <3>1. Queued' = Queued /\ Working' = Working
      BY <2>2, PartsKept DEF Cancel, FeedClose, CloseResults, Return
    <3>2. Events' = Events - 1
      BY <2>2 DEF Cancel, FeedClose, CloseResults, Return, Events, Flag
    <3> QED BY <2>1, <3>1, <3>2 DEF StepsLeft
  <2>3. CASE FeedSend
    <3>1. Working' = Working /\ Events' = Events
      BY <2>3, PartsKept DEF FeedSend
    <3>2. /\ Len(targetChan') = Len(targetChan) + 1 /\ next' = next + 1
          /\ resultChan' = resultChan
      BY <1>2, <2>3 DEF FeedSend, TypeOK
    <3>3. Queued' = Queued - 1
      BY <2>1, <3>2 DEF Queued
    <3> QED BY <2>1, <3>1, <3>3 DEF StepsLeft
  <2>4. CASE Collect
    <3>1. Working' = Working /\ Events' = Events
      BY <2>4, PartsKept DEF Collect
    <3>2. /\ Len(resultChan') = Len(resultChan) - 1
          /\ UNCHANGED <<next, targetChan>>
      BY <1>2, <2>4, QueueTake DEF Collect, TypeOK
    <3>3. Queued' = Queued - 1
      BY <2>1, <3>2 DEF Queued
    <3> QED BY <2>1, <3>1, <3>3 DEF StepsLeft
  <2>5. ASSUME NEW w \in Workers, Receive(w) PROVE StepsLeft' < StepsLeft
    <3>1. Working' = Working + 4 /\ Events' = Events
      BY <1>2, <2>5, WorkMoved, PartsKept DEF Receive
    <3>2. /\ Len(targetChan') = Len(targetChan) - 1
          /\ UNCHANGED <<next, resultChan>>
      BY <1>2, <2>5, QueueTake DEF Receive, TypeOK
    <3>3. Queued' = Queued - 5
      BY <2>1, <3>2 DEF Queued
    <3> QED BY <2>1, <3>1, <3>3 DEF StepsLeft
  <2>6. ASSUME NEW w \in Workers, Send(w) PROVE StepsLeft' < StepsLeft
    <3>1. Working' = Working - 2 /\ Events' = Events
      BY <1>2, <2>6, WorkMoved, PartsKept DEF Send
    <3>2. /\ Len(resultChan') = Len(resultChan) + 1
          /\ UNCHANGED <<next, targetChan>>
      BY <1>2, <2>6 DEF Send, TypeOK
    <3>3. Queued' = Queued + 1
      BY <2>1, <3>2 DEF Queued
    <3> QED BY <2>1, <3>1, <3>3 DEF StepsLeft
  <2>7. ASSUME NEW w \in Workers, ReceiveClosed(w) \/ Poll(w) \/ Execute(w) \/ Abandon(w)
        PROVE  StepsLeft' < StepsLeft
    <3>1. Queued' = Queued /\ Events' = Events
      BY <2>7, PartsKept DEF ReceiveClosed, Poll, Execute, Abandon
    <3>2. \/ Goto(w, "receive", "exited") \/ Goto(w, "poll", "exited")
          \/ Goto(w, "poll", "execute") \/ Goto(w, "execute", "send")
          \/ Goto(w, "send", "exited")
      BY <2>7 DEF ReceiveClosed, Poll, Execute, Abandon
    <3>3. PICK d \in 1..5 : Working' = Working - d
      BY <1>2, <3>2, WorkMoved
    <3> QED BY <2>1, <3>1, <3>3 DEF StepsLeft
  <2> QED BY <1>2, <2>2, <2>3, <2>4, <2>5, <2>6, <2>7 DEF Next, WorkerSteps, Done
<1>3. TypeOK => StepsLeft \in Nat
  BY StepsType
<1>4. ASSUME TypeOK, EndInv, [Next]_vars, StepsLeft \in 0..MaxSteps, StepsLeft' \in Nat
      PROVE  StepsLeft' \in 0..MaxSteps
  <2>1. MaxSteps \in Nat
    BY RunAssumption, Sizes DEF MaxSteps
  <2>2. CASE UNCHANGED vars
    <3>1. StepsLeft' = StepsLeft
      BY <2>2, PartsKept DEF vars, feederVars, workerVars, collectorVars, StepsLeft
    <3> QED BY <1>4, <3>1
  <2>3. CASE ~UNCHANGED vars
    BY <1>2, <1>4, <2>1, <2>3
  <2> QED BY <2>2, <2>3
<1>5. Init => StepsLeft \in 0..MaxSteps
  <2>1. MaxSteps \in Nat
    BY RunAssumption, Sizes DEF MaxSteps
  <2> QED BY <1>1, <2>1
<1>6. TypeOK /\ EndInv /\ [Next]_vars => [StepsLeft' < StepsLeft]_vars
  BY <1>2
<1>7. MaxSteps' = MaxSteps
  OBVIOUS
<1>8. /\ TypeOK /\ EndInv /\ [Next]_vars /\ StepsLeft \in 0..MaxSteps /\ (StepsLeft \in Nat)'
      => (StepsLeft \in 0..MaxSteps)'
  BY <1>4, <1>7
<1> QED BY <1>3, <1>5, <1>6, <1>8, TypeCorrect, EndCorrect, PTL DEF Spec
=============================================================================
