---------------------------- MODULE TcpProbeProofs ----------------------------
(***************************************************************************)
(* Theorems about TcpProbe, for every set of retry counts, negative ones     *)
(* among them, and every set of routes:                                    *)
(*                                                                         *)
(*   TypeCorrect        every variable stays in its type                     *)
(*   NoLeakTheorem      a socket is held only when it is handed out          *)
(*   BudgetTheorem      no more dials than retries + 1, and no fewer before   *)
(*                      the call gives up                                   *)
(*   LateTheorem        at most one dial begins after the cancellation       *)
(*   ImplementsTheorem  the call implements TcpCall                          *)
(*   BoundedTheorem     every step uses up one of a bounded number            *)
(***************************************************************************)
EXTENDS TcpProbe, TLAPS

\* The steps by name.
LEMMA StepNames ==
  HandshakeSteps = {"buildRequest", "writeRequest", "readResponse", "closeBody", "checkStatus",
                    "checkAddress", "writeGreeting", "readMethod", "writeConnect", "readReply",
                    "readLength", "readAddress"}
BY DEF HandshakeSteps, After

\* A handshake goes from step to step, or is done.
LEMMA AfterSteps ==
  /\ \A s \in HandshakeSteps : After[s] \subseteq HandshakeSteps \cup {"done"}
  /\ \A r \in Routes : FirstStep(r) \in HandshakeSteps
BY DEF HandshakeSteps, After, FirstStep

-----------------------------------------------------------------------------
(* The inductive invariant. *)

\* Past the poll of the context, on the way to the end of an attempt.
Trying == {"dialing", "attempted", "delay"} \cup HandshakeSteps

\* The call owns one socket while it shakes hands with a proxy; otherwise a socket
\* is owned exactly when conn holds it, which is after a success only.
SocketInv ==
  /\ open \in 0..1
  /\ IF pc \in HandshakeSteps THEN open = 1 /\ ~conn ELSE open = 1 <=> conn
  /\ conn => pc \in {"attempted", "decide", "returned"} /\ ~err /\ retries >= 0
  /\ pc = "attempted" => conn \/ err
  /\ pc = "delay" => err

\* Where the counters are: one dial for every turn of the loop.
DialInv ==
  /\ pc = "lookup" => attempt = 0
  /\ pc \in {"lookup", "loop", "dial"} => dials = attempt
  /\ pc \in Trying => dials = attempt + 1
  /\ pc \in {"dial"} \cup Trying => attempt <= retries
  /\ attempt > 0 /\ pc \notin {"decide", "returned"} => conn \/ err
  /\ dials <= IF retries < 0 THEN 0 ELSE retries + 1
  /\ pc = "decide" /\ ~conn /\ retries >= 0 => err /\ dials = retries + 1

\* What the call returns agrees with what it holds.
OutcomeInv ==
  /\ outcome = "none" <=> pc # "returned"
  /\ conn /\ pc = "returned" => outcome = "ok"
  /\ outcome = "ok" /\ ~conn => retries < 0
  /\ outcome = "failedAfterRetries" /\ retries >= 0 => dials = retries + 1

\* Nothing passes the poll after the cancellation.
LateInv ==
  /\ late <= 1
  /\ late > 0 => cancelled /\ pc \notin {"lookup", "dial"}
  /\ doomed => /\ cancelled /\ ~conn
               /\ pc \notin {"dial", "dialing"} \cup HandshakeSteps

IInv == TypeOK /\ SocketInv /\ DialInv /\ OutcomeInv /\ LateInv

LEMMA InvInit == Init => IInv
<1> SUFFICES ASSUME Init PROVE IInv
  OBVIOUS
<1> USE StepNames, TcpAssumption DEF Init
<1>1. TypeOK
  <2>1. /\ cancelled \in BOOLEAN /\ doomed \in BOOLEAN /\ err \in BOOLEAN /\ conn \in BOOLEAN
        /\ route \in Routes /\ retries \in RetryCounts
    BY Zenon
  <2>2. attempt \in Nat /\ attempt = 0 /\ open \in Int /\ dials \in Nat /\ late \in Nat
    BY SMT
  <2> QED BY <2>1, <2>2 DEF TypeOK
<1>2. SocketInv
  BY DEF SocketInv
<1>3. DialInv
  BY DEF DialInv, Trying
<1>4. OutcomeInv
  BY DEF OutcomeInv
<1>5. LateInv
  BY DEF LateInv
<1> QED BY <1>1, <1>2, <1>3, <1>4, <1>5 DEF IInv

\* One step of a handshake: on to another one, done, or failed and closed.
LEMMA HandshakeEffect ==
  ASSUME NEW s \in HandshakeSteps, HandshakeStep(s)
  PROVE  /\ pc \in HandshakeSteps
         /\ \/ pc' \in HandshakeSteps /\ UNCHANGED <<conn, err, open>>
            \/ pc' = "attempted" /\ conn' = TRUE /\ err' = FALSE /\ UNCHANGED open
            \/ pc' = "attempted" /\ conn' = FALSE /\ err' = TRUE /\ open' = open - 1
         /\ UNCHANGED <<cancelled, inputs, attempt, outcome, dials, late>>
BY StepNames, AfterSteps DEF HandshakeStep

LEMMA InvStep == IInv /\ [Next]_vars => IInv'
<1> SUFFICES ASSUME IInv, [Next]_vars PROVE IInv'
  OBVIOUS
<1> USE TcpAssumption, StepNames
    DEF IInv, TypeOK, SocketInv, DialInv, OutcomeInv, LateInv, Trying, inputs, ReturnWith
<1>1. CASE Cancel
  BY <1>1 DEF Cancel
<1>2. CASE Lookup
  BY <1>2 DEF Lookup
<1>3. CASE LoopHead
  <2>1. TypeOK'
    BY <1>3 DEF LoopHead
  <2>2. SocketInv'
    BY <1>3 DEF LoopHead
  <2>3. DialInv'
    BY <1>3 DEF LoopHead
  <2>4. OutcomeInv'
    BY <1>3 DEF LoopHead
  <2>5. LateInv'
    BY <1>3 DEF LoopHead
  <2> QED BY <2>1, <2>2, <2>3, <2>4, <2>5
<1>4. CASE DialBegin
  <2>1. TypeOK'
    <3>1. err' \in BOOLEAN /\ conn' \in BOOLEAN
      BY <1>4, Zenon DEF DialBegin
    <3> QED BY <3>1, <1>4 DEF DialBegin
  <2>2. SocketInv'
    BY <1>4 DEF DialBegin
  <2>3. DialInv'
    BY <1>4 DEF DialBegin
  <2>4. OutcomeInv'
    BY <1>4 DEF DialBegin
  <2>5. LateInv'
    BY <1>4 DEF DialBegin
  <2> QED BY <2>1, <2>2, <2>3, <2>4, <2>5
<1>5. CASE DialEnd
  <2>1. TypeOK'
    <3>1. err' \in BOOLEAN /\ conn' \in BOOLEAN
      BY <1>5, Zenon DEF DialEnd
    <3> QED BY <3>1, <1>5, AfterSteps DEF DialEnd
  <2>2. SocketInv'
    BY <1>5, AfterSteps DEF DialEnd
  <2>3. DialInv'
    BY <1>5, AfterSteps DEF DialEnd
  <2>4. OutcomeInv'
    BY <1>5, AfterSteps DEF DialEnd
  <2>5. LateInv'
    BY <1>5, AfterSteps DEF DialEnd
  <2> QED BY <2>1, <2>2, <2>3, <2>4, <2>5
<1>6. ASSUME NEW s \in HandshakeSteps, HandshakeStep(s) PROVE IInv'
  <2>1. /\ pc \in HandshakeSteps
        /\ UNCHANGED <<cancelled, inputs, attempt, outcome, dials, late>>
    BY <1>6, HandshakeEffect
  <2>2. CASE pc' \in HandshakeSteps /\ UNCHANGED <<conn, err, open>>
    BY <2>1, <2>2
  <2>3. CASE pc' = "attempted" /\ conn' = TRUE /\ err' = FALSE /\ UNCHANGED open
    <3>1. TypeOK'
      BY <2>1, <2>3
    <3>2. SocketInv'
      BY <2>1, <2>3
    <3>3. DialInv'
      BY <2>1, <2>3
    <3>4. OutcomeInv' /\ LateInv'
      BY <2>1, <2>3
    <3> QED BY <3>1, <3>2, <3>3, <3>4
  <2>4. CASE pc' = "attempted" /\ conn' = FALSE /\ err' = TRUE /\ open' = open - 1
    <3>1. TypeOK'
      <4>1. open' \in Int
        BY <2>1, <2>4
      <4>2. err' \in BOOLEAN /\ conn' \in BOOLEAN
        BY <2>4, Zenon
      <4> QED BY <2>1, <2>4, <4>1, <4>2
    <3>2. SocketInv'
      BY <2>1, <2>4
    <3>3. DialInv'
      BY <2>1, <2>4
    <3>4. OutcomeInv' /\ LateInv'
      BY <2>1, <2>4
    <3> QED BY <3>1, <3>2, <3>3, <3>4
  <2> QED BY <1>6, <2>2, <2>3, <2>4, HandshakeEffect
<1>7. CASE Attempted
  BY <1>7 DEF Attempted
<1>8. CASE Delay
  BY <1>8 DEF Delay
<1>9. CASE Decide
  BY <1>9 DEF Decide
<1>10. CASE Done \/ UNCHANGED vars
  BY <1>10 DEF Done, vars
<1>11. Awaits \subseteq HandshakeSteps
  BY DEF Awaits
<1> QED
  BY <1>1, <1>2, <1>3, <1>4, <1>5, <1>6, <1>7, <1>8, <1>9, <1>10, <1>11
     DEF Next, LocalStep, Await

LEMMA InvCorrect == Spec => []IInv
BY InvInit, InvStep, PTL DEF Spec

-----------------------------------------------------------------------------
(* The theorems. *)

\* Every variable of a call stays in its type, and the loop variable within the
\* retries, for any retry count.
THEOREM TypeCorrect == Spec => []TypeOK
<1>1. IInv => TypeOK
  BY DEF IInv
<1> QED BY <1>1, InvCorrect, PTL

\* However many attempts fail, and at whichever step of a handshake, no socket
\* stays behind: the call holds one only when it returns it.
THEOREM NoLeakTheorem == Spec => []NoSocketLeak
<1>1. IInv => NoSocketLeak
  BY StepNames DEF IInv, SocketInv, OutcomeInv, NoSocketLeak, TypeOK
<1> QED BY <1>1, InvCorrect, PTL

\* The retry budget is kept to the dial, for any number of retries.
THEOREM BudgetTheorem == Spec => []RetryBudget
<1>1. IInv => RetryBudget
  BY DEF IInv, DialInv, OutcomeInv, RetryBudget
<1> QED BY <1>1, InvCorrect, PTL

\* A cancellation stops the dialing, however many retries are left.
THEOREM LateTheorem == Spec => []CancelStopsDialing
<1>1. IInv => CancelStopsDialing
  BY DEF IInv, LateInv, CancelStopsDialing
<1> QED BY <1>1, InvCorrect, PTL

-----------------------------------------------------------------------------
(* Refinement. *)

\* A return of the call is a step of the contract.
LEMMA ReturnStep ==
  ASSUME IInv, IInv', pc # "returned", pc' = "returned",
         UNCHANGED <<cancelled, inputs, open, conn>>
  PROVE  Contract!Next
<1>1. outcome = "none" /\ outcome' \in {"dnsError", "cancelled", "failedAfterRetries", "ok"}
  BY DEF IInv, TypeOK, OutcomeInv
<1>2. CASE outcome' # "ok"
  <2>1. ~conn' /\ open = 0
    BY <1>2, StepNames DEF IInv, OutcomeInv, SocketInv
  <2> QED BY <1>1, <1>2, <2>1 DEF Contract!Next, Contract!Fail, inputs
<1>3. CASE outcome' = "ok" /\ conn
  <2>1. ~doomed /\ ~(retries < 0) /\ open' = 1
    BY <1>3, StepNames, TcpAssumption DEF IInv, TypeOK, LateInv, SocketInv
  <2> QED BY <1>1, <1>3, <2>1 DEF Contract!Next, Contract!Succeed, inputs
<1>4. CASE outcome' = "ok" /\ ~conn
  <2>1. retries < 0 /\ open' = 0
    BY <1>4, StepNames DEF IInv, OutcomeInv, SocketInv, inputs
  <2> QED BY <1>1, <1>4, <2>1 DEF Contract!Next, Contract!ReturnNothing, inputs
<1> QED BY <1>2, <1>3, <1>4

\* The call implements TcpCall, the contract ExecuteTarget relies on: lookup,
\* loop, dials and handshakes amount to one step that hands out a socket, an error
\* or, for a negative retry count only, neither.
THEOREM ImplementsTheorem == Spec => ImplementsTcpCall
<1>1. Init => Contract!Init
  BY DEF Init, Contract!Init
<1>2. ASSUME IInv, IInv', [Next]_vars PROVE [Contract!Next]_Contract!vars
  <2>1. CASE Cancel
    BY <2>1 DEF Cancel, inputs, Contract!Next, Contract!Cancel
  <2>2. CASE pc # "returned" /\ pc' = "returned"
    <3>1. UNCHANGED <<cancelled, inputs, open, conn>>
      BY <1>2, <2>2, StepNames
         DEF Next, LocalStep, Await, Cancel, Lookup, LoopHead, DialBegin, DialEnd, HandshakeStep,
             Attempted, Delay, Decide, Done, ReturnWith, vars, FirstStep
    <3> QED BY <1>2, <2>2, <3>1, ReturnStep
  <2>3. CASE UNCHANGED <<cancelled, inputs>> /\ pc # "returned" /\ pc' # "returned"
    <3>1. outcome = "none" /\ outcome' = "none"
      BY <1>2, <2>3 DEF IInv, OutcomeInv
    <3> QED BY <2>3, <3>1 DEF Contract!vars, inputs
  <2>4. CASE UNCHANGED vars
    BY <2>4 DEF vars, inputs, Contract!vars
  <2>5. \/ Cancel \/ UNCHANGED vars
        \/ pc # "returned" /\ UNCHANGED <<cancelled, inputs>>
    BY <1>2, StepNames
       DEF Next, LocalStep, Await, Awaits, Lookup, LoopHead, DialBegin, DialEnd, HandshakeStep,
           Attempted, Delay, Decide, Done
  <2> QED BY <2>1, <2>2, <2>3, <2>4, <2>5
<1> QED BY <1>1, <1>2, InvCorrect, PTL DEF Spec, ImplementsTcpCall, Contract!Spec
-----------------------------------------------------------------------------
(* How long a call can be. *)

\* How many times the loop may turn.
Turns == IF retries < 0 THEN 0 ELSE retries + 1

\* The steps from a place to the end of its turn; both handshakes go downwards.
Remaining ==
  [s \in HandshakeSteps \cup {"lookup", "loop", "dial", "dialing", "attempted", "delay",
                             "decide", "returned"} |->
     CASE s = "lookup"                           -> 14
       [] s = "loop"                             -> 13
       [] s = "dial"                             -> 12
       [] s = "dialing"                          -> 11
       [] s = "checkAddress"                     -> 10
       [] s = "writeGreeting"                    -> 9
       [] s \in {"buildRequest", "readMethod"}   -> 8
       [] s \in {"writeRequest", "writeConnect"} -> 7
       [] s \in {"readResponse", "readReply"}    -> 6
       [] s \in {"closeBody", "readLength"}      -> 5
       [] s \in {"checkStatus", "readAddress"}   -> 4
       [] s = "attempted"                        -> 3
       [] s = "delay"                            -> 2
       [] s = "decide"                           -> 1
       [] OTHER                                  -> 0]

\* A turn back to the head of the loop is paid for by one of the turns left.
StepsLeft == (IF cancelled THEN 0 ELSE 1) + 12 * (Turns - attempt) + Remaining[pc]

MaxSteps == 15 + 12 * Turns

LEMMA StepsType == ASSUME IInv PROVE StepsLeft \in Nat
<1>1. Turns \in Nat /\ attempt \in Nat /\ Turns - attempt \in Nat
  BY TcpAssumption DEF IInv, TypeOK, Turns
<1>2. Remaining[pc] \in Nat
  BY StepNames DEF IInv, TypeOK, Remaining
<1> QED BY <1>1, <1>2 DEF StepsLeft

\* A handshake step leads to one that is nearer to the end of the attempt.
LEMMA HandshakeCloser ==
  ASSUME NEW s \in HandshakeSteps, HandshakeStep(s)
  PROVE  /\ Remaining[pc'] < Remaining[pc]
         /\ Remaining[pc] \in Nat /\ Remaining[pc'] \in Nat
<1>1. pc = s
  BY DEF HandshakeStep
<1>2. CASE pc' = "attempted"
  BY <1>1, <1>2, StepNames DEF Remaining
<1>3. CASE pc' # "attempted"
  <2>1. pc' \in After[s] /\ pc' # "done"
    BY <1>3 DEF HandshakeStep
  <2> QED BY <1>1, <2>1, StepNames DEF After, Remaining
<1> QED BY <1>2, <1>3

LEMMA StepsFall == ASSUME IInv, [Next]_vars, ~UNCHANGED vars PROVE StepsLeft' < StepsLeft
<1>1. /\ Turns \in Nat /\ attempt \in Nat /\ Turns - attempt \in Nat
      /\ cancelled \in BOOLEAN
  BY TcpAssumption DEF IInv, TypeOK, Turns
<1>2. CASE Cancel
  <2>1. Turns' = Turns /\ attempt' = attempt /\ pc' = pc
    BY <1>2 DEF Cancel, Turns, inputs
  <2>2. Remaining[pc] \in Nat
    BY StepNames DEF IInv, TypeOK, Remaining
  <2> QED BY <1>1, <1>2, <2>1, <2>2 DEF Cancel, StepsLeft
<1>3. ASSUME UNCHANGED <<cancelled, inputs>>,
             \/ attempt' = attempt /\ Remaining[pc'] < Remaining[pc]
             \/ attempt' = attempt + 1 /\ Remaining[pc'] < Remaining[pc] + 12,
             Remaining[pc] \in Nat, Remaining[pc'] \in Nat
      PROVE  StepsLeft' < StepsLeft
  <2>1. Turns' = Turns
    BY <1>3 DEF Turns, inputs
  <2> QED BY <1>1, <1>3, <2>1 DEF StepsLeft
<1>4. CASE \E s \in HandshakeSteps : HandshakeStep(s)
  <2>1. PICK s \in HandshakeSteps : HandshakeStep(s)
    BY <1>4
  <2>2. UNCHANGED <<cancelled, inputs>> /\ attempt' = attempt
    BY <2>1 DEF HandshakeStep
  <2> QED BY <1>3, <2>1, <2>2, HandshakeCloser
<1>5. CASE Lookup \/ LoopHead \/ DialBegin \/ Decide
  <2>1. UNCHANGED <<cancelled, inputs>> /\ attempt' = attempt
    BY <1>5 DEF Lookup, LoopHead, DialBegin, Decide
  <2>2. \/ pc = "lookup" /\ pc' \in {"loop", "returned"}
        \/ pc = "loop" /\ pc' \in {"decide", "dial", "returned"}
        \/ pc = "dial" /\ pc' \in {"attempted", "dialing"}
        \/ pc = "decide" /\ pc' = "returned"
    BY <1>5 DEF Lookup, LoopHead, DialBegin, Decide, ReturnWith
  <2>3. Remaining[pc'] < Remaining[pc] /\ Remaining[pc] \in Nat /\ Remaining[pc'] \in Nat
    BY <2>2, StepNames DEF Remaining
  <2> QED BY <1>3, <2>1, <2>3
<1>6. CASE DialEnd
  <2>1. UNCHANGED <<cancelled, inputs>> /\ attempt' = attempt
    BY <1>6 DEF DialEnd
  <2>2. pc = "dialing" /\ pc' \in {"attempted", "checkAddress", "buildRequest"}
    BY <1>6 DEF DialEnd, FirstStep
  <2>3. Remaining[pc'] < Remaining[pc] /\ Remaining[pc] \in Nat /\ Remaining[pc'] \in Nat
    BY <2>2, StepNames DEF Remaining
  <2> QED BY <1>3, <2>1, <2>3
<1>7. CASE Attempted \/ Delay
  <2>1. UNCHANGED <<cancelled, inputs>>
    BY <1>7 DEF Attempted, Delay
  <2>2. \/ attempt' = attempt /\ pc = "attempted" /\ pc' \in {"decide", "delay"}
        \/ attempt' = attempt /\ pc = "delay" /\ pc' = "returned"
        \/ attempt' = attempt + 1 /\ pc \in {"attempted", "delay"} /\ pc' = "loop"
    BY <1>7 DEF Attempted, Delay, ReturnWith
  <2>3. /\ Remaining["attempted"] = 3 /\ Remaining["delay"] = 2 /\ Remaining["decide"] = 1
        /\ Remaining["returned"] = 0 /\ Remaining["loop"] = 13
    BY StepNames DEF Remaining
  <2> QED BY <1>3, <2>1, <2>2, <2>3
<1> QED
  BY <1>2, <1>4, <1>5, <1>6, <1>7, StepNames DEF Next, LocalStep, Await, Awaits, Done

\* A call goes on for at most 12 steps for each dial its retry count allows and 15 more,
\* for any retry count: whatever the resolver, the network and the proxy answer, it
\* cannot turn in its loop or in a handshake, so a call that does not return waits for a
\* proxy (tcp.go:45-194).
THEOREM BoundedTheorem == Spec => /\ [](StepsLeft \in 0..MaxSteps)
                                  /\ [][StepsLeft' < StepsLeft]_vars
<1>1. Init => StepsLeft \in 0..MaxSteps
  <2> SUFFICES ASSUME Init PROVE StepsLeft \in 0..MaxSteps
    OBVIOUS
  <2>1. Turns \in Nat
    BY TcpAssumption DEF Init, Turns
  <2>2. Remaining[pc] = 14
    BY StepNames DEF Init, Remaining
  <2> QED BY <2>1, <2>2 DEF Init, StepsLeft, MaxSteps
<1>2. IInv => StepsLeft \in Nat
  BY StepsType
<1>3. ASSUME IInv, [Next]_vars, StepsLeft \in 0..MaxSteps, (StepsLeft \in Nat)'
      PROVE  (StepsLeft \in 0..MaxSteps)'
  <2>1. CASE UNCHANGED vars
    <3>1. StepsLeft' = StepsLeft /\ MaxSteps' = MaxSteps
      BY <2>1 DEF vars, inputs, StepsLeft, MaxSteps, Turns
    <3> QED BY <1>3, <2>1, <3>1
  <2>2. CASE ~UNCHANGED vars
    <3>1. StepsLeft' < StepsLeft
      BY <1>3, <2>2, StepsFall
    <3>2. retries' = retries
      BY <1>3, StepNames
         DEF Next, LocalStep, Await, Awaits, Cancel, Lookup, LoopHead, DialBegin, DialEnd,
             HandshakeStep, Attempted, Delay, Decide, Done, vars, inputs
    <3>3. MaxSteps' = MaxSteps /\ MaxSteps \in Nat
      BY <1>3, <3>2, TcpAssumption DEF MaxSteps, Turns, IInv, TypeOK
    <3> QED BY <1>3, <3>1, <3>3
  <2> QED BY <2>1, <2>2
<1>4. IInv /\ [Next]_vars => [StepsLeft' < StepsLeft]_vars
  BY StepsFall
<1> QED BY <1>1, <1>2, <1>3, <1>4, InvCorrect, PTL DEF Spec
=============================================================================
