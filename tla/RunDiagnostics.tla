--------------------------- MODULE RunDiagnostics ---------------------------
(***************************************************************************)
(* RunDiagnostics (runner.go:134-215): the goroutines of one batch.         *)
(*                                                                         *)
(*   feeder    sends the index of every target on targetChan, then closes   *)
(*   workers   take an index, poll the context, call ExecuteTarget, send     *)
(*             the indexed result on resultChan                             *)
(*   closer    waits for all the workers, then closes resultChan            *)
(*   collector (the caller) stores each result in the slot of its index      *)
(*             until resultChan is closed, then returns                     *)
(*                                                                         *)
(* A context shared by all of them may be cancelled at any moment.  Where    *)
(* a Go select has several ready cases the model may take any of them.       *)
(* Targets are numbered from 1 here and from 0 in the code.  A call with no  *)
(* target returns at line 140 before any goroutine exists and is outside     *)
(* the model (NumTargets > 0).                                             *)
(***************************************************************************)
EXTENDS Integers, Sequences, FiniteSets

CONSTANTS NumTargets,         \* len(targets)
          ConfigWorkers,      \* cfg.Workers, any integer a flag can hold
          MaxChannelBuffer,   \* maxChannelBuffer
          Outcomes            \* what ExecuteTarget can find about a target

ASSUME RunAssumption == /\ NumTargets \in Nat \ {0}
                        /\ ConfigWorkers \in Int
                        /\ MaxChannelBuffer \in Nat \ {0}
                        /\ "zero" \notin Outcomes

Targets == 1..NumTargets

BufSize == IF NumTargets > MaxChannelBuffer THEN MaxChannelBuffer ELSE NumTargets

\* More workers than targets are not started, and never fewer than one.
NumWorkers == LET capped == IF ConfigWorkers > NumTargets THEN NumTargets ELSE ConfigWorkers
              IN  IF capped < 1 THEN 1 ELSE capped

Workers == 1..NumWorkers

Result == [target: Targets, outcome: Outcomes]

ZeroResult == [target |-> 0, outcome |-> "zero"]

IndexedResult == [index: Targets, result: Result]

VARIABLES
  cancelled,      \* ctx.Done() is closed
  next,           \* feeder: the index it is about to send
  targetChan,     \* buffered channel of target indices
  targetClosed,   \* close(targetChan) was called
  pc,             \* pc[w]: where worker w is in its loop
  held,           \* held[w]: the index worker w took from targetChan last
  found,          \* found[w]: what its last ExecuteTarget returned
  resultChan,     \* buffered channel of indexed results
  resultClosed,   \* close(resultChan) was called
  results,        \* collector: one slot per target
  received,       \* collector: how many results it stored
  returned,       \* RunDiagnostics has returned
  answer          \* the slice it returned

feederVars == <<next, targetClosed>>
workerVars == <<pc, held, found>>
collectorVars == <<results, received, returned, answer>>
vars == <<cancelled, feederVars, targetChan, workerVars, resultChan, resultClosed,
          collectorVars>>

Init == /\ cancelled = FALSE
        /\ next = 1
        /\ targetChan = <<>>
        /\ targetClosed = FALSE
        /\ pc = [w \in Workers |-> "receive"]
        /\ held = [w \in Workers |-> 0]
        /\ found = [w \in Workers |-> ZeroResult]
        /\ resultChan = <<>>
        /\ resultClosed = FALSE
        /\ results = [i \in Targets |-> ZeroResult]
        /\ received = 0
        /\ returned = FALSE
        /\ answer = <<>>

-----------------------------------------------------------------------------
(* The caller's context. *)

Cancel == /\ ~cancelled
          /\ cancelled' = TRUE
          /\ UNCHANGED <<feederVars, targetChan, workerVars, resultChan, resultClosed,
                         collectorVars>>

-----------------------------------------------------------------------------
(* Feeder. *)

\* Mutant: the feeder's loop runs one index too far.
FeedSendPastEnd == /\ ~targetClosed
                   /\ next <= NumTargets + 1
                   /\ Len(targetChan) < BufSize
                   /\ targetChan' = Append(targetChan, next)
                   /\ next' = next + 1
                   /\ UNCHANGED <<cancelled, targetClosed, workerVars, resultChan, resultClosed,
                                  collectorVars>>

FeedSend == /\ ~targetClosed
            /\ next <= NumTargets
            /\ Len(targetChan) < BufSize
            /\ targetChan' = Append(targetChan, next)
            /\ next' = next + 1
            /\ UNCHANGED <<cancelled, targetClosed, workerVars, resultChan, resultClosed,
                           collectorVars>>

\* Mutant: the feeder does not select on the context.
FeedCloseAtEndOnly == /\ ~targetClosed
                      /\ next > NumTargets
                      /\ targetClosed' = TRUE
                      /\ UNCHANGED <<cancelled, next, targetChan, workerVars, resultChan,
                                     resultClosed, collectorVars>>

\* Closing after the last target, or on the cancelled case of the select.
FeedClose == /\ ~targetClosed
             /\ next > NumTargets \/ cancelled
             /\ targetClosed' = TRUE
             /\ UNCHANGED <<cancelled, next, targetChan, workerVars, resultChan,
                            resultClosed, collectorVars>>

-----------------------------------------------------------------------------
(* Workers. *)

Goto(w, from, to) == pc[w] = from /\ pc' = [pc EXCEPT ![w] = to]

\* Mutant: the index is read without being taken.
ReceivePeek(w) == /\ targetChan # <<>>
                  /\ Goto(w, "receive", "poll")
                  /\ held' = [held EXCEPT ![w] = Head(targetChan)]
                  /\ UNCHANGED <<cancelled, feederVars, targetChan, found, resultChan,
                                 resultClosed, collectorVars>>

Receive(w) == /\ targetChan # <<>>
              /\ Goto(w, "receive", "poll")
              /\ held' = [held EXCEPT ![w] = Head(targetChan)]
              /\ targetChan' = Tail(targetChan)
              /\ UNCHANGED <<cancelled, feederVars, found, resultChan, resultClosed,
                             collectorVars>>

\* Mutant: a plain receive in an endless loop, which a closed channel never ends.
ReceiveClosedForever(w) == /\ targetClosed /\ targetChan = <<>>
                           /\ Goto(w, "receive", "receive")
                           /\ UNCHANGED <<cancelled, feederVars, targetChan, held, found,
                                          resultChan, resultClosed, collectorVars>>

\* The range loop ends: the channel is closed and drained.
ReceiveClosed(w) == /\ targetClosed /\ targetChan = <<>>
                    /\ Goto(w, "receive", "exited")
                    /\ UNCHANGED <<cancelled, feederVars, targetChan, held, found, resultChan,
                                   resultClosed, collectorVars>>

\* The non-blocking select of line 180: the index is dropped when cancelled.
Poll(w) == /\ IF cancelled THEN Goto(w, "poll", "exited") ELSE Goto(w, "poll", "execute")
           /\ UNCHANGED <<cancelled, feederVars, targetChan, held, found, resultChan,
                          resultClosed, collectorVars>>

Execute(w) == /\ Goto(w, "execute", "send")
              /\ \E o \in Outcomes :
                   found' = [found EXCEPT ![w] = [target |-> held[w], outcome |-> o]]
              /\ UNCHANGED <<cancelled, feederVars, targetChan, held, resultChan,
                             resultClosed, collectorVars>>

Send(w) == /\ Len(resultChan) < BufSize
           /\ Goto(w, "send", "receive")
           /\ resultChan' = Append(resultChan, [index |-> held[w], result |-> found[w]])
           /\ UNCHANGED <<cancelled, feederVars, targetChan, held, found, resultClosed,
                          collectorVars>>

\* The cancelled case of the second select: a finished result is thrown away.
Abandon(w) == /\ cancelled
              /\ Goto(w, "send", "exited")
              /\ UNCHANGED <<cancelled, feederVars, targetChan, held, found, resultChan,
                             resultClosed, collectorVars>>

-----------------------------------------------------------------------------
(* Closer. *)

\* Mutant: the closer waits for one worker only.
CloseResultsEarly == /\ ~resultClosed
                     /\ \E w \in Workers : pc[w] = "exited"
                     /\ resultClosed' = TRUE
                     /\ UNCHANGED <<cancelled, feederVars, targetChan, workerVars, resultChan,
                                    collectorVars>>

CloseResults == /\ ~resultClosed
                /\ \A w \in Workers : pc[w] = "exited"
                /\ resultClosed' = TRUE
                /\ UNCHANGED <<cancelled, feederVars, targetChan, workerVars, resultChan,
                               collectorVars>>

-----------------------------------------------------------------------------
(* Collector. *)

\* Mutants: results are stored in the order they arrive; one is not counted; a
\* slot is reused by the neighbour of its target.
CollectAppend ==
  /\ resultChan # <<>>
  /\ results' = [results EXCEPT ![received + 1] = Head(resultChan).result]
  /\ received' = received + 1
  /\ resultChan' = Tail(resultChan)
  /\ UNCHANGED <<cancelled, feederVars, targetChan, workerVars, resultClosed, returned, answer>>

CollectUncounted ==
  /\ resultChan # <<>>
  /\ results' = [results EXCEPT ![Head(resultChan).index] = Head(resultChan).result]
  /\ resultChan' = Tail(resultChan)
  /\ UNCHANGED <<cancelled, feederVars, targetChan, workerVars, resultClosed, received, returned,
                 answer>>

CollectShared ==
  /\ resultChan # <<>>
  /\ results' = [results EXCEPT ![(Head(resultChan).index + 1) \div 2] = Head(resultChan).result]
  /\ received' = received + 1
  /\ resultChan' = Tail(resultChan)
  /\ UNCHANGED <<cancelled, feederVars, targetChan, workerVars, resultClosed, returned, answer>>

Collect == /\ resultChan # <<>>
           /\ results' = [results EXCEPT ![Head(resultChan).index] = Head(resultChan).result]
           /\ received' = received + 1
           /\ resultChan' = Tail(resultChan)
           /\ UNCHANGED <<cancelled, feederVars, targetChan, workerVars, resultClosed,
                          returned, answer>>

\* Mutant: the answer is never trimmed.
TrimmedNever == results

\* `results[:received]` when fewer results than targets arrived.
Trimmed == IF received < NumTargets THEN SubSeq(results, 1, received) ELSE results

\* Mutant: the collector stops at the first empty channel.
ReturnWhenEmpty == /\ ~returned
                   /\ resultChan = <<>>
                   /\ returned' = TRUE
                   /\ answer' = Trimmed
                   /\ UNCHANGED <<cancelled, feederVars, targetChan, workerVars, resultChan,
                                  resultClosed, results, received>>

Return == /\ ~returned
          /\ resultClosed /\ resultChan = <<>>
          /\ returned' = TRUE
          /\ answer' = Trimmed
          /\ UNCHANGED <<cancelled, feederVars, targetChan, workerVars, resultChan,
                         resultClosed, results, received>>

-----------------------------------------------------------------------------
(* The call has returned: its caller asks for nothing more. *)
Done == returned /\ UNCHANGED vars

WorkerSteps(w) == \/ Receive(w) \/ ReceiveClosed(w) \/ Poll(w)
                  \/ Execute(w) \/ Send(w) \/ Abandon(w)

Next == \/ Cancel
        \/ FeedSend \/ FeedClose
        \/ \E w \in Workers : WorkerSteps(w)
        \/ CloseResults
        \/ Collect \/ Return
        \/ Done

Spec == Init /\ [][Next]_vars

\* The Go scheduler runs every goroutine that can run.  The environment need
\* not cancel, and a probe ends at least once its context is cancelled.
PoolFairness == /\ WF_vars(FeedSend \/ FeedClose)
                /\ WF_vars(CloseResults)
                /\ WF_vars(Collect \/ Return)
                /\ \A w \in Workers :
                     WF_vars(Receive(w) \/ ReceiveClosed(w) \/ Poll(w) \/ Send(w) \/ Abandon(w))

PromptCancelSpec == Spec /\ PoolFairness
                         /\ \A w \in Workers : WF_vars(cancelled /\ Execute(w))

-----------------------------------------------------------------------------
(* Properties. *)

ResultOf(i) == {r \in Result : r.target = i}

Filled == {i \in Targets : results[i] # ZeroResult}

\* Every variable stays in its type: queues hold target indices and indexed
\* results, every slot holds the zero value or a result.
TypeOK ==
  /\ cancelled \in BOOLEAN
  /\ next \in 1..NumTargets + 1
  /\ targetChan \in Seq(Targets)
  /\ targetClosed \in BOOLEAN
  /\ pc \in [Workers -> {"receive", "poll", "execute", "send", "exited"}]
  /\ held \in [Workers -> Targets \cup {0}]
  /\ found \in [Workers -> Result \cup {ZeroResult}]
  /\ resultChan \in Seq(IndexedResult)
  /\ resultClosed \in BOOLEAN
  /\ results \in [Targets -> Result \cup {ZeroResult}]
  /\ received \in Nat
  /\ returned \in BOOLEAN
  /\ answer \in Seq(Result \cup {ZeroResult})

\* The answer is in input order whatever order the workers finish in: position
\* i holds a result of target i, or the zero value (runner.go:21, 133).
OrderPreserved == /\ \A i \in Targets : results[i] \in ResultOf(i) \cup {ZeroResult}
                  /\ \A i \in DOMAIN answer :
                       i \in Targets /\ answer[i] \in ResultOf(i) \cup {ZeroResult}

\* A batch nobody cancelled answers for every target: no result is lost between
\* the workers, the two channels and the collector, whatever the buffer size.
AnswerComplete == returned /\ ~cancelled =>
                    /\ Len(answer) = NumTargets
                    /\ \A i \in Targets : answer[i] \in ResultOf(i)

\* The places a target's index can be in: waiting in targetChan, with a worker,
\* in flight in resultChan, stored.
Busy(w) == pc[w] \in {"poll", "execute", "send"}

Places(i) ==
       {<<"waiting", k>> : k \in {j \in DOMAIN targetChan : targetChan[j] = i}}
  \cup {<<"working", w>> : w \in {v \in Workers : Busy(v) /\ held[v] = i}}
  \cup {<<"inFlight", k>> : k \in {j \in DOMAIN resultChan : resultChan[j].index = i}}
  \cup {<<"stored", k>> : k \in {j \in Filled : j = i}}

\* No target is probed or stored twice, and until a cancellation no target that
\* was fed is dropped: its index is in exactly one place.
EachTargetOnce == \A i \in Targets :
                    /\ \A p, q \in Places(i) : p = q
                    /\ Places(i) # {} => i < next
                    /\ ~cancelled /\ i < next => Places(i) # {}

\* The counter the trim relies on counts exactly the filled slots.
ReceivedExact == received = Cardinality(Filled)

\* Once a channel is closed nothing is sent on it (Go would panic).
ClosedMeansNoSend == [][ /\ targetClosed => Len(targetChan') <= Len(targetChan)
                         /\ resultClosed => Len(resultChan') <= Len(resultChan) ]_vars

\* A stored result is never overwritten or erased by a later one.
SlotsWrittenOnce == [][ \A i \in Filled : results'[i] = results[i] ]_vars

\* Every probe ends, cancelled or not: what -timeout is meant to bring about.
ProbesEnd == \A w \in Workers : WF_vars(Execute(w))

\* Then every batch returns, although both channels may be full in between.
BatchReturns == ProbesEnd => <>returned

\* No goroutine outlives the batch for ever: the feeder ends too, although the
\* caller does not wait for it.
NothingLeftRunning == returned ~> (targetClosed /\ \A w \in Workers : pc[w] = "exited")

\* The pool keeps the promise Batch states to the caller; a call that is cancelled
\* returns, provided the probes in progress end, is a part of it.
B == INSTANCE Batch WITH slots <- results, stopped <- cancelled

ImplementsBatch == B!FairSpec

\* "If cancelled early, trim to received results" (runner.go:209): the answer
\* would hold the results that were received, all of them and nothing else.
TrimKeepsReceived ==
  returned => {answer[k] : k \in DOMAIN answer} = {results[i] : i \in Filled}
=============================================================================
