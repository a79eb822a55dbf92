------------------------------- MODULE Batch -------------------------------
(***************************************************************************)
(* What one call of RunDiagnostics (runner.go) promises to its caller, with *)
(* no worker, channel or collector in sight: every target owns one slot,    *)
(* slots are filled one at a time with a result of their own target, the    *)
(* caller may ask for the batch to stop, and one answer is handed back.     *)
(*                                                                         *)
(* RunDiagnostics.tla implements this specification; Cli.tla uses it as the *)
(* batch the program waits for.                                            *)
(***************************************************************************)
EXTENDS Integers, Sequences, FiniteSets

CONSTANTS NumTargets,   \* length of the target list (targets are numbered from 1)
          Outcomes      \* what probing one target can find

ASSUME BatchAssumption == /\ NumTargets \in Nat \ {0}
                          /\ "zero" \notin Outcomes

Targets == 1..NumTargets

\* A TargetResult is abstracted to the target it is about and what was found.
Result == [target: Targets, outcome: Outcomes]

\* The zero value a slot of `results` is allocated with.
ZeroResult == [target |-> 0, outcome |-> "zero"]

VARIABLES slots,     \* one entry per target, in input order
          stopped,   \* the context has been cancelled
          returned,  \* the call has returned
          answer     \* the slice it returned

vars == <<slots, stopped, returned, answer>>

ResultOf(i) == {r \in Result : r.target = i}

Filled == {i \in Targets : slots[i] # ZeroResult}

Init == /\ slots = [i \in Targets |-> ZeroResult]
        /\ stopped = FALSE
        /\ returned = FALSE
        /\ answer = <<>>

\* A result reaches the slot of its own target, at most once per target.
Deliver(i) == /\ ~returned
              /\ slots[i] = ZeroResult
              /\ \E r \in ResultOf(i) : slots' = [slots EXCEPT ![i] = r]
              /\ UNCHANGED <<stopped, returned, answer>>

Stop == /\ ~stopped
        /\ stopped' = TRUE
        /\ UNCHANGED <<slots, returned, answer>>

\* A batch that was not stopped answers with every slot filled; one that was
\* stopped answers with as many leading slots as results were delivered.
Return == /\ ~returned
          /\ stopped \/ Filled = Targets
          /\ returned' = TRUE
          /\ answer' = SubSeq(slots, 1, Cardinality(Filled))
          /\ UNCHANGED <<slots, stopped>>

Next == (\E i \in Targets : Deliver(i)) \/ Stop \/ Return

Spec == Init /\ [][Next]_vars

\* A batch that was asked to stop does return.
FairSpec == Spec /\ WF_vars(stopped /\ Return)
=============================================================================
