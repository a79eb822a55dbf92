------------------------------- MODULE TcpCall -------------------------------
(***************************************************************************)
(* What TCP (probes/tcp.go:43-94) promises its caller: one open socket, or   *)
(* an error and no socket, and only an error when it is called with a context *)
(* that is already cancelled.  A call that is asked for no attempt may also   *)
(* return neither.  TcpProbe.tla implements it; the Dial step of              *)
(* ExecuteTarget.tla relies on it for a retry count that is not negative.     *)
(***************************************************************************)
EXTENDS Naturals

VARIABLES
  cancelled,   \* ctx.Done() is closed
  doomed,      \* it was when the call was made
  idle,        \* the call is asked for no attempt
  outcome,     \* "none" until the call returns, then "conn", "error" or "nothing"
  sockets      \* sockets the call leaves open when it returns

vars == <<cancelled, doomed, idle, outcome, sockets>>

Init == /\ cancelled \in BOOLEAN
        /\ doomed = cancelled
        /\ idle \in BOOLEAN
        /\ outcome = "none"
        /\ sockets = 0

Cancel == /\ ~cancelled
          /\ cancelled' = TRUE
          /\ UNCHANGED <<doomed, idle, outcome, sockets>>

\* The dial wins against a cancellation that comes while it is made.
Succeed == /\ outcome = "none" /\ ~doomed /\ ~idle
           /\ outcome' = "conn"
           /\ sockets' = 1
           /\ UNCHANGED <<cancelled, doomed, idle>>

Fail == /\ outcome = "none"
        /\ outcome' = "error"
        /\ UNCHANGED <<cancelled, doomed, idle, sockets>>

\* No attempt, no error and no socket.
ReturnNothing == /\ outcome = "none" /\ idle
                 /\ outcome' = "nothing"
                 /\ UNCHANGED <<cancelled, doomed, idle, sockets>>

Next == Cancel \/ Succeed \/ Fail \/ ReturnNothing

Spec == Init /\ [][Next]_vars
=============================================================================
