------------------------------ MODULE TcpProbe ------------------------------
(***************************************************************************)
(* TCP, DialViaProxy and socks5Handshake (probes/tcp.go): one call of TCP.   *)
(*                                                                         *)
(* The call resolves the host, then dials up to retries + 1 times, directly  *)
(* or through a proxy; through a proxy a dial is followed by the handshake   *)
(* of the proxy's protocol on the connected socket.  The context may be      *)
(* cancelled at any moment.  The network, the resolver and the proxy are the  *)
(* environment: every step that depends on them may succeed or fail, and a   *)
(* read from the proxy may also never end.                                  *)
(***************************************************************************)
EXTENDS Integers, FiniteSets

CONSTANTS RetryCounts,  \* what the retries argument may be (Config.Retries, an int)
          Routes        \* which of "direct", "connect" and "socks" a call may use

ASSUME TcpAssumption == /\ RetryCounts \subseteq Int
                        /\ Routes \subseteq {"direct", "connect", "socks"}

\* The steps of each proxy handshake and what each may be followed by.  The
\* SOCKS5 reply says whether an address follows, and a domain name is preceded
\* by its length; a reply with an unknown address type ends the handshake.
After ==
  [s \in {"buildRequest", "writeRequest", "readResponse", "closeBody", "checkStatus",
          "checkAddress", "writeGreeting", "readMethod", "writeConnect", "readReply",
          "readLength", "readAddress"} |->
     CASE s = "buildRequest"  -> {"writeRequest"}
       [] s = "writeRequest"  -> {"readResponse"}
       [] s = "readResponse"  -> {"closeBody"}
       [] s = "closeBody"     -> {"checkStatus"}
       [] s = "checkAddress"  -> {"writeGreeting"}
       [] s = "writeGreeting" -> {"readMethod"}
       [] s = "readMethod"    -> {"writeConnect"}
       [] s = "writeConnect"  -> {"readReply"}
       [] s = "readReply"     -> {"readLength", "readAddress", "done"}
       [] s = "readLength"    -> {"readAddress"}
       [] OTHER                -> {"done"}]

HandshakeSteps == DOMAIN After

FirstStep(r) == IF r = "socks" THEN "checkAddress" ELSE "buildRequest"

\* The steps that wait for bytes from the proxy.  No deadline is set on the
\* socket and the context is not consulted while they wait; closing the body of
\* a CONNECT response reads what is left of it.
Awaits == {"readResponse", "closeBody", "readMethod", "readReply", "readLength",
           "readAddress"}

VARIABLES
  cancelled,   \* ctx.Done() is closed
  route,       \* what proxyAddr and proxyType ask for
  retries,     \* the retries argument
  doomed,      \* history: the context was cancelled before the call
  pc,          \* where the call is
  attempt,     \* the loop variable i
  err,         \* the variable err holds an error
  open,        \* sockets this call has opened and not closed
  conn,        \* the variable conn holds a socket
  outcome,     \* "none" until the call returns, then what it returned
  dials,       \* history: dials begun
  late         \* history: dials begun after the cancellation

inputs == <<route, retries, doomed>>
vars == <<cancelled, inputs, pc, attempt, err, open, conn, outcome, dials, late>>

Init == /\ cancelled \in BOOLEAN
        /\ route \in Routes
        /\ retries \in RetryCounts
        /\ doomed = cancelled
        /\ pc = "lookup"
        /\ attempt = 0
        /\ err = FALSE
        /\ open = 0
        /\ conn = FALSE
        /\ outcome = "none"
        /\ dials = 0
        /\ late = 0

-----------------------------------------------------------------------------

Cancel == /\ ~cancelled
          /\ cancelled' = TRUE
          /\ UNCHANGED <<inputs, pc, attempt, err, open, conn, outcome, dials, late>>

ReturnWith(o) == pc' = "returned" /\ outcome' = o

\* LookupHost runs whether or not a proxy is used; its failure only matters
\* without one, but through one it stays in err.  An address needs no lookup, so
\* it may succeed although the context is cancelled.
Lookup == /\ pc = "lookup"
          /\ \E failed \in BOOLEAN :
               /\ err' = failed
               /\ IF failed /\ route = "direct"
                    THEN ReturnWith("dnsError")
                    ELSE pc' = "loop" /\ UNCHANGED outcome
          /\ UNCHANGED <<cancelled, inputs, attempt, open, conn, dials, late>>

\* Mutants: one attempt too many; no poll of the context.
LoopHeadExtra ==
  /\ pc = "loop"
  /\ \/ attempt > retries + 1 /\ pc' = "decide" /\ UNCHANGED outcome
     \/ attempt <= retries + 1 /\ cancelled /\ ReturnWith("cancelled")
     \/ attempt <= retries + 1 /\ ~cancelled /\ pc' = "dial" /\ UNCHANGED outcome
  /\ UNCHANGED <<cancelled, inputs, attempt, err, open, conn, dials, late>>

LoopHeadNoPoll ==
  /\ pc = "loop"
  /\ pc' = IF attempt > retries THEN "decide" ELSE "dial"
  /\ UNCHANGED <<cancelled, inputs, attempt, err, open, conn, outcome, dials, late>>

\* The head of the for loop and the poll that follows it.
LoopHead == /\ pc = "loop"
            /\ \/ attempt > retries /\ pc' = "decide" /\ UNCHANGED outcome
               \/ attempt <= retries /\ cancelled /\ ReturnWith("cancelled")
               \/ attempt <= retries /\ ~cancelled /\ pc' = "dial" /\ UNCHANGED outcome
            /\ UNCHANGED <<cancelled, inputs, attempt, err, open, conn, dials, late>>

\* DialContext begins; a context that is already cancelled makes it fail.
DialBegin == /\ pc = "dial"
             /\ dials' = dials + 1
             /\ late' = IF cancelled THEN late + 1 ELSE late
             /\ IF cancelled THEN pc' = "attempted" /\ err' = TRUE
                             ELSE pc' = "dialing" /\ UNCHANGED err
             /\ UNCHANGED <<cancelled, inputs, attempt, open, conn, outcome>>

\* It ends within its timeout, with a socket or without.
DialEnd == /\ pc = "dialing"
           /\ \/ /\ open' = open + 1
                 /\ IF route = "direct"
                      THEN pc' = "attempted" /\ conn' = TRUE /\ err' = FALSE
                      ELSE pc' = FirstStep(route) /\ UNCHANGED <<conn, err>>
              \/ /\ pc' = "attempted" /\ err' = TRUE /\ conn' = FALSE
                 /\ UNCHANGED open
           /\ UNCHANGED <<cancelled, inputs, attempt, outcome, dials, late>>

\* Mutants: an error returns without closing the socket; a failed step starts the
\* handshake over on the same socket.
HandshakeStepLeaks(s) ==
  /\ pc = s
  /\ \/ \E t \in After[s] :
          IF t = "done" THEN pc' = "attempted" /\ conn' = TRUE /\ err' = FALSE
                        ELSE pc' = t /\ UNCHANGED <<conn, err>>
     \/ pc' = "attempted" /\ conn' = FALSE /\ err' = TRUE
  /\ UNCHANGED <<cancelled, inputs, attempt, open, outcome, dials, late>>

HandshakeStepRestarts(s) ==
  /\ pc = s
  /\ \/ \E t \in After[s] :
          IF t = "done" THEN pc' = "attempted" /\ conn' = TRUE /\ err' = FALSE
                        ELSE pc' = t /\ UNCHANGED <<conn, err>>
     \/ pc' = FirstStep(route) /\ UNCHANGED <<conn, err>>
  /\ UNCHANGED <<cancelled, inputs, attempt, open, outcome, dials, late>>

\* One step of the proxy handshake: on to the next one, or an error that closes
\* the socket (closeConnWithError).
HandshakeStep(s) ==
  /\ pc = s
  /\ \/ \E t \in After[s] :
          IF t = "done" THEN pc' = "attempted" /\ conn' = TRUE /\ err' = FALSE /\ UNCHANGED open
                        ELSE pc' = t /\ UNCHANGED <<conn, err, open>>
     \/ pc' = "attempted" /\ conn' = FALSE /\ err' = TRUE /\ open' = open - 1
  /\ UNCHANGED <<cancelled, inputs, attempt, outcome, dials, late>>

\* Mutant: both the loop and its body advance the counter.
AttemptedTwice ==
  /\ pc = "attempted"
  /\ IF ~err THEN pc' = "decide" /\ UNCHANGED attempt
     ELSE IF attempt < retries THEN pc' = "delay" /\ UNCHANGED attempt
     ELSE pc' = "loop" /\ attempt' = attempt + 2
  /\ UNCHANGED <<cancelled, inputs, err, open, conn, outcome, dials, late>>

\* After an attempt: out of the loop on success, through the delay unless this
\* was the last one.
Attempted == /\ pc = "attempted"
             /\ IF ~err THEN pc' = "decide" /\ UNCHANGED attempt
                ELSE IF attempt < retries THEN pc' = "delay" /\ UNCHANGED attempt
                ELSE pc' = "loop" /\ attempt' = attempt + 1
             /\ UNCHANGED <<cancelled, inputs, err, open, conn, outcome, dials, late>>

\* Mutant: the cancelled case of the select goes back to waiting.
DelayWaits == /\ pc = "delay"
              /\ IF cancelled THEN UNCHANGED <<pc, attempt>>
                              ELSE pc' = "loop" /\ attempt' = attempt + 1
              /\ UNCHANGED <<cancelled, inputs, err, open, conn, outcome, dials, late>>

\* The select between the context and time.After(retryDelay).
Delay == /\ pc = "delay"
         /\ \/ cancelled /\ ReturnWith("cancelled") /\ UNCHANGED attempt
            \/ pc' = "loop" /\ attempt' = attempt + 1 /\ UNCHANGED outcome
         /\ UNCHANGED <<cancelled, inputs, err, open, conn, dials, late>>

\* Mutant: the error of the last attempt is not looked at.
DecideBlindly == /\ pc = "decide"
                 /\ ReturnWith("ok")
                 /\ UNCHANGED <<cancelled, inputs, attempt, err, open, conn, dials, late>>

Decide == /\ pc = "decide"
          /\ IF err THEN ReturnWith("failedAfterRetries") ELSE ReturnWith("ok")
          /\ UNCHANGED <<cancelled, inputs, attempt, err, open, conn, dials, late>>

Done == pc = "returned" /\ UNCHANGED vars

Await == \E s \in Awaits : HandshakeStep(s)

\* Every step that does not wait for a proxy's bytes.
LocalStep == \/ Lookup \/ LoopHead \/ DialBegin \/ DialEnd
             \/ \E s \in HandshakeSteps \ Awaits : HandshakeStep(s)
             \/ Attempted \/ Delay \/ Decide

Next == Cancel \/ LocalStep \/ Await \/ Done

Spec == Init /\ [][Next]_vars

\* The goroutine runs, the resolver answers, and a dial ends by its timeout.
FairSpec == Spec /\ WF_vars(LocalStep)

-----------------------------------------------------------------------------
(* Properties. *)

\* Types and the bounds of the counters.
TypeOK ==
  /\ cancelled \in BOOLEAN
  /\ route \in Routes /\ retries \in RetryCounts /\ doomed \in BOOLEAN
  /\ pc \in HandshakeSteps \cup {"lookup", "loop", "dial", "dialing", "attempted", "delay",
                                 "decide", "returned"}
  /\ attempt \in Nat /\ (attempt > 0 => attempt <= retries + 1)
  /\ err \in BOOLEAN
  /\ open \in Int
  /\ conn \in BOOLEAN
  /\ outcome \in {"none", "dnsError", "cancelled", "failedAfterRetries", "ok"}
  /\ dials \in Nat
  /\ late \in Nat

\* Whatever failed and however often, the call holds a socket only when it hands
\* one out: every failed handshake step closed the one it was given before the
\* next attempt opens another (README.md:62, DESIGN.md:58-59).
NoSocketLeak == /\ open \in 0..1
                /\ pc \in {"loop", "dial", "dialing", "delay"} => open = 0
                /\ pc = "returned" => (open = 1 <=> outcome = "ok" /\ conn)

\* The call gives up for lack of attempts only after the retries it was allowed;
\* a negative count allows no attempt at all.
RetryBudget == /\ dials <= IF retries < 0 THEN 0 ELSE retries + 1
               /\ outcome = "failedAfterRetries" /\ retries >= 0 => dials = retries + 1

\* However many retries are left, at most one dial begins after a cancellation
\* (README.md:63): one that was already past the poll.
CancelStopsDialing == late <= 1

\* A direct call returns once its context is cancelled, whatever any peer does.
DirectCancelReturns == (cancelled /\ route = "direct") ~> pc = "returned"

\* Every proxy answers every read, if only by closing the connection.
ProxiesAnswer == WF_vars(LocalStep \/ Await)

\* Then a call returns, cancelled or not.
CallReturns == ProxiesAnswer => <>(pc = "returned")

\* What the caller sees of the call.
Contract == INSTANCE TcpCall WITH
              idle <- retries < 0,
              outcome <- CASE outcome = "none"        -> "none"
                           [] outcome = "ok" /\ conn  -> "conn"
                           [] outcome = "ok" /\ ~conn -> "nothing"
                           [] OTHER                   -> "error",
              sockets <- IF pc = "returned" THEN open ELSE 0

\* The call keeps the contract the other probes rely on: a socket or an error,
\* nothing left open with an error, no socket if the context was cancelled before
\* the call or if it was asked for no attempt, and a nil error without a socket
\* only in the last case; main checks no flag for that.
ImplementsTcpCall == Contract!Spec

\* "All network operations propagate context.Context deadlines" (README.md:63),
\* "a context-aware connection through an HTTP CONNECT or SOCKS5 proxy server"
\* (tcp.go:96): a cancelled call would return although the proxy stays silent.
CancelReturns == cancelled ~> pc = "returned"
=============================================================================
