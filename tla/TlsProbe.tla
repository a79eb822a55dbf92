------------------------------ MODULE TlsProbe ------------------------------
(***************************************************************************)
(* TLS (probes/tls.go:76-166): one call, on a socket its caller has opened.  *)
(*                                                                         *)
(* The handshake runs in a goroutine of its own (the helper) and reports     *)
(* through a channel with room for one error; the call selects between that  *)
(* channel and the context.  When the handshake fails the call dials once    *)
(* more and repeats it without verification, only to capture the chain.      *)
(*                                                                         *)
(* The peer and crypto/tls are the environment.  What they do to a           *)
(* handshake is its verdict: "ok", "untrusted" (the chain was refused),       *)
(* "broken" (any other failure) or "interrupted" (by the context, in which    *)
(* case crypto/tls has closed the socket).  A peer may also never answer.     *)
(***************************************************************************)
EXTENDS Naturals, Sequences, FiniteSets

VARIABLES
  cancelled,    \* ctx.Done() is closed
  call,         \* where the call of TLS is
  helper,       \* where the handshake goroutine is
  verdict,      \* what its HandshakeContext returned
  errChan,      \* the channel between them, capacity 1
  open,         \* the sockets that are open, by the name of their opener
  ret,          \* what the call returned: "conn", "error" or "cancelled"
  chain,        \* result.PeerCertificates: captured by which handshake
  trusted,      \* result.CertTrusted
  trustError    \* result.TrustError, as the verdict it quotes

tlsVars == <<cancelled, call, helper, verdict, errChan, open, ret, chain, trusted, trustError>>

Verdicts == {"ok", "untrusted", "broken", "interrupted"}

\* The state before the call; the caller says which sockets are open.
TlsIdle == /\ cancelled = FALSE
           /\ call = "idle"
           /\ helper = "idle"
           /\ verdict = "none"
           /\ errChan = <<>>
           /\ ret = "none"
           /\ chain = "none"
           /\ trusted = FALSE
           /\ trustError = "none"

-----------------------------------------------------------------------------

Cancel == /\ ~cancelled
          /\ cancelled' = TRUE
          /\ UNCHANGED <<call, helper, verdict, errChan, open, ret, chain, trusted, trustError>>

\* The call starts the helper and reaches its select.
StartTls == /\ call = "idle"
            /\ call' = "select"
            /\ helper' = "handshaking"
            /\ UNCHANGED <<cancelled, verdict, errChan, open, ret, chain, trusted, trustError>>

\* HandshakeContext ends.  Once the context is cancelled it may be interrupted,
\* and on a socket that was closed under it it cannot succeed.
HandshakeEnds(v) ==
  /\ helper = "handshaking"
  /\ v \in {"ok", "untrusted"} => "raw" \in open
  /\ v = "interrupted" => cancelled
  /\ verdict' = v
  /\ helper' = "sending"
  /\ open' = IF v = "interrupted" THEN open \ {"raw"} ELSE open
  /\ UNCHANGED <<cancelled, call, errChan, ret, chain, trusted, trustError>>

\* Mutant: the channel has no buffer, so only the select can take the verdict.
HelperSendsUnbuffered ==
  /\ helper = "sending"
  /\ call = "select"
  /\ errChan' = Append(errChan, verdict)
  /\ helper' = "ended"
  /\ UNCHANGED <<cancelled, call, verdict, open, ret, chain, trusted, trustError>>

HelperSends == /\ helper = "sending"
               /\ Len(errChan) < 1
               /\ errChan' = Append(errChan, verdict)
               /\ helper' = "ended"
               /\ UNCHANGED <<cancelled, call, verdict, open, ret, chain, trusted, trustError>>

\* First case of the select: close the connection and give up.
SelectCancelled == /\ call = "select" /\ cancelled
                   /\ open' = open \ {"raw"}
                   /\ ret' = "cancelled"
                   /\ call' = "returned"
                   /\ UNCHANGED <<cancelled, helper, verdict, errChan, chain, trusted, trustError>>

\* Second case: the handshake succeeded, or the fallback begins.
SelectVerdict == /\ call = "select" /\ errChan # <<>>
                 /\ errChan' = Tail(errChan)
                 /\ IF Head(errChan) = "ok"
                      THEN /\ call' = "returned"
                           /\ ret' = "conn"
                           /\ chain' = "primary"
                           /\ trusted' = TRUE
                           /\ UNCHANGED trustError
                      ELSE /\ call' = "fallback"
                           /\ trusted' = FALSE
                           /\ trustError' = Head(errChan)
                           /\ UNCHANGED <<ret, chain>>
                 /\ UNCHANGED <<cancelled, helper, verdict, open>>

\* The fallback's TCP call; one made with a cancelled context fails at once.
FallbackDialBegin == /\ call = "fallback"
                     /\ IF cancelled THEN call' = "returned" /\ ret' = "error"
                                     ELSE call' = "fallbackDialing" /\ UNCHANGED ret
                     /\ UNCHANGED <<cancelled, helper, verdict, errChan, open, chain, trusted,
                                    trustError>>

FallbackDialEnd == /\ call = "fallbackDialing"
                   /\ \/ /\ call' = "fallbackHandshake"
                         /\ open' = open \cup {"fallback"}
                         /\ UNCHANGED ret
                      \/ /\ call' = "returned" /\ ret' = "error"
                         /\ UNCHANGED open
                   /\ UNCHANGED <<cancelled, helper, verdict, errChan, chain, trusted, trustError>>

\* Mutant: a captured chain counts as verified.
FallbackHandshakeTrusts ==
  /\ call = "fallbackHandshake"
  /\ chain' \in {"none", "fallback"}
  /\ trusted' = (chain' = "fallback")
  /\ open' = open \ {"fallback"}
  /\ call' = "returned" /\ ret' = "error"
  /\ UNCHANGED <<cancelled, helper, verdict, errChan, trustError>>

\* The unverified handshake captures the chain or fails; either way its socket
\* is closed, and the call still fails.
FallbackHandshake == /\ call = "fallbackHandshake"
                     /\ chain' \in {"none", "fallback"}
                     /\ open' = open \ {"fallback"}
                     /\ call' = "returned" /\ ret' = "error"
                     /\ UNCHANGED <<cancelled, helper, verdict, errChan, trusted, trustError>>

-----------------------------------------------------------------------------

\* Steps that end whatever the peer does: the rest of the call, dials (by their
\* timeout), and handshakes whose context is cancelled.
PromptTlsStep == \/ SelectCancelled \/ SelectVerdict
                 \/ FallbackDialBegin \/ FallbackDialEnd
                 \/ cancelled /\ FallbackHandshake

PromptHelperStep == \/ HelperSends
                    \/ cancelled /\ \E v \in Verdicts : HandshakeEnds(v)

TlsStep == \/ PromptTlsStep \/ PromptHelperStep
           \/ FallbackHandshake
           \/ \E v \in Verdicts : HandshakeEnds(v)

-----------------------------------------------------------------------------
(* Properties of the call, checked where ExecuteTarget.tla makes it. *)

\* Every variable stays in its type.
TlsTypeOK ==
  /\ cancelled \in BOOLEAN
  /\ call \in {"idle", "select", "fallback", "fallbackDialing", "fallbackHandshake", "returned"}
  /\ helper \in {"idle", "handshaking", "sending", "ended"}
  /\ verdict \in Verdicts \cup {"none"}
  /\ errChan \in Seq(Verdicts) /\ Len(errChan) <= 1
  /\ ret \in {"none", "conn", "error", "cancelled"}
  /\ chain \in {"none", "primary", "fallback"}
  /\ trusted \in BOOLEAN
  /\ trustError \in Verdicts \cup {"none"}

\* A chain captured by the unverified fallback is never reported as trusted, and
\* a trusted result comes with the chain and the connection of the first handshake,
\* which succeeded (with -insecure, without verification).
TrustIsVerified == call = "returned" =>
                     /\ trusted <=> ret = "conn"
                     /\ trusted => chain = "primary" /\ verdict = "ok" /\ trustError = "none"
                     /\ chain = "fallback" => trustError \notin {"none", "ok"}

\* The helper does not outlive a cancelled call: its channel has room for the
\* verdict nobody waits for any more, and its handshake is interrupted.
HelperEnds == (ret = "cancelled") ~> (helper = "ended")
=============================================================================
