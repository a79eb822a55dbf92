-------------------------- MODULE ExecuteTargetProofs --------------------------
(***************************************************************************)
(* Theorems about ExecuteTarget and the TLS call it makes, for every set of   *)
(* flags and peers that CasesAssumption allows:                             *)
(*                                                                         *)
(*   TypeCorrect          every variable stays in its type                   *)
(*   TrustTheorem         only the first handshake can make a chain trusted  *)
(*   SocketsTheorem       no socket of the main probes outlives the result   *)
(*   ProbedTheorem        a result without an error passed every probe       *)
(*   TermsTheorem         a handshake succeeds only as the flags asked       *)
(*   ExpiryTheorem        a leaf about to expire is warned of                *)
(*   RevocationTheorem    a verdict is the one the responder gave            *)
(*   SweepTheorem         the sweep has a row for every version, in order    *)
(*   HelperTheorem        the helper's send never blocks                      *)
(*   FinalTheorem         a returned result and a verdict stay as they are     *)
(*   BoundedTheorem       a target is probed in a bounded number of steps     *)
(***************************************************************************)
EXTENDS ExecuteTarget, TLAPS, SequenceTheorems

-----------------------------------------------------------------------------
(* The places of the probe. *)

BeforeTls  == {"dial", "config"}
LeafPlaces == {"leaf", "ocsp", "revocation", "response"}
ScanPlaces == {"sweep", "sweepDial", "sweepHandshake", "resume", "resumeHandshake", "quic"}

Places == BeforeTls \cup {"tls"} \cup LeafPlaces \cup {"established", "http"}
            \cup ScanPlaces \cup {"close", "returned"}

\* What a TLS step leaves alone.
Outside == <<inputs, pc, resultVars>>

LEMMA NextCases ==
  ASSUME [Next]_vars
  PROVE  \/ DialTarget \/ BuildConfig \/ BeginTls \/ TlsReturns \/ Leaf
         \/ OcspGet \/ OcspPost \/ OcspAnswer \/ Established \/ HttpProbe
         \/ SweepPoll \/ SweepDial \/ SweepHandshake \/ ResumeDial \/ ResumeHandshake
         \/ Quic \/ DeferredClose \/ CancelContext \/ TlsCallStep \/ UNCHANGED vars
BY DEF Next, PromptStep, PeerStep, Done

LEMMA TlsCases ==
  ASSUME TlsCallStep
  PROVE  /\ UNCHANGED Outside
         /\ verdict' = "ok" => Acceptable
         /\ \/ SelectCancelled \/ SelectVerdict \/ FallbackDialBegin \/ FallbackDialEnd
            \/ FallbackHandshake \/ HelperSends \/ \E v \in Verdicts : HandshakeEnds(v)
BY DEF TlsCallStep, TlsStep, PromptTlsStep, PromptHelperStep, Outside

-----------------------------------------------------------------------------
(* The TLS call and its helper. *)

\* Where the call can be at each place of the probe.
PlaceInv == /\ pc \in Places
            /\ call \in {"idle", "select", "fallback", "fallbackDialing", "fallbackHandshake",
                         "returned"}
            /\ pc \in BeforeTls => call = "idle"
            /\ call \notin {"idle", "returned"} => pc = "tls"
            /\ pc \notin BeforeTls \cup {"tls", "returned"} => call = "returned"

\* The content of a channel with one value in it.
Holding(v) == <<v>>

\* The helper has a verdict once it is past the handshake; the verdict is in the
\* channel from then until the call takes it.
HelperInv ==
  /\ cancelled \in BOOLEAN
  /\ helper \in {"idle", "handshaking", "sending", "ended"}
  /\ call = "idle" <=> helper = "idle"
  /\ verdict \in Verdicts \cup {"none"}
  /\ verdict = "none" <=> helper \in {"idle", "handshaking"}
  /\ errChan \in {<<>>, Holding(verdict)}
  /\ helper # "ended" => errChan = <<>>
  /\ helper # "ended" => call \in {"idle", "select"} \/ ret = "cancelled"
  /\ call = "select" /\ helper = "ended" => errChan = Holding(verdict)

\* What the call has said by the time it is there.
ReturnInv ==
  /\ ret \in {"none", "conn", "error", "cancelled"}
  /\ ret # "none" <=> call = "returned"
  /\ call \in {"idle", "select"} => chain = "none" /\ trusted = FALSE /\ trustError = "none"
  /\ call \in {"fallback", "fallbackDialing", "fallbackHandshake"} =>
       /\ chain = "none" /\ trusted = FALSE
       /\ trustError = verdict /\ verdict \notin {"none", "ok"}
  /\ ret = "conn" => chain = "primary" /\ trusted = TRUE /\ trustError = "none" /\ verdict = "ok"
  /\ ret = "error" => /\ chain \in {"none", "fallback"} /\ trusted = FALSE
                      /\ trustError = verdict /\ verdict \notin {"none", "ok"}
  /\ ret = "cancelled" => chain = "none" /\ trusted = FALSE /\ trustError = "none"

CallInv == PlaceInv /\ HelperInv /\ ReturnInv

\* Steps that leave the TLS call alone.
LEMMA CallQuiet ==
  ASSUME CallInv, UNCHANGED <<call, helper, verdict, errChan, ret, chain, trusted, trustError>>,
         cancelled' \in BOOLEAN, PlaceInv'
  PROVE  CallInv'
BY DEF CallInv, HelperInv, ReturnInv

LEMMA CallTlsStep == ASSUME CallInv, TlsCallStep PROVE CallInv'
<1>1. pc' = pc
  BY TlsCases DEF Outside
<1>2. CASE SelectCancelled
  BY <1>1, <1>2 DEF CallInv, PlaceInv, HelperInv, ReturnInv, SelectCancelled
<1>3. CASE SelectVerdict
  <2>1. /\ call = "select" /\ errChan = Holding(verdict) /\ errChan' = <<>>
        /\ Head(errChan) = verdict
        /\ helper = "ended" /\ pc = "tls" /\ ret = "none"
        /\ UNCHANGED <<cancelled, verdict, helper>>
    BY <1>3 DEF Holding, CallInv, PlaceInv, HelperInv, ReturnInv, SelectVerdict
  <2>2. CASE verdict = "ok"
    BY <1>1, <1>3, <2>1, <2>2 DEF CallInv, PlaceInv, HelperInv, ReturnInv, SelectVerdict
  <2>3. CASE verdict # "ok"
    BY <1>1, <1>3, <2>1, <2>3 DEF CallInv, PlaceInv, HelperInv, ReturnInv, SelectVerdict
  <2> QED BY <2>2, <2>3
<1>4. CASE FallbackDialBegin
  BY <1>1, <1>4 DEF CallInv, PlaceInv, HelperInv, ReturnInv, FallbackDialBegin
<1>5. CASE FallbackDialEnd
  BY <1>1, <1>5 DEF CallInv, PlaceInv, HelperInv, ReturnInv, FallbackDialEnd
<1>6. CASE FallbackHandshake
  BY <1>1, <1>6 DEF CallInv, PlaceInv, HelperInv, ReturnInv, FallbackHandshake
<1>7. CASE HelperSends
  <2>1. errChan = <<>> /\ errChan' = Holding(verdict)
    BY <1>7 DEF Holding, CallInv, HelperInv, HelperSends
  <2> QED BY <1>1, <1>7, <2>1 DEF CallInv, PlaceInv, HelperInv, ReturnInv, HelperSends
<1>8. CASE \E v \in Verdicts : HandshakeEnds(v)
  BY <1>1, <1>8 DEF CallInv, PlaceInv, HelperInv, ReturnInv, HandshakeEnds, Verdicts
<1> QED BY <1>2, <1>3, <1>4, <1>5, <1>6, <1>7, <1>8, TlsCases

LEMMA CallStep == ASSUME CallInv, [Next]_vars PROVE CallInv'
<1> USE DEF Dial, tlsRest, tlsVars, BeforeTls, LeafPlaces, ScanPlaces, Places
<1>1. CASE DialTarget
  BY <1>1, CallQuiet DEF DialTarget, CallInv, PlaceInv, HelperInv
<1>2. CASE BuildConfig
  BY <1>2, CallQuiet DEF BuildConfig, CallInv, PlaceInv, HelperInv
<1>3. CASE BeginTls
  BY <1>3 DEF BeginTls, StartTls, CallInv, PlaceInv, HelperInv, ReturnInv
<1>4. CASE TlsReturns
  BY <1>4, CallQuiet DEF TlsReturns, CallInv, PlaceInv, HelperInv
<1>5. CASE Leaf
  BY <1>5, CallQuiet DEF Leaf, CallInv, PlaceInv, HelperInv
<1>6. CASE OcspGet
  BY <1>6, CallQuiet DEF OcspGet, CallInv, PlaceInv, HelperInv
<1>7. CASE OcspPost
  BY <1>7, CallQuiet DEF OcspPost, CallInv, PlaceInv, HelperInv
<1>8. CASE OcspAnswer
  BY <1>8, CallQuiet DEF OcspAnswer, CallInv, PlaceInv, HelperInv
<1>9. CASE Established
  BY <1>9, CallQuiet DEF Established, CallInv, PlaceInv, HelperInv
<1>10. CASE HttpProbe
  BY <1>10, CallQuiet DEF HttpProbe, CallInv, PlaceInv, HelperInv
<1>11. CASE SweepPoll
  BY <1>11, CallQuiet DEF SweepPoll, CallInv, PlaceInv, HelperInv
<1>12. CASE SweepDial
  BY <1>12, CallQuiet DEF SweepDial, CallInv, PlaceInv, HelperInv
<1>13. CASE SweepHandshake
  BY <1>13, CallQuiet DEF SweepHandshake, CallInv, PlaceInv, HelperInv
<1>14. CASE ResumeDial
  BY <1>14, CallQuiet DEF ResumeDial, CallInv, PlaceInv, HelperInv
<1>15. CASE ResumeHandshake
  BY <1>15, CallQuiet DEF ResumeHandshake, CallInv, PlaceInv, HelperInv
<1>16. CASE Quic
  BY <1>16, CallQuiet DEF Quic, CallInv, PlaceInv, HelperInv
<1>17. CASE DeferredClose
  BY <1>17, CallQuiet DEF DeferredClose, CallInv, PlaceInv, HelperInv
<1>18. CASE CancelContext
  BY <1>18, CallQuiet DEF CancelContext, Cancel, CallInv, PlaceInv
<1>19. CASE TlsCallStep
  BY <1>19, CallTlsStep
<1>20. CASE UNCHANGED vars
  BY <1>20, CallQuiet DEF vars, CallInv, PlaceInv, HelperInv
<1> QED BY <1>1, <1>2, <1>3, <1>4, <1>5, <1>6, <1>7, <1>8, <1>9, <1>10, <1>11, <1>12, <1>13,
           <1>14, <1>15, <1>16, <1>17, <1>18, <1>19, <1>20, NextCases

\* What the later parts need of a TLS step: it does nothing but close a socket once the
\* probe is past the call.
LEMMA TlsStepAfter ==
  ASSUME CallInv, TlsCallStep, pc # "tls"
  PROVE  UNCHANGED <<cancelled, call, ret, chain, trusted, trustError>> /\ open' \subseteq open
<1>1. call \in {"idle", "returned"}
  BY DEF CallInv, PlaceInv
<1>2. HelperSends \/ \E v \in Verdicts : HandshakeEnds(v)
  BY <1>1, TlsCases DEF SelectCancelled, SelectVerdict, FallbackDialBegin, FallbackDialEnd,
                        FallbackHandshake
<1> QED BY <1>2 DEF HelperSends, HandshakeEnds

-----------------------------------------------------------------------------
(* The sockets. *)

\* Who may have a socket open at each place.  The raw socket is open while the
\* call may still succeed, unless the handshake was interrupted.
SocketInv ==
  /\ open \subseteq Sockets
  /\ pc = "dial" => open = {}
  /\ pc = "config" => open = {"raw"}
  /\ pc = "tls" => open \subseteq {"raw", "fallback"}
  /\ "fallback" \in open <=> call = "fallbackHandshake"
  /\ pc = "tls" /\ call \in {"idle", "select"} /\ verdict # "interrupted" => "raw" \in open
  /\ pc = "tls" /\ ret = "conn" => "raw" \in open
  /\ ret = "cancelled" => "raw" \notin open
  /\ "sweep" \in open => pc = "sweepHandshake"
  /\ "resume" \in open => pc \in {"resumeHandshake", "quic", "close", "returned"}
  /\ pc = "returned" => open \subseteq {"resume", "ocsp"}

LEMMA SocketTlsStep == ASSUME CallInv, SocketInv, TlsCallStep PROVE SocketInv'
<1>1. pc' = pc
  BY TlsCases DEF Outside
<1> USE DEF SocketInv, Sockets, CallInv, PlaceInv, HelperInv, ReturnInv
<1>2. CASE SelectCancelled
  BY <1>1, <1>2 DEF SelectCancelled
<1>3. CASE SelectVerdict
  BY <1>1, <1>3 DEF Holding, SelectVerdict
<1>4. CASE FallbackDialBegin
  BY <1>1, <1>4 DEF FallbackDialBegin
<1>5. CASE FallbackDialEnd
  BY <1>1, <1>5 DEF FallbackDialEnd
<1>6. CASE FallbackHandshake
  BY <1>1, <1>6 DEF FallbackHandshake
<1>7. CASE HelperSends
  BY <1>1, <1>7 DEF HelperSends
<1>8. CASE \E v \in Verdicts : HandshakeEnds(v)
  BY <1>1, <1>8 DEF HandshakeEnds
<1> QED BY <1>2, <1>3, <1>4, <1>5, <1>6, <1>7, <1>8, TlsCases

LEMMA SocketStep == ASSUME CallInv, SocketInv, [Next]_vars PROVE SocketInv'
<1> USE DEF tlsRest, tlsVars, BeforeTls
<1>1. CASE DialTarget
  BY <1>1 DEF DialTarget, Dial, SocketInv, Sockets, CallInv, PlaceInv, ReturnInv
<1>2. CASE BuildConfig
  BY <1>2 DEF BuildConfig, SocketInv, Sockets, CallInv, PlaceInv, ReturnInv
<1>3. CASE BeginTls
  BY <1>3 DEF BeginTls, StartTls, SocketInv, Sockets, CallInv, PlaceInv, ReturnInv
<1>4. CASE TlsReturns
  BY <1>4 DEF TlsReturns, SocketInv, Sockets, CallInv, PlaceInv, ReturnInv
<1>5. CASE Leaf
  BY <1>5 DEF Leaf, SocketInv, Sockets, CallInv, PlaceInv, ReturnInv
<1>6. CASE OcspGet
  BY <1>6 DEF OcspGet, QueryConnection, SocketInv, Sockets, CallInv, PlaceInv, ReturnInv
<1>7. CASE OcspPost
  BY <1>7 DEF OcspPost, QueryConnection, SocketInv, Sockets, CallInv, PlaceInv, ReturnInv
<1>8. CASE OcspAnswer
  BY <1>8 DEF OcspAnswer, SocketInv, Sockets, CallInv, PlaceInv, ReturnInv
<1>9. CASE Established
  BY <1>9 DEF Established, SocketInv, Sockets, CallInv, PlaceInv, ReturnInv
<1>10. CASE HttpProbe
  BY <1>10 DEF HttpProbe, SocketInv, Sockets, CallInv, PlaceInv, ReturnInv
<1>11. CASE SweepPoll
  BY <1>11 DEF SweepPoll, SocketInv, Sockets, CallInv, PlaceInv, ReturnInv
<1>12. CASE SweepDial
  BY <1>12 DEF SweepDial, Dial, SocketInv, Sockets, CallInv, PlaceInv, ReturnInv
<1>13. CASE SweepHandshake
  BY <1>13 DEF SweepHandshake, SocketInv, Sockets, CallInv, PlaceInv, ReturnInv
<1>14. CASE ResumeDial
  BY <1>14 DEF ResumeDial, Dial, SocketInv, Sockets, CallInv, PlaceInv, ReturnInv
<1>15. CASE ResumeHandshake
  BY <1>15 DEF ResumeHandshake, SocketInv, Sockets, CallInv, PlaceInv, ReturnInv
<1>16. CASE Quic
  BY <1>16 DEF Quic, SocketInv, Sockets, CallInv, PlaceInv, ReturnInv
<1>17. CASE DeferredClose
  BY <1>17 DEF DeferredClose, SocketInv, Sockets, CallInv, PlaceInv, ReturnInv
<1>18. CASE CancelContext
  BY <1>18 DEF CancelContext, Cancel, SocketInv, Sockets, CallInv, PlaceInv, ReturnInv
<1>19. CASE TlsCallStep
  BY <1>19, SocketTlsStep
<1>20. CASE UNCHANGED vars
  BY <1>20 DEF vars, SocketInv, Sockets, CallInv, PlaceInv, ReturnInv
<1> QED BY <1>1, <1>2, <1>3, <1>4, <1>5, <1>6, <1>7, <1>8, <1>9, <1>10, <1>11, <1>12, <1>13,
           <1>14, <1>15, <1>16, <1>17, <1>18, <1>19, <1>20, NextCases

-----------------------------------------------------------------------------
(* The terms of the handshake. *)

\* The inputs are those of a case; a handshake only succeeded on acceptable terms,
\* and what is reported of it agrees with the call.
HandshakeInv ==
  /\ \E c \in Cases : cfg = c.flags /\ peer = c.peer
  /\ verdict = "ok" => Acceptable
  /\ handshake \in BOOLEAN
  /\ pc \in BeforeTls \cup {"tls"} => handshake = FALSE /\ protocol = 0
  /\ pc \notin BeforeTls \cup {"tls"} => (handshake <=> ret = "conn")
  /\ IF handshake THEN protocol \in Speakable ELSE protocol = 0

\* A step that leaves the flags, the peer and the handshake alone.
LEMMA HandshakeQuiet ==
  ASSUME HandshakeInv, UNCHANGED <<cfg, peer, verdict, handshake, protocol, ret>>,
         pc \in BeforeTls \cup {"tls"} => \/ pc' \in BeforeTls \cup {"tls"}
                                          \/ ret # "conn",
         pc \notin BeforeTls \cup {"tls"} => pc' \notin BeforeTls \cup {"tls"}
  PROVE  HandshakeInv'
<1>1. Acceptable' = Acceptable /\ Speakable' = Speakable
  BY DEF Acceptable, Trusted, Speakable
<1> QED BY <1>1 DEF HandshakeInv

LEMMA HandshakeTlsStep == ASSUME CallInv, HandshakeInv, TlsCallStep PROVE HandshakeInv'
<1>1. UNCHANGED <<cfg, peer, pc, handshake, protocol>> /\ (verdict' = "ok" => Acceptable)
  BY TlsCases DEF Outside, inputs, resultVars, leafVars
<1>2. Acceptable' = Acceptable /\ Speakable' = Speakable
  BY <1>1 DEF Acceptable, Trusted, Speakable
<1>3. pc # "tls" => ret' = ret
  BY TlsStepAfter
<1> QED BY <1>1, <1>2, <1>3 DEF HandshakeInv

LEMMA HandshakeStep == ASSUME CallInv, HandshakeInv, [Next]_vars PROVE HandshakeInv'
<1> USE DEF tlsRest, tlsVars, inputs, resultVars, leafVars, BeforeTls
<1>1. CASE DialTarget
  BY <1>1, HandshakeQuiet DEF DialTarget, Dial, CallInv, PlaceInv, ReturnInv
<1>2. CASE BuildConfig
  BY <1>2, HandshakeQuiet DEF BuildConfig, CallInv, PlaceInv, ReturnInv
<1>3. CASE BeginTls
  BY <1>3, HandshakeQuiet DEF BeginTls, StartTls, CallInv, PlaceInv, ReturnInv
<1>4. CASE TlsReturns
  <2>1. UNCHANGED <<cfg, peer, verdict, ret>> /\ pc' \in {"leaf", "established"}
        /\ handshake' = (ret = "conn") /\ protocol' \in (IF ret = "conn" THEN Speakable ELSE {0})
    BY <1>4 DEF TlsReturns
  <2>2. Acceptable' = Acceptable /\ Speakable' = Speakable
    BY <2>1 DEF Acceptable, Trusted, Speakable
  <2>3. handshake' \in BOOLEAN /\ (handshake' <=> ret' = "conn")
    BY <2>1
  <2> QED BY <2>1, <2>2, <2>3 DEF HandshakeInv
<1>5. CASE Leaf
  BY <1>5, HandshakeQuiet DEF Leaf, CallInv, PlaceInv, ReturnInv
<1>6. CASE OcspGet
  BY <1>6, HandshakeQuiet DEF OcspGet, QueryConnection, CallInv, PlaceInv, ReturnInv
<1>7. CASE OcspPost
  BY <1>7, HandshakeQuiet DEF OcspPost, QueryConnection, CallInv, PlaceInv, ReturnInv
<1>8. CASE OcspAnswer
  BY <1>8, HandshakeQuiet DEF OcspAnswer, CallInv, PlaceInv, ReturnInv
<1>9. CASE Established
  BY <1>9, HandshakeQuiet DEF Established, CallInv, PlaceInv, ReturnInv
<1>10. CASE HttpProbe
  BY <1>10, HandshakeQuiet DEF HttpProbe, CallInv, PlaceInv, ReturnInv
<1>11. CASE SweepPoll
  BY <1>11, HandshakeQuiet DEF SweepPoll, CallInv, PlaceInv, ReturnInv
<1>12. CASE SweepDial
  BY <1>12, HandshakeQuiet DEF SweepDial, Dial, CallInv, PlaceInv, ReturnInv
<1>13. CASE SweepHandshake
  BY <1>13, HandshakeQuiet DEF SweepHandshake, CallInv, PlaceInv, ReturnInv
<1>14. CASE ResumeDial
  BY <1>14, HandshakeQuiet DEF ResumeDial, Dial, CallInv, PlaceInv, ReturnInv
<1>15. CASE ResumeHandshake
  BY <1>15, HandshakeQuiet DEF ResumeHandshake, CallInv, PlaceInv, ReturnInv
<1>16. CASE Quic
  BY <1>16, HandshakeQuiet DEF Quic, CallInv, PlaceInv, ReturnInv
<1>17. CASE DeferredClose
  BY <1>17, HandshakeQuiet DEF DeferredClose, CallInv, PlaceInv, ReturnInv
<1>18. CASE CancelContext
  BY <1>18, HandshakeQuiet DEF CancelContext, Cancel, CallInv, PlaceInv, ReturnInv
<1>19. CASE TlsCallStep
  BY <1>19, HandshakeTlsStep
<1>20. CASE UNCHANGED vars
  BY <1>20, HandshakeQuiet DEF vars, CallInv, PlaceInv, ReturnInv
<1> QED BY <1>1, <1>2, <1>3, <1>4, <1>5, <1>6, <1>7, <1>8, <1>9, <1>10, <1>11, <1>12, <1>13,
           <1>14, <1>15, <1>16, <1>17, <1>18, <1>19, <1>20, NextCases

-----------------------------------------------------------------------------
(* The error. *)

\* The client was accepted and the status is one of the asserted ones.
Answered == /\ status # 0
            /\ cfg.asserted # {} => status \in cfg.asserted
            /\ peer.asksCertificate => ClientCertificate(cfg.tls)

\* No error is set before the probe that may fail, the places behind a probe are only
\* reached if it went well, and only the HTTP probe leaves the question open.
ErrorInv ==
  /\ connected \in BOOLEAN /\ status \in {0, 200, 404, 503}
  /\ error \in {"none", "tcp", "config", "tls", "http"}
  /\ pc \in BeforeTls \cup {"tls", "established", "http"} \cup LeafPlaces => error = "none"
  /\ pc \notin {"dial", "returned"} => connected = TRUE
  /\ pc \in {"http", "close"} \cup ScanPlaces => ret = "conn"
  /\ pc \in ScanPlaces \cup {"close", "returned"} /\ error = "none" =>
       connected = TRUE /\ ret = "conn" /\ Answered

LEMMA ErrorTlsStep == ASSUME CallInv, ErrorInv, TlsCallStep PROVE ErrorInv'
<1>1. UNCHANGED <<cfg, peer, pc, connected, error, status>>
  BY TlsCases DEF Outside, inputs, resultVars
<1>2. pc # "tls" => ret' = ret
  BY TlsStepAfter
<1>3. Answered' = Answered
  BY <1>1 DEF Answered
<1> QED BY <1>1, <1>2, <1>3 DEF ErrorInv, ScanPlaces, LeafPlaces, BeforeTls

LEMMA ErrorStep == ASSUME CallInv, ErrorInv, [Next]_vars PROVE ErrorInv'
<1> USE DEF tlsRest, tlsVars, inputs, resultVars, leafVars, BeforeTls, LeafPlaces, ScanPlaces
<1>1. CASE DialTarget
  BY <1>1 DEF DialTarget, Dial, ErrorInv, Answered, CallInv, PlaceInv
<1>2. CASE BuildConfig
  BY <1>2 DEF BuildConfig, ErrorInv, Answered, CallInv, PlaceInv
<1>3. CASE BeginTls
  BY <1>3 DEF BeginTls, StartTls, ErrorInv, Answered, CallInv, PlaceInv
<1>4. CASE TlsReturns
  BY <1>4 DEF TlsReturns, ErrorInv, Answered, CallInv, PlaceInv
<1>5. CASE Leaf
  BY <1>5 DEF Leaf, ErrorInv, Answered, CallInv, PlaceInv
<1>6. CASE OcspGet
  BY <1>6 DEF OcspGet, QueryConnection, ErrorInv, Answered, CallInv, PlaceInv
<1>7. CASE OcspPost
  BY <1>7 DEF OcspPost, QueryConnection, ErrorInv, Answered, CallInv, PlaceInv
<1>8. CASE OcspAnswer
  BY <1>8 DEF OcspAnswer, ErrorInv, Answered, CallInv, PlaceInv
<1>9. CASE Established
  BY <1>9 DEF Established, ErrorInv, Answered, CallInv, PlaceInv
<1>10. CASE HttpProbe
  <2>1. /\ pc = "http" /\ pc' \in {"sweep", "close"}
        /\ UNCHANGED <<cfg, peer, connected, ret>>
        /\ connected = TRUE /\ ret = "conn"
        /\ \/ error' = "http" /\ status' = status
           \/ /\ peer.asksCertificate => ClientCertificate(cfg.tls)
              /\ status' \in {200, 404, 503}
              /\ error' = IF cfg.asserted = {} \/ status' \in cfg.asserted THEN "none" ELSE "http"
    BY <1>10 DEF HttpProbe, ErrorInv
  <2>2. error' = "none" => Answered'
    BY <2>1 DEF Answered, ClientCertificate
  <2> QED BY <2>1, <2>2 DEF ErrorInv
<1>11. CASE SweepPoll
  BY <1>11 DEF SweepPoll, ErrorInv, Answered, CallInv, PlaceInv
<1>12. CASE SweepDial
  BY <1>12 DEF SweepDial, Dial, ErrorInv, Answered, CallInv, PlaceInv
<1>13. CASE SweepHandshake
  BY <1>13 DEF SweepHandshake, ErrorInv, Answered, CallInv, PlaceInv
<1>14. CASE ResumeDial
  BY <1>14 DEF ResumeDial, Dial, ErrorInv, Answered, CallInv, PlaceInv
<1>15. CASE ResumeHandshake
  BY <1>15 DEF ResumeHandshake, ErrorInv, Answered, CallInv, PlaceInv
<1>16. CASE Quic
  BY <1>16 DEF Quic, ErrorInv, Answered, CallInv, PlaceInv
<1>17. CASE DeferredClose
  BY <1>17 DEF DeferredClose, ErrorInv, Answered, CallInv, PlaceInv
<1>18. CASE CancelContext
  BY <1>18 DEF CancelContext, Cancel, ErrorInv, Answered, CallInv, PlaceInv
<1>19. CASE TlsCallStep
  BY <1>19, ErrorTlsStep
<1>20. CASE UNCHANGED vars
  BY <1>20 DEF vars, ErrorInv, Answered, CallInv, PlaceInv
<1> QED BY <1>1, <1>2, <1>3, <1>4, <1>5, <1>6, <1>7, <1>8, <1>9, <1>10, <1>11, <1>12, <1>13,
           <1>14, <1>15, <1>16, <1>17, <1>18, <1>19, <1>20, NextCases

-----------------------------------------------------------------------------
(* The leaf: expiry and revocation. *)

Expires == cfg.warnDays > 0 /\ DaysUntilExpiration(peer.hoursLeft) <= cfg.warnDays

\* The leaf is looked at if the call captured one, and exactly then.
ExpiryInv ==
  /\ warned \in BOOLEAN
  /\ pc \in LeafPlaces => chain # "none"
  /\ pc \notin BeforeTls \cup {"tls", "leaf"} /\ chain # "none" => (warned <=> Expires)

\* The queries are made if asked for, the second one with an issuer.
RevocationInv ==
  /\ active \in {"none", "noURL", "failed", "reachable", "HTTPError"}
  /\ revocation \in OcspVerdicts \cup {"none", "NoOCSPURL", "Error", "Unreachable"}
  /\ responder \in OcspVerdicts \cup {"none", "HTTPError", "unreadable"}
  /\ pc \in BeforeTls \cup {"tls"} \cup LeafPlaces => revocation = "none"
  /\ pc \in {"ocsp", "revocation", "response"} => cfg.checkOCSP
  /\ pc \in {"revocation", "response"} => peer.chainLen > 1
  /\ pc = "response" => peer.hasOCSP
  /\ pc \notin BeforeTls \cup {"tls"} \cup LeafPlaces =>
       (revocation # "none" <=> cfg.checkOCSP /\ chain # "none" /\ peer.chainLen > 1)
  /\ revocation \in OcspVerdicts => peer.hasOCSP /\ responder = revocation

LEMMA ExpiryTlsStep == ASSUME CallInv, ExpiryInv, TlsCallStep PROVE ExpiryInv'
<1>1. UNCHANGED <<cfg, peer, pc, warned>>
  BY TlsCases DEF Outside, inputs, resultVars, leafVars
<1>2. pc # "tls" => chain' = chain
  BY TlsStepAfter
<1>3. Expires' = Expires
  BY <1>1 DEF Expires
<1> QED BY <1>1, <1>2, <1>3 DEF ExpiryInv, LeafPlaces

LEMMA RevocationTlsStep == ASSUME CallInv, RevocationInv, TlsCallStep PROVE RevocationInv'
<1>1. UNCHANGED <<cfg, peer, pc, active, revocation, responder>>
  BY TlsCases DEF Outside, inputs, resultVars, leafVars
<1>2. pc # "tls" => chain' = chain
  BY TlsStepAfter
<1> QED BY <1>1, <1>2 DEF RevocationInv, LeafPlaces

LEMMA ExpiryStep == ASSUME CallInv, ExpiryInv, [Next]_vars PROVE ExpiryInv'
<1> USE DEF tlsRest, tlsVars, inputs, resultVars, leafVars, BeforeTls, LeafPlaces
<1>1. CASE DialTarget
  BY <1>1 DEF DialTarget, Dial, ExpiryInv, Expires, CallInv, PlaceInv, ReturnInv
<1>2. CASE BuildConfig
  BY <1>2 DEF BuildConfig, ExpiryInv, Expires, CallInv, PlaceInv, ReturnInv
<1>3. CASE BeginTls
  BY <1>3 DEF BeginTls, StartTls, ExpiryInv, Expires, CallInv, PlaceInv, ReturnInv
<1>4. CASE TlsReturns
  BY <1>4 DEF TlsReturns, ExpiryInv, Expires, CallInv, PlaceInv, ReturnInv
<1>5. CASE Leaf
  BY <1>5 DEF Leaf, ExpiryInv, Expires, CallInv, PlaceInv, ReturnInv
<1>6. CASE OcspGet
  BY <1>6 DEF OcspGet, QueryConnection, ExpiryInv, Expires, CallInv, PlaceInv, ReturnInv
<1>7. CASE OcspPost
  BY <1>7 DEF OcspPost, QueryConnection, ExpiryInv, Expires, CallInv, PlaceInv, ReturnInv
<1>8. CASE OcspAnswer
  BY <1>8 DEF OcspAnswer, ExpiryInv, Expires, CallInv, PlaceInv, ReturnInv
<1>9. CASE Established
  BY <1>9 DEF Established, ExpiryInv, Expires, CallInv, PlaceInv, ReturnInv
<1>10. CASE HttpProbe
  BY <1>10 DEF HttpProbe, ExpiryInv, Expires, CallInv, PlaceInv, ReturnInv
<1>11. CASE SweepPoll
  BY <1>11 DEF SweepPoll, ExpiryInv, Expires, CallInv, PlaceInv, ReturnInv
<1>12. CASE SweepDial
  BY <1>12 DEF SweepDial, Dial, ExpiryInv, Expires, CallInv, PlaceInv, ReturnInv
<1>13. CASE SweepHandshake
  BY <1>13 DEF SweepHandshake, ExpiryInv, Expires, CallInv, PlaceInv, ReturnInv
<1>14. CASE ResumeDial
  BY <1>14 DEF ResumeDial, Dial, ExpiryInv, Expires, CallInv, PlaceInv, ReturnInv
<1>15. CASE ResumeHandshake
  BY <1>15 DEF ResumeHandshake, ExpiryInv, Expires, CallInv, PlaceInv, ReturnInv
<1>16. CASE Quic
  BY <1>16 DEF Quic, ExpiryInv, Expires, CallInv, PlaceInv, ReturnInv
<1>17. CASE DeferredClose
  BY <1>17 DEF DeferredClose, ExpiryInv, Expires, CallInv, PlaceInv, ReturnInv
<1>18. CASE CancelContext
  BY <1>18 DEF CancelContext, Cancel, ExpiryInv, Expires, CallInv, PlaceInv, ReturnInv
<1>19. CASE TlsCallStep
  BY <1>19, ExpiryTlsStep
<1>20. CASE UNCHANGED vars
  BY <1>20 DEF vars, ExpiryInv, Expires, CallInv, PlaceInv, ReturnInv
<1> QED BY <1>1, <1>2, <1>3, <1>4, <1>5, <1>6, <1>7, <1>8, <1>9, <1>10, <1>11, <1>12, <1>13,
           <1>14, <1>15, <1>16, <1>17, <1>18, <1>19, <1>20, NextCases

LEMMA RevocationStep == ASSUME CallInv, ExpiryInv, RevocationInv, [Next]_vars PROVE RevocationInv'
<1> USE DEF tlsRest, tlsVars, inputs, resultVars, leafVars, BeforeTls, LeafPlaces
<1>1. CASE DialTarget
  BY <1>1 DEF DialTarget, Dial, RevocationInv, ExpiryInv, CallInv, PlaceInv, ReturnInv,
          OcspVerdicts
<1>2. CASE BuildConfig
  BY <1>2 DEF BuildConfig, RevocationInv, ExpiryInv, CallInv, PlaceInv, ReturnInv, OcspVerdicts
<1>3. CASE BeginTls
  BY <1>3 DEF BeginTls, StartTls, RevocationInv, ExpiryInv, CallInv, PlaceInv, ReturnInv,
          OcspVerdicts
<1>4. CASE TlsReturns
  BY <1>4 DEF TlsReturns, RevocationInv, ExpiryInv, CallInv, PlaceInv, ReturnInv, OcspVerdicts
<1>5. CASE Leaf
  BY <1>5 DEF Leaf, RevocationInv, ExpiryInv, CallInv, PlaceInv, ReturnInv, OcspVerdicts
<1>6. CASE OcspGet
  BY <1>6 DEF OcspGet, QueryConnection, RevocationInv, ExpiryInv, CallInv, PlaceInv, ReturnInv,
          OcspVerdicts
<1>7. CASE OcspPost
  BY <1>7 DEF OcspPost, QueryConnection, RevocationInv, ExpiryInv, CallInv, PlaceInv,
          ReturnInv, OcspVerdicts
<1>8. CASE OcspAnswer
  BY <1>8 DEF OcspAnswer, RevocationInv, ExpiryInv, CallInv, PlaceInv, ReturnInv, OcspVerdicts
<1>9. CASE Established
  BY <1>9 DEF Established, RevocationInv, ExpiryInv, CallInv, PlaceInv, ReturnInv, OcspVerdicts
<1>10. CASE HttpProbe
  BY <1>10 DEF HttpProbe, RevocationInv, ExpiryInv, CallInv, PlaceInv, ReturnInv, OcspVerdicts
<1>11. CASE SweepPoll
  BY <1>11 DEF SweepPoll, RevocationInv, ExpiryInv, CallInv, PlaceInv, ReturnInv, OcspVerdicts
<1>12. CASE SweepDial
  BY <1>12 DEF SweepDial, Dial, RevocationInv, ExpiryInv, CallInv, PlaceInv, ReturnInv,
          OcspVerdicts
<1>13. CASE SweepHandshake
  BY <1>13 DEF SweepHandshake, RevocationInv, ExpiryInv, CallInv, PlaceInv, ReturnInv,
          OcspVerdicts
<1>14. CASE ResumeDial
  BY <1>14 DEF ResumeDial, Dial, RevocationInv, ExpiryInv, CallInv, PlaceInv, ReturnInv,
          OcspVerdicts
<1>15. CASE ResumeHandshake
  BY <1>15 DEF ResumeHandshake, RevocationInv, ExpiryInv, CallInv, PlaceInv, ReturnInv,
          OcspVerdicts
<1>16. CASE Quic
  BY <1>16 DEF Quic, RevocationInv, ExpiryInv, CallInv, PlaceInv, ReturnInv, OcspVerdicts
<1>17. CASE DeferredClose
  BY <1>17 DEF DeferredClose, RevocationInv, ExpiryInv, CallInv, PlaceInv, ReturnInv, OcspVerdicts
<1>18. CASE CancelContext
  BY <1>18 DEF CancelContext, Cancel, RevocationInv, ExpiryInv, CallInv, PlaceInv, ReturnInv,
          OcspVerdicts
<1>19. CASE TlsCallStep
  BY <1>19, RevocationTlsStep
<1>20. CASE UNCHANGED vars
  BY <1>20 DEF vars, RevocationInv, ExpiryInv, CallInv, PlaceInv, ReturnInv, OcspVerdicts
<1> QED BY <1>1, <1>2, <1>3, <1>4, <1>5, <1>6, <1>7, <1>8, <1>9, <1>10, <1>11, <1>12, <1>13,
           <1>14, <1>15, <1>16, <1>17, <1>18, <1>19, <1>20, NextCases

-----------------------------------------------------------------------------
(* The scan. *)

SweepRow == [protocol: {Versions[v] : v \in DOMAIN Versions},
             status: {"FAILED", "SUPPORTED", "REJECTED"}]

Ordered == \A k \in DOMAIN scanned : scanned[k].protocol = Versions[k]

\* A row for every version, unless the context was cancelled.
AllRows == ~cancelled => Len(scanned) = Len(Versions)

\* The loop has written one row for each version it is past.
SweepInv ==
  /\ sweepAt \in 0..4
  /\ scanned \in Seq(SweepRow) /\ Ordered
  /\ pc \notin ScanPlaces \cup {"close", "returned"} => scanned = <<>> /\ sweepAt = 0
  /\ pc = "sweep" => Len(scanned) = sweepAt
  /\ pc \in {"sweepDial", "sweepHandshake"} => sweepAt \in 1..4 /\ Len(scanned) = sweepAt - 1
  /\ pc \in {"resume", "resumeHandshake", "quic"} => AllRows
  /\ pc \in {"close", "returned"} /\ cfg.scan /\ ret = "conn" => AllRows

\* At most two handshakes of the resumption test.
ResumeInv == /\ resumption \in 0..2 /\ resumed \in BOOLEAN
             /\ pc \notin {"quic", "close", "returned"} => resumption \in 0..1

LEMMA VersionsLen == Len(Versions) = 4 /\ DOMAIN Versions = 1..4
BY DEF Versions

\* A row for the version the loop is at keeps the rows in order.
LEMMA RowAppended ==
  ASSUME SweepInv, pc \in {"sweepDial", "sweepHandshake"},
         NEW outcome \in {"FAILED", "SUPPORTED", "REJECTED"},
         scanned' = Append(scanned, Row(outcome))
  PROVE  scanned' \in Seq(SweepRow) /\ Ordered' /\ Len(scanned') = sweepAt
<1>1. sweepAt \in 1..4 /\ Len(scanned) = sweepAt - 1 /\ scanned \in Seq(SweepRow) /\ Ordered
  BY DEF SweepInv
<1>2. Row(outcome) \in SweepRow /\ Row(outcome).protocol = Versions[sweepAt]
  BY <1>1, VersionsLen DEF Row, SweepRow
<1>3. /\ scanned' \in Seq(SweepRow) /\ Len(scanned') = sweepAt
      /\ DOMAIN scanned = 1..sweepAt - 1 /\ DOMAIN scanned' = 1..sweepAt
      /\ \A k \in 1..sweepAt - 1 : scanned'[k] = scanned[k]
      /\ scanned'[sweepAt] = Row(outcome)
  BY <1>1, <1>2, AppendProperties, LenProperties
<1>4. \A k \in 1..sweepAt : scanned'[k].protocol = Versions[k]
  BY <1>1, <1>2, <1>3 DEF Ordered
<1> QED BY <1>3, <1>4 DEF Ordered

\* A step outside the sweep leaves its rows alone.
LEMMA SweepQuiet ==
  ASSUME SweepInv, UNCHANGED <<cfg, scanned, sweepAt>>,
         cancelled' = cancelled \/ cancelled' = TRUE,
         \/ pc' = pc /\ (ret' = ret \/ (pc # "returned" /\ pc # "close"))
         \/ /\ {pc, pc'} \cap (ScanPlaces \cup {"close", "returned"}) = {}
         \/ /\ pc \notin ScanPlaces \cup {"close", "returned"}
            /\ pc' \in {"close", "returned"} /\ (~cfg.scan \/ ret' # "conn")
         \/ pc = "http" /\ pc' = "sweep"
         \/ /\ pc \in {"resume", "resumeHandshake", "quic"}
            /\ pc' \in {"resume", "resumeHandshake", "quic", "close"}
         \/ pc = "close" /\ pc' = "returned" /\ ret' = ret
  PROVE  SweepInv'
<1>1. Ordered' = Ordered /\ (AllRows => AllRows')
  BY DEF Ordered, AllRows
<1>2. pc = "http" => scanned = <<>> /\ Len(scanned) = sweepAt
  BY EmptySeq DEF SweepInv, ScanPlaces
<1> QED BY <1>1, <1>2 DEF SweepInv, ScanPlaces

LEMMA SweepTlsStep == ASSUME CallInv, SweepInv, TlsCallStep PROVE SweepInv'
<1>1. UNCHANGED <<cfg, scanned, sweepAt>> /\ pc' = pc
  BY TlsCases DEF Outside, inputs, resultVars, scanVars
<1>2. pc # "tls" => cancelled' = cancelled /\ ret' = ret
  BY TlsStepAfter
<1>3. cancelled' = cancelled
  BY TlsCases DEF SelectCancelled, SelectVerdict, FallbackDialBegin, FallbackDialEnd,
                  FallbackHandshake, HelperSends, HandshakeEnds
<1>4. pc' = pc /\ (ret' = ret \/ (pc # "returned" /\ pc # "close"))
  BY <1>1, <1>2
<1> QED BY <1>1, <1>3, <1>4, SweepQuiet

LEMMA SweepStep == ASSUME CallInv, ErrorInv, SweepInv, [Next]_vars PROVE SweepInv'
<1> USE DEF tlsRest, tlsVars, inputs, resultVars, scanVars, BeforeTls, LeafPlaces, ScanPlaces
<1>1. CASE DialTarget
  BY <1>1, SweepQuiet DEF DialTarget, Dial, CallInv, PlaceInv, ReturnInv
<1>2. CASE BuildConfig
  BY <1>2, SweepQuiet DEF BuildConfig, CallInv, PlaceInv, ReturnInv
<1>3. CASE BeginTls
  BY <1>3, SweepQuiet DEF BeginTls, StartTls, CallInv, PlaceInv, ReturnInv
<1>4. CASE TlsReturns
  BY <1>4, SweepQuiet DEF TlsReturns, CallInv, PlaceInv, ReturnInv
<1>5. CASE Leaf
  BY <1>5, SweepQuiet DEF Leaf, CallInv, PlaceInv, ReturnInv
<1>6. CASE OcspGet
  BY <1>6, SweepQuiet DEF OcspGet, QueryConnection, CallInv, PlaceInv, ReturnInv
<1>7. CASE OcspPost
  BY <1>7, SweepQuiet DEF OcspPost, QueryConnection, CallInv, PlaceInv, ReturnInv
<1>8. CASE OcspAnswer
  BY <1>8, SweepQuiet DEF OcspAnswer, CallInv, PlaceInv, ReturnInv
<1>9. CASE Established
  BY <1>9, SweepQuiet DEF Established, CallInv, PlaceInv, ReturnInv
<1>10. CASE HttpProbe
  BY <1>10, SweepQuiet DEF HttpProbe, CallInv, PlaceInv, ReturnInv
<1>11. CASE SweepPoll
  <2>1. /\ pc = "sweep" /\ UNCHANGED <<cfg, scanned, cancelled, ret>>
        /\ Len(scanned) = sweepAt /\ sweepAt \in 0..4 /\ scanned \in Seq(SweepRow) /\ Ordered
        /\ \/ (cancelled \/ sweepAt = 4) /\ pc' = "resume" /\ sweepAt' = sweepAt
           \/ sweepAt # 4 /\ pc' = "sweepDial" /\ sweepAt' = sweepAt + 1
    BY <1>11, VersionsLen DEF SweepPoll, SweepInv
  <2>2. Ordered' /\ (pc' = "resume" => AllRows')
    BY <2>1, VersionsLen DEF Ordered, AllRows
  <2> QED BY <2>1, <2>2 DEF SweepInv
<1>12. CASE SweepDial
  <2>1. /\ pc = "sweepDial" /\ UNCHANGED <<cfg, sweepAt, cancelled, ret>> /\ sweepAt \in 1..4
        /\ \/ pc' = "sweepHandshake" /\ scanned' = scanned
           \/ pc' = "sweep" /\ scanned' = Append(scanned, Row("FAILED"))
    BY <1>12 DEF SweepDial, Dial, SweepInv
  <2>2. CASE pc' = "sweepHandshake" /\ scanned' = scanned
    BY <2>1, <2>2 DEF SweepInv, Ordered
  <2>3. CASE pc' = "sweep" /\ scanned' = Append(scanned, Row("FAILED"))
    <3>1. scanned' \in Seq(SweepRow) /\ Ordered' /\ Len(scanned') = sweepAt
      BY <2>1, <2>3, RowAppended
    <3> QED BY <2>1, <2>3, <3>1 DEF SweepInv
  <2> QED BY <2>1, <2>2, <2>3
<1>13. CASE SweepHandshake
  <2>1. /\ pc = "sweepHandshake" /\ pc' = "sweep"
        /\ UNCHANGED <<cfg, sweepAt, cancelled, ret>> /\ sweepAt \in 1..4
    BY <1>13 DEF SweepHandshake, SweepInv
  <2>2. scanned' \in Seq(SweepRow) /\ Ordered' /\ Len(scanned') = sweepAt
    BY <1>13, <2>1, RowAppended DEF SweepHandshake
  <2> QED BY <2>1, <2>2 DEF SweepInv
<1>14. CASE ResumeDial
  BY <1>14, SweepQuiet DEF ResumeDial, Dial, CallInv, PlaceInv, ReturnInv
<1>15. CASE ResumeHandshake
  BY <1>15, SweepQuiet DEF ResumeHandshake, CallInv, PlaceInv, ReturnInv
<1>16. CASE Quic
  BY <1>16, SweepQuiet DEF Quic, CallInv, PlaceInv, ReturnInv
<1>17. CASE DeferredClose
  BY <1>17, SweepQuiet DEF DeferredClose, CallInv, PlaceInv, ReturnInv
<1>18. CASE CancelContext
  BY <1>18, SweepQuiet DEF CancelContext, Cancel, CallInv, PlaceInv, ReturnInv
<1>19. CASE TlsCallStep
  BY <1>19, SweepTlsStep
<1>20. CASE UNCHANGED vars
  BY <1>20, SweepQuiet DEF vars, CallInv, PlaceInv, ReturnInv
<1> QED BY <1>1, <1>2, <1>3, <1>4, <1>5, <1>6, <1>7, <1>8, <1>9, <1>10, <1>11, <1>12, <1>13,
           <1>14, <1>15, <1>16, <1>17, <1>18, <1>19, <1>20, NextCases

LEMMA ResumeStep == ASSUME CallInv, ResumeInv, [Next]_vars PROVE ResumeInv'
<1> USE DEF tlsRest, resultVars, resumeVars, BeforeTls, LeafPlaces, ScanPlaces
<1>1. CASE DialTarget
  BY <1>1 DEF DialTarget, Dial, ResumeInv, CallInv, PlaceInv
<1>2. CASE BuildConfig
  BY <1>2 DEF BuildConfig, ResumeInv, CallInv, PlaceInv
<1>3. CASE BeginTls
  BY <1>3 DEF BeginTls, StartTls, ResumeInv, CallInv, PlaceInv
<1>4. CASE TlsReturns
  BY <1>4 DEF TlsReturns, ResumeInv, CallInv, PlaceInv
<1>5. CASE Leaf
  BY <1>5 DEF Leaf, ResumeInv, CallInv, PlaceInv
<1>6. CASE OcspGet
  BY <1>6 DEF OcspGet, QueryConnection, ResumeInv, CallInv, PlaceInv
<1>7. CASE OcspPost
  BY <1>7 DEF OcspPost, QueryConnection, ResumeInv, CallInv, PlaceInv
<1>8. CASE OcspAnswer
  BY <1>8 DEF OcspAnswer, ResumeInv, CallInv, PlaceInv
<1>9. CASE Established
  BY <1>9 DEF Established, ResumeInv, CallInv, PlaceInv
<1>10. CASE HttpProbe
  BY <1>10 DEF HttpProbe, ResumeInv, CallInv, PlaceInv
<1>11. CASE SweepPoll
  BY <1>11 DEF SweepPoll, ResumeInv, CallInv, PlaceInv
<1>12. CASE SweepDial
  BY <1>12 DEF SweepDial, Dial, ResumeInv, CallInv, PlaceInv
<1>13. CASE SweepHandshake
  BY <1>13 DEF SweepHandshake, ResumeInv, CallInv, PlaceInv
<1>14. CASE ResumeDial
  BY <1>14 DEF ResumeDial, Dial, ResumeInv, CallInv, PlaceInv
<1>15. CASE ResumeHandshake
  BY <1>15 DEF ResumeHandshake, ResumeInv, CallInv, PlaceInv
<1>16. CASE Quic
  BY <1>16 DEF Quic, ResumeInv, CallInv, PlaceInv
<1>17. CASE DeferredClose
  BY <1>17 DEF DeferredClose, ResumeInv, CallInv, PlaceInv
<1>18. CASE CancelContext
  BY <1>18 DEF CancelContext, Cancel, ResumeInv, CallInv, PlaceInv
<1>19. CASE TlsCallStep
  BY <1>19, TlsCases DEF Outside, ResumeInv
<1>20. CASE UNCHANGED vars
  BY <1>20 DEF vars, ResumeInv, CallInv, PlaceInv
<1> QED BY <1>1, <1>2, <1>3, <1>4, <1>5, <1>6, <1>7, <1>8, <1>9, <1>10, <1>11, <1>12, <1>13,
           <1>14, <1>15, <1>16, <1>17, <1>18, <1>19, <1>20, NextCases

-----------------------------------------------------------------------------
(* The invariant. *)

IInv == /\ CallInv /\ SocketInv /\ HandshakeInv /\ ErrorInv
        /\ ExpiryInv /\ RevocationInv /\ SweepInv /\ ResumeInv

LEMMA InvInit == Init => IInv
<1> SUFFICES ASSUME Init PROVE IInv
  OBVIOUS
<1> USE DEF Init, TlsIdle, BeforeTls, LeafPlaces, ScanPlaces
<1>1. CallInv
  BY DEF CallInv, PlaceInv, HelperInv, ReturnInv, Places
<1>2. SocketInv
  BY DEF SocketInv
<1>3. HandshakeInv
  BY DEF HandshakeInv
<1>4. ErrorInv
  BY DEF ErrorInv
<1>5. ExpiryInv /\ RevocationInv
  BY DEF ExpiryInv, RevocationInv, OcspVerdicts
<1>6. SweepInv
  <2>1. scanned \in Seq(SweepRow) /\ Len(scanned) = 0
    BY EmptySeq
  <2>2. Ordered
    BY <2>1, LenProperties DEF Ordered
  <2> QED BY <2>1, <2>2 DEF SweepInv
<1>7. ResumeInv
  <2>1. resumed = FALSE
    OBVIOUS
  <2>2. resumption \in 0..1
    <3>1. resumption = 0
      OBVIOUS
    <3> HIDE DEF Init, TlsIdle
    <3> QED BY <3>1
  <2>3. resumed \in BOOLEAN
    BY <2>1, Zenon
  <2> HIDE DEF Init, TlsIdle
  <2> QED BY <2>2, <2>3 DEF ResumeInv
<1> QED BY <1>1, <1>2, <1>3, <1>4, <1>5, <1>6, <1>7 DEF IInv

LEMMA InvStep == IInv /\ [Next]_vars => IInv'
BY CallStep, SocketStep, HandshakeStep, ErrorStep, ExpiryStep, RevocationStep, SweepStep,
   ResumeStep DEF IInv

LEMMA InvCorrect == Spec => []IInv
BY InvInit, InvStep, PTL DEF Spec

-----------------------------------------------------------------------------
(* The theorems. *)

\* Every variable of the probe and of its TLS call stays in its type, whatever the peer
\* does and wherever the context is cancelled.
THEOREM TypeCorrect == Spec => []TypeOK
<1>1. ASSUME IInv PROVE TypeOK
  <2> USE <1>1 DEF IInv
  <2>1. TlsTypeOK
    <3>1. errChan \in Seq(Verdicts) /\ Len(errChan) <= 1
      <4>1. CASE errChan = <<>>
        BY <4>1, EmptySeq
      <4>2. CASE errChan # <<>>
        <5>1. errChan = Holding(verdict) /\ verdict \in Verdicts
          BY <4>2 DEF CallInv, HelperInv
        <5> QED BY <5>1 DEF Holding
      <4> QED BY <4>1, <4>2
    <3> QED BY <3>1 DEF TlsTypeOK, CallInv, PlaceInv, HelperInv, ReturnInv
  <2>2. pc \in {"dial", "config", "tls", "leaf", "ocsp", "revocation", "response",
                "established", "http", "sweep", "sweepDial", "sweepHandshake", "resume",
                "resumeHandshake", "quic", "close", "returned"}
    BY DEF CallInv, PlaceInv, Places, BeforeTls, LeafPlaces, ScanPlaces
  <2>3. protocol \in {0} \cup 10..13
    BY DEF HandshakeInv, Speakable, CipherVersions
  <2>4. status \in Nat /\ sweepAt \in 0..Len(Versions) /\ resumption \in 0..2
    BY VersionsLen DEF ErrorInv, SweepInv, ResumeInv
  <2>5. /\ \E c \in Cases : cfg = c.flags /\ peer = c.peer
        /\ connected \in BOOLEAN /\ handshake \in BOOLEAN /\ warned \in BOOLEAN
        /\ resumed \in BOOLEAN /\ error \in {"none", "tcp", "config", "tls", "http"}
    BY DEF HandshakeInv, ErrorInv, ExpiryInv, ResumeInv
  <2>6. /\ active \in {"none", "noURL", "failed", "reachable", "HTTPError"}
        /\ revocation \in OcspVerdicts \cup {"none", "NoOCSPURL", "Error", "Unreachable"}
        /\ responder \in OcspVerdicts \cup {"none", "HTTPError", "unreadable"}
    BY DEF RevocationInv
  <2>7. scanned \in Seq([protocol: {Versions[v] : v \in DOMAIN Versions},
                         status: {"FAILED", "SUPPORTED", "REJECTED"}])
    BY DEF SweepInv, SweepRow
  <2> QED BY <2>1, <2>2, <2>3, <2>4, <2>5, <2>6, <2>7 DEF TypeOK, SocketInv
<1> QED BY <1>1, InvCorrect, PTL

\* A result that says CertTrusted is one of a handshake that succeeded on the configuration
\* the flags asked for, and a chain only the unverified fallback captured is never reported
\* as trusted (tls.go:107-134).
THEOREM TrustTheorem == Spec => []TrustIsVerified
<1>1. IInv => TrustIsVerified
  BY DEF IInv, CallInv, ReturnInv, TrustIsVerified
<1> QED BY <1>1, InvCorrect, PTL

\* No socket of the TCP, TLS, fallback and sweep probes is open when the result is
\* returned, whatever failed, was cancelled or is still running in the helper.
THEOREM SocketsTheorem == Spec => []MainSocketsClosed
<1>1. IInv => MainSocketsClosed
  BY DEF IInv, CallInv, PlaceInv, ReturnInv, SocketInv, MainSocketsClosed, TlsSockets
<1> QED BY <1>1, InvCorrect, PTL

\* A result without an error is one of a target that every probe was content with: the
\* exit code and the summary count on it (main.go:180-198).
THEOREM ProbedTheorem == Spec => []NoErrorMeansProbed
<1>1. ASSUME IInv PROVE NoErrorMeansProbed
  <2> SUFFICES ASSUME pc = "returned"
               PROVE  /\ error = "none" =>
                           /\ connected /\ handshake /\ trusted
                           /\ status # 0 /\ (cfg.asserted # {} => status \in cfg.asserted)
                           /\ peer.asksCertificate => cfg.tls.keystore = "keypair"
                      /\ ~connected \/ ~handshake => error # "none"
    BY DEF NoErrorMeansProbed
  <2>1. error = "none" => connected = TRUE /\ ret = "conn" /\ Answered
    BY <1>1 DEF IInv, ErrorInv
  <2>2. ret = "conn" => handshake /\ trusted
    BY <1>1 DEF IInv, HandshakeInv, CallInv, ReturnInv, BeforeTls
  <2> QED BY <2>1, <2>2 DEF Answered, ClientCertificate
<1> QED BY <1>1, InvCorrect, PTL

\* A handshake succeeds only on the terms of the flags: name, root, expiry and version
\* (runner.go:42-114), for every combination of flags and stores.
THEOREM TermsTheorem == Spec => []HandshakeAsAsked
<1>1. ASSUME IInv PROVE HandshakeAsAsked
  <2> SUFFICES ASSUME handshake PROVE HandshakeAsAsked
    BY DEF HandshakeAsAsked
  <2>1. ret = "conn" /\ protocol \in Speakable /\ \E c \in Cases : cfg = c.flags /\ peer = c.peer
    BY <1>1 DEF IInv, HandshakeInv
  <2>2. Acceptable
    BY <1>1, <2>1 DEF IInv, HandshakeInv, CallInv, ReturnInv
  <2>3. "" \notin peer.names
    BY <2>1, CasesAssumption
  <2>4. IF cfg.tls.version = 0 THEN protocol >= 12 ELSE protocol = cfg.tls.version
    BY <2>1 DEF Speakable, VersionRange
  <2>5. ASSUME Trusted
        PROVE  /\ ~cfg.tls.noSNI
               /\ (IF cfg.tls.sni = "" THEN Host ELSE cfg.tls.sni) \in peer.names
               /\ peer.hoursLeft >= 0
    BY <2>3, <2>5 DEF Trusted, ServerName
  <2>6. ASSUME Trusted
        PROVE  /\ peer.anchor = "public" => cfg.tls.systemPool
               /\ peer.anchor = "private" => /\ cfg.tls.truststore # "unusable"
                                             /\ \/ cfg.tls.truststore # "none"
                                                \/ cfg.tls.keystore \notin {"none", "unusable"}
    BY <2>6 DEF Trusted, Roots, LoadTruststore, TrustFile
  <2> QED BY <2>2, <2>4, <2>5, <2>6 DEF Acceptable, HandshakeAsAsked
<1> QED BY <1>1, InvCorrect, PTL

\* Truncation toward zero adds less than a day, on both sides of zero (certs.go:111-116).
LEMMA DaysRounded ==
  ASSUME NEW hours \in Int, NEW days \in Int, days > 0
  PROVE  /\ hours <= 24 * days => DaysUntilExpiration(hours) <= days
         /\ DaysUntilExpiration(hours) <= days => hours < 24 * (days + 1)
<1>1. CASE hours >= 0
  BY <1>1 DEF DaysUntilExpiration
<1>2. CASE hours < 0
  <2>1. (-hours) \div 24 \in Nat
    BY <1>2
  <2> QED BY <1>2, <2>1 DEF DaysUntilExpiration
<1> QED BY <1>1, <1>2

\* Every captured leaf that is about to expire is warned of, whatever became of the
\* handshake, and no other.
THEOREM ExpiryTheorem == Spec => []ExpiryWarned
<1>1. ASSUME IInv PROVE ExpiryWarned
  <2> SUFFICES ASSUME pc = "returned", chain # "none" PROVE ExpiryWarned
    BY DEF ExpiryWarned
  <2>1. warned <=> Expires
    BY <1>1 DEF IInv, ExpiryInv, BeforeTls
  <2>2. cfg.warnDays \in Int /\ peer.hoursLeft \in Int
    BY <1>1, CasesAssumption DEF IInv, HandshakeInv
  <2> QED BY <2>1, <2>2, DaysRounded DEF Expires, ExpiryWarned
<1> QED BY <1>1, InvCorrect, PTL

\* A revocation verdict is the one the responder gave; there is none that was not asked for,
\* and one for every captured leaf that came with its issuer.
THEOREM RevocationTheorem == Spec => []RevocationTrue
<1>1. IInv => RevocationTrue
  BY DEF IInv, RevocationInv, RevocationTrue, BeforeTls, LeafPlaces
<1> QED BY <1>1, InvCorrect, PTL

\* The sweep writes one row for each version, in order, and only a cancellation leaves
\* versions out (scan.go:46-84).
THEOREM SweepTheorem == Spec => []SweepInOrder
<1>1. IInv => SweepInOrder
  BY DEF IInv, SweepInv, Ordered, AllRows, SweepInOrder
<1> QED BY <1>1, InvCorrect, PTL
\* The helper goroutine can be left behind by a cancelled call only, and whenever it has
\* its verdict to deliver the channel is empty, so its send goes through although nobody
\* receives any more (tls.go:86-112): whether it ends is up to its handshake alone.
THEOREM HelperTheorem ==
  Spec => []( /\ helper = "sending" => Len(errChan) < 1
              /\ helper \in {"handshaking", "sending"} => call = "select" \/ ret = "cancelled")
<1>1. ASSUME IInv
      PROVE  /\ helper = "sending" => Len(errChan) < 1
             /\ helper \in {"handshaking", "sending"} => call = "select" \/ ret = "cancelled"
  <2>1. /\ helper \in {"handshaking", "sending"} => errChan = <<>> /\ call # "idle"
        /\ helper \in {"handshaking", "sending"} => call \in {"idle", "select"}
                                                   \/ ret = "cancelled"
    BY <1>1 DEF IInv, CallInv, HelperInv
  <2> QED BY <2>1, EmptySeq
<1> QED BY <1>1, InvCorrect, PTL

\* A result that has been returned does not change any more, although the helper goroutine
\* of a cancelled call may still finish its handshake then, and neither does a revocation
\* verdict once there is one (runner.go:223-347, tls.go:86-112).
THEOREM FinalTheorem ==
  Spec => [][ /\ pc = "returned" =>
                   UNCHANGED <<pc, ret, chain, trusted, trustError, resultVars>>
              /\ revocation # "none" => revocation' = revocation]_vars
<1>1. ASSUME IInv, [Next]_vars, pc = "returned"
      PROVE  UNCHANGED <<pc, ret, chain, trusted, trustError, resultVars>>
  <2>1. call \in {"idle", "returned"}
    BY <1>1 DEF IInv, CallInv, PlaceInv
  <2>2. CASE TlsCallStep
    BY <2>1, <2>2, TlsCases
       DEF Outside, SelectCancelled, SelectVerdict, FallbackDialBegin, FallbackDialEnd,
           FallbackHandshake, HelperSends, HandshakeEnds
  <2>3. CASE CancelContext
    BY <2>3 DEF CancelContext, Cancel
  <2>4. CASE UNCHANGED vars
    BY <2>4 DEF vars, tlsVars
  <2>5. TlsCallStep \/ CancelContext \/ UNCHANGED vars
    BY <1>1, NextCases
       DEF DialTarget, Dial, BuildConfig, BeginTls, TlsReturns, Leaf, OcspGet, OcspPost,
           OcspAnswer, Established, HttpProbe, SweepPoll, SweepDial, SweepHandshake,
           ResumeDial, ResumeHandshake, Quic, DeferredClose
  <2> QED BY <2>2, <2>3, <2>4, <2>5
<1>2. ASSUME IInv, [Next]_vars, revocation # "none"
      PROVE  revocation' = revocation
  <2>1. pc \notin {"revocation", "response"}
    BY <1>2 DEF IInv, RevocationInv, BeforeTls, LeafPlaces
  <2>2. CASE TlsCallStep
    BY <2>2, TlsCases DEF Outside, resultVars, leafVars
  <2>3. CASE UNCHANGED vars
    BY <2>3 DEF vars, resultVars, leafVars
  <2> QED
    BY <1>2, <2>1, <2>2, <2>3, NextCases
       DEF DialTarget, BuildConfig, BeginTls, TlsReturns, Leaf, OcspGet, OcspPost,
           OcspAnswer, Established, HttpProbe, SweepPoll, SweepDial, SweepHandshake,
           ResumeDial, ResumeHandshake, Quic, DeferredClose, CancelContext, resultVars,
           leafVars
<1> QED BY <1>1, <1>2, InvCorrect, PTL DEF Spec

-----------------------------------------------------------------------------
(* How long a probe can be. *)

\* The steps from a place of the probe to its end, in one turn of each loop.
Remaining ==
  [place \in Places |->
     CASE place = "dial"                       -> 14
       [] place = "config"                     -> 13
       [] place = "tls"                        -> 12
       [] place = "leaf"                       -> 11
       [] place = "ocsp"                       -> 10
       [] place = "revocation"                 -> 9
       [] place = "response"                   -> 8
       [] place \in {"established", "sweepDial"} -> 7
       [] place \in {"http", "sweepHandshake"} -> 6
       [] place = "sweep"                      -> 5
       [] place = "resume"                     -> 4
       [] place = "resumeHandshake"            -> 3
       [] place = "quic"                       -> 2
       [] place = "close"                      -> 1
       [] OTHER                                -> 0]

\* And those of the TLS call and of its helper.
CallSteps ==
  [place \in {"idle", "select", "fallback", "fallbackDialing", "fallbackHandshake", "returned"} |->
     CASE place = "idle"              -> 5
       [] place = "select"            -> 4
       [] place = "fallback"          -> 3
       [] place = "fallbackDialing"   -> 2
       [] place = "fallbackHandshake" -> 1
       [] place = "returned"          -> 0]

HelperSteps ==
  [place \in {"idle", "handshaking", "sending", "ended"} |->
     CASE place = "idle"        -> 3
       [] place = "handshaking" -> 2
       [] place = "sending"     -> 1
       [] place = "ended"       -> 0]

CancelLeft == IF cancelled THEN 0 ELSE 1

TlsLeft == CallSteps[call] + HelperSteps[helper] + CancelLeft

\* A turn of the sweep or of the resumption test is paid for by one of those left.
ProbeLeft == Remaining[pc] + 3 * (4 - sweepAt) + 2 * (2 - resumption)

StepsLeft == TlsLeft + ProbeLeft

LEMMA PlaceNames ==
  Places = {"dial", "config", "tls", "leaf", "ocsp", "revocation", "response", "established",
            "http", "sweep", "sweepDial", "sweepHandshake", "resume", "resumeHandshake",
            "quic", "close", "returned"}
BY DEF Places, BeforeTls, LeafPlaces, ScanPlaces

LEMMA StepsType ==
  ASSUME TypeOK
  PROVE  /\ TlsLeft \in Nat /\ Remaining[pc] \in Nat
         /\ sweepAt \in 0..4 /\ resumption \in 0..2
         /\ ProbeLeft \in Nat /\ StepsLeft \in Nat
<1>1. TlsLeft \in Nat
  BY DEF TypeOK, TlsTypeOK, TlsLeft, CallSteps, HelperSteps, CancelLeft
<1>2. Remaining[pc] \in Nat
  BY PlaceNames DEF TypeOK, Remaining
<1>3. sweepAt \in 0..4 /\ resumption \in 0..2
  BY VersionsLen DEF TypeOK
<1>4. ProbeLeft \in Nat
  BY <1>2, <1>3 DEF ProbeLeft
<1> QED BY <1>1, <1>2, <1>3, <1>4 DEF StepsLeft

\* A step of the TLS call, of its helper or of the caller that cancels.
LEMMA TlsFalls ==
  ASSUME IInv, TypeOK, TypeOK', TlsCallStep \/ CancelContext \/ BeginTls
  PROVE  StepsLeft' < StepsLeft
<1>1. ProbeLeft' = ProbeLeft /\ ProbeLeft \in Nat
  BY StepsType, TlsCases DEF Outside, CancelContext, BeginTls, ProbeLeft, resultVars, scanVars,
     resumeVars
<1>2. /\ CallSteps[call] \in Nat /\ HelperSteps[helper] \in Nat /\ CancelLeft \in Nat
      /\ CallSteps[call'] \in Nat /\ HelperSteps[helper'] \in Nat /\ CancelLeft' \in Nat
  BY DEF TypeOK, TlsTypeOK, CallSteps, HelperSteps, CancelLeft
<1>3. CASE BeginTls
  <2>1. CallSteps[call'] < CallSteps[call]
    BY <1>3 DEF BeginTls, StartTls, CallSteps
  <2>2. HelperSteps[helper'] <= HelperSteps[helper]
    BY <1>3 DEF BeginTls, StartTls, HelperSteps, IInv, CallInv, HelperInv
  <2>3. CancelLeft' = CancelLeft
    BY <1>3 DEF BeginTls, StartTls, CancelLeft
  <2> QED BY <1>1, <1>2, <2>1, <2>2, <2>3 DEF TlsLeft, StepsLeft
<1>4. CASE CancelContext
  <2>1. /\ CallSteps[call'] = CallSteps[call] /\ HelperSteps[helper'] = HelperSteps[helper]
        /\ CancelLeft' < CancelLeft
    BY <1>4 DEF CancelContext, Cancel, CallSteps, HelperSteps, CancelLeft
  <2> QED BY <1>1, <1>2, <2>1 DEF TlsLeft, StepsLeft
<1>5. CASE HelperSends
  <2>1. /\ CallSteps[call'] = CallSteps[call] /\ HelperSteps[helper'] < HelperSteps[helper]
        /\ CancelLeft' = CancelLeft
    BY <1>5 DEF HelperSends, CallSteps, HelperSteps, CancelLeft
  <2> QED BY <1>1, <1>2, <2>1 DEF TlsLeft, StepsLeft
<1>6. CASE \E v \in Verdicts : HandshakeEnds(v)
  <2>1. /\ CallSteps[call'] = CallSteps[call] /\ HelperSteps[helper'] < HelperSteps[helper]
        /\ CancelLeft' = CancelLeft
    BY <1>6 DEF HandshakeEnds, CallSteps, HelperSteps, CancelLeft
  <2> QED BY <1>1, <1>2, <2>1 DEF TlsLeft, StepsLeft
<1>7. CASE SelectCancelled \/ SelectVerdict \/ FallbackDialBegin \/ FallbackDialEnd
             \/ FallbackHandshake
  <2>1. UNCHANGED <<cancelled, helper>>
    BY <1>7 DEF SelectCancelled, SelectVerdict, FallbackDialBegin, FallbackDialEnd,
       FallbackHandshake
  <2>2. \/ call = "select" /\ call' \in {"returned", "fallback"}
        \/ call = "fallback" /\ call' \in {"returned", "fallbackDialing"}
        \/ call = "fallbackDialing" /\ call' \in {"returned", "fallbackHandshake"}
        \/ call = "fallbackHandshake" /\ call' = "returned"
    BY <1>7 DEF SelectCancelled, SelectVerdict, FallbackDialBegin, FallbackDialEnd,
       FallbackHandshake
  <2>3. CallSteps[call'] < CallSteps[call]
    BY <2>2 DEF CallSteps
  <2>4. HelperSteps[helper'] = HelperSteps[helper] /\ CancelLeft' = CancelLeft
    BY <2>1 DEF HelperSteps, CancelLeft
  <2> QED BY <1>1, <1>2, <2>3, <2>4 DEF TlsLeft, StepsLeft
<1> QED BY <1>3, <1>4, <1>5, <1>6, <1>7, TlsCases

\* A step of the calling goroutine outside the TLS call.
LEMMA ProbeFalls ==
  ASSUME TypeOK, [Next]_vars, ~UNCHANGED vars, ~(TlsCallStep \/ CancelContext \/ BeginTls)
  PROVE  StepsLeft' < StepsLeft
<1>1. /\ TlsLeft \in Nat /\ Remaining[pc] \in Nat
      /\ sweepAt \in 0..4 /\ resumption \in 0..2
  BY StepsType
<1>2. ASSUME UNCHANGED <<cancelled, call, helper>>,
             Remaining[pc'] \in Nat,
             sweepAt' \in Int, resumption' \in Int,
             Remaining[pc'] - 3 * sweepAt' - 2 * resumption'
               < Remaining[pc] - 3 * sweepAt - 2 * resumption
      PROVE  StepsLeft' < StepsLeft
  <2>1. TlsLeft' = TlsLeft
    BY <1>2 DEF TlsLeft, CancelLeft
  <2>2. TlsLeft + ProbeLeft' < TlsLeft + ProbeLeft
    BY <1>1, <1>2 DEF ProbeLeft
  <2> QED BY <2>1, <2>2 DEF StepsLeft
<1>3. CASE DialTarget \/ BuildConfig \/ TlsReturns \/ Leaf \/ OcspGet
  <2>1. UNCHANGED <<cancelled, call, helper, sweepAt, resumption>>
    BY <1>3 DEF DialTarget, BuildConfig, TlsReturns, Leaf, OcspGet, tlsRest, tlsVars, scanVars,
       resumeVars
  <2>2. \/ pc = "dial" /\ pc' \in {"config", "returned"}
        \/ pc = "config" /\ pc' \in {"tls", "returned"}
        \/ pc = "tls" /\ pc' \in {"leaf", "established"}
        \/ pc = "leaf" /\ pc' \in {"ocsp", "established"}
        \/ pc = "ocsp" /\ pc' \in {"revocation", "established"}
    BY <1>3 DEF DialTarget, Dial, BuildConfig, TlsReturns, Leaf, OcspGet
  <2>3. Remaining[pc'] \in Nat /\ Remaining[pc'] < Remaining[pc]
    BY <2>2, PlaceNames DEF Remaining
  <2> QED BY <1>1, <1>2, <2>1, <2>3
<1>4. CASE OcspPost \/ OcspAnswer \/ Established \/ HttpProbe \/ Quic \/ DeferredClose
  <2>1. UNCHANGED <<cancelled, call, helper, sweepAt, resumption>>
    BY <1>4 DEF OcspPost, OcspAnswer, Established, HttpProbe, Quic, DeferredClose, tlsRest,
       tlsVars, scanVars, resumeVars, resultVars
  <2>2. \/ pc = "revocation" /\ pc' \in {"response", "established"}
        \/ pc = "response" /\ pc' = "established"
        \/ pc = "established" /\ pc' \in {"http", "returned"}
        \/ pc = "http" /\ pc' \in {"sweep", "close"}
        \/ pc = "quic" /\ pc' = "close"
        \/ pc = "close" /\ pc' = "returned"
    BY <1>4 DEF OcspPost, OcspAnswer, Established, HttpProbe, Quic, DeferredClose
  <2>3. Remaining[pc'] \in Nat /\ Remaining[pc'] < Remaining[pc]
    BY <2>2, PlaceNames DEF Remaining
  <2> QED BY <1>1, <1>2, <2>1, <2>3
<1>5. CASE SweepPoll \/ SweepDial \/ SweepHandshake
  <2>1. UNCHANGED <<cancelled, call, helper, resumption>>
    BY <1>5 DEF SweepPoll, SweepDial, SweepHandshake, tlsRest, tlsVars, resumeVars
  <2>2. \/ pc = "sweep" /\ pc' = "resume" /\ sweepAt' = sweepAt
        \/ pc = "sweep" /\ pc' = "sweepDial" /\ sweepAt' = sweepAt + 1
        \/ pc = "sweepDial" /\ pc' \in {"sweep", "sweepHandshake"} /\ sweepAt' = sweepAt
        \/ pc = "sweepHandshake" /\ pc' = "sweep" /\ sweepAt' = sweepAt
    BY <1>5 DEF SweepPoll, SweepDial, Dial, SweepHandshake
  <2>3. /\ Remaining["sweep"] = 5 /\ Remaining["sweepDial"] = 7
        /\ Remaining["sweepHandshake"] = 6 /\ Remaining["resume"] = 4
    BY PlaceNames DEF Remaining
  <2> QED BY <1>1, <1>2, <2>1, <2>2, <2>3
<1>6. CASE ResumeDial \/ ResumeHandshake
  <2>1. UNCHANGED <<cancelled, call, helper, sweepAt>>
    BY <1>6 DEF ResumeDial, ResumeHandshake, tlsRest, scanVars, resultVars
  <2>2. \/ pc = "resume" /\ pc' \in {"resumeHandshake", "quic"} /\ resumption' = resumption
        \/ /\ pc = "resumeHandshake" /\ pc' \in {"resume", "quic"}
           /\ resumption' = resumption + 1
        \/ pc = "resumeHandshake" /\ pc' = "quic" /\ resumption' = resumption
    BY <1>6 DEF ResumeDial, Dial, ResumeHandshake, resultVars, resumeVars
  <2>3. /\ Remaining["resume"] = 4 /\ Remaining["resumeHandshake"] = 3
        /\ Remaining["quic"] = 2
    BY PlaceNames DEF Remaining
  <2> QED BY <1>1, <1>2, <2>1, <2>2, <2>3
<1> QED BY <1>3, <1>4, <1>5, <1>6, NextCases

\* A target is probed in 39 steps at most, those of the TLS call, of its helper and of
\* the caller that cancels counted in: whatever the flags and the peer, the probe cannot
\* turn in its sweep or in its resumption test, so one that does not return waits for a
\* peer in a handshake (runner.go:223-347, tls.go:76-166, scan.go:32-157).
THEOREM BoundedTheorem == Spec => [](StepsLeft \in 0..39) /\ [][StepsLeft' < StepsLeft]_vars
<1>1. Init => StepsLeft = 39
  <2> SUFFICES ASSUME Init PROVE StepsLeft = 39
    OBVIOUS
  <2>1. TlsLeft = 9
    BY DEF Init, TlsIdle, TlsLeft, CallSteps, HelperSteps, CancelLeft
  <2>2. Remaining[pc] = 14
    BY PlaceNames DEF Init, Remaining
  <2> QED BY <2>1, <2>2 DEF Init, ProbeLeft, StepsLeft
<1>2. TypeOK => StepsLeft \in Nat
  BY StepsType
<1>3. IInv /\ TypeOK /\ TypeOK' /\ [Next]_vars => [StepsLeft' < StepsLeft]_vars
  BY TlsFalls, ProbeFalls
<1>4. ASSUME IInv, TypeOK, TypeOK', [Next]_vars, StepsLeft \in 0..39, (StepsLeft \in Nat)'
      PROVE  (StepsLeft \in 0..39)'
  <2>1. CASE UNCHANGED vars
    <3>1. StepsLeft' = StepsLeft
      BY <2>1 DEF vars, tlsVars, resultVars, scanVars, resumeVars, StepsLeft, TlsLeft, CallSteps,
         HelperSteps, CancelLeft, ProbeLeft
    <3> QED BY <1>4, <3>1
  <2>2. CASE ~UNCHANGED vars
    BY <1>3, <1>4, <2>2
  <2> QED BY <2>1, <2>2
<1>5. Init => StepsLeft \in 0..39
  BY <1>1
<1> QED BY <1>2, <1>3, <1>4, <1>5, InvCorrect, TypeCorrect, PTL DEF Spec
=============================================================================
