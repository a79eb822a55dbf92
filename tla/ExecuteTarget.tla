---------------------------- MODULE ExecuteTarget ----------------------------
(***************************************************************************)
(* ExecuteTarget (runner.go:223-347): every probe of one target, in order,   *)
(* and the sockets each of them opens.  The TLS probe, with its helper        *)
(* goroutine, is TlsProbe.tla; the others are steps of the one goroutine      *)
(* that runs ExecuteTarget:                                                 *)
(*                                                                         *)
(*   TCP, config, TLS, leaf and OCSP, HTTP, version sweep, resumption, QUIC   *)
(*                                                                         *)
(* The TCP calls made here keep the contract of TcpCall.tla, which           *)
(* TcpProbe.tla implements: a socket or an error, and an error if the context *)
(* was cancelled before.                                                    *)
(***************************************************************************)
EXTENDS TlsProbe, TlsConfig

CONSTANT Cases   \* the flags and the peers a run covers

\* An OCSP responder's answer is one of these, or something else.
OcspVerdicts == {"Good", "Revoked", "Unknown"}

ASSUME CasesAssumption ==
  \A c \in Cases :
    /\ c.flags.tls \in TlsFlags
    /\ c.flags.asserted \subseteq Nat   \* cfg.AssertStatus, empty if not given
    /\ c.flags.warnDays \in Int
    /\ c.flags.checkOCSP \in BOOLEAN /\ c.flags.scan \in BOOLEAN
    /\ c.peer.names \subseteq STRING /\ "" \notin c.peer.names   \* of its certificate
    /\ c.peer.anchor \in {"public", "private"}    \* the root its chain ends in
    /\ c.peer.versions \subseteq 10..13
    /\ c.peer.asksCertificate \in BOOLEAN
    /\ c.peer.hoursLeft \in Int                   \* until its certificate expires
    /\ c.peer.chainLen \in Nat \ {0}
    /\ c.peer.hasOCSP \in BOOLEAN                 \* its certificate names a responder

Versions == <<"TLS1.0", "TLS1.1", "TLS1.2", "TLS1.3">>

VARIABLES
  cfg,        \* the flags
  peer,       \* the target they are used on
  pc,         \* the probe ExecuteTarget is at
  connected,  \* result.TCPConnected
  handshake,  \* result.TLSHandshakeSuccess
  error,      \* result.Error, by the probe it names
  protocol,   \* result.TLSProtocol, 0 for none
  warned,     \* result.CertExpirationWarning
  active,     \* result.ActiveOCSPStatus
  revocation, \* the status of result.OCSPRevocation, "none" for nil
  responder,  \* history: what the responder answered to the POST
  status,     \* the code in result.HTTPStatusLine, 0 for none
  sweepAt,    \* the sweep's loop: which of Versions it is at
  scanned,    \* result.ProtocolScanResults
  resumption, \* handshakes of the resumption test that succeeded
  resumed     \* result.SessionResumptionSuccess

scanVars == <<sweepAt, scanned>>
resumeVars == <<resumption, resumed>>
leafVars == <<protocol, warned, active, revocation, responder>>
resultVars == <<connected, handshake, error, leafVars, status, scanVars, resumeVars>>
inputs == <<cfg, peer>>
vars == <<tlsVars, inputs, pc, resultVars>>

Init == /\ TlsIdle
        /\ open = {}
        /\ \E c \in Cases : cfg = c.flags /\ peer = c.peer
        /\ pc = "dial"
        /\ connected = FALSE
        /\ handshake = FALSE
        /\ error = "none"
        /\ protocol = 0
        /\ warned = FALSE
        /\ active = "none"
        /\ revocation = "none"
        /\ responder = "none"
        /\ status = 0
        /\ sweepAt = 0
        /\ scanned = <<>>
        /\ resumption = 0
        /\ resumed = FALSE

\* A TCP call of this goroutine: `opener` names the socket it may open.
Dial(from, opener, onConn, onError) ==
  /\ pc = from
  /\ \/ ~cancelled /\ pc' = onConn /\ open' = open \cup {opener}
     \/ pc' = onError /\ UNCHANGED open

\* What only the TLS call changes.
tlsRest == <<cancelled, call, helper, verdict, errChan, ret, chain, trusted, trustError>>

-----------------------------------------------------------------------------
(* 1. TCP, and the configuration built for the target. *)

DialTarget == /\ Dial("dial", "raw", "config", "returned")
              /\ connected' = (pc' = "config")
              /\ error' = IF pc' = "config" THEN "none" ELSE "tcp"
              /\ UNCHANGED <<tlsRest, inputs, leafVars, status, handshake, scanVars, resumeVars>>

BuildConfig == /\ pc = "config"
               /\ IF ValidTls(cfg.tls)
                    THEN pc' = "tls" /\ UNCHANGED <<open, error>>
                    ELSE pc' = "returned" /\ open' = open \ {"raw"} /\ error' = "config"
               /\ UNCHANGED <<tlsRest, inputs, leafVars, status, connected, handshake,
                              scanVars, resumeVars>>

-----------------------------------------------------------------------------
(* 2. TLS: the call of TlsProbe, and the copy of its result. *)

BeginTls == pc = "tls" /\ StartTls /\ UNCHANGED <<inputs, pc, resultVars>>

Host == "host"

Trusted == /\ ServerName(cfg.tls, Host) \in peer.names
           /\ peer.anchor \in Roots(cfg.tls)
           /\ peer.hoursLeft >= 0

\* The versions both sides can speak.  A peer that asks for a certificate refuses
\* a client without one in the handshake up to TLS 1.2, and after it in TLS 1.3.
Speakable == {v \in VersionRange(cfg.tls) \cap CipherVersions(cfg.tls) \cap peer.versions :
                v <= 12 /\ peer.asksCertificate => ClientCertificate(cfg.tls)}

\* Whether crypto/tls can accept the peer under this configuration.
Acceptable == (cfg.tls.insecure \/ Trusted) /\ Speakable # {}

TlsCallStep == /\ TlsStep
               /\ verdict' = "ok" => Acceptable
               /\ UNCHANGED <<inputs, pc, resultVars>>

TlsReturns == /\ pc = "tls" /\ call = "returned"
              /\ handshake' = (ret = "conn")
              /\ protocol' \in IF ret = "conn" THEN Speakable ELSE {0}
              /\ pc' = IF chain # "none" THEN "leaf" ELSE "established"
              /\ UNCHANGED <<tlsVars, inputs, connected, error, warned, active, revocation,
                             responder, status, scanVars, resumeVars>>

-----------------------------------------------------------------------------
(* 3. The captured leaf certificate: its expiry, and OCSP when asked for. *)

\* int(hours / 24) truncates toward zero (certs.go:111-116).
DaysUntilExpiration(hours) == IF hours >= 0 THEN hours \div 24 ELSE -((-hours) \div 24)

\* Mutant: only the days before the last one of the period count.
LeafStrict == /\ pc = "leaf"
              /\ warned' = (cfg.warnDays > 0
                              /\ DaysUntilExpiration(peer.hoursLeft) < cfg.warnDays)
              /\ pc' = IF cfg.checkOCSP THEN "ocsp" ELSE "established"
              /\ UNCHANGED <<tlsVars, inputs, connected, handshake, error, protocol, active,
                             revocation, responder, status, scanVars, resumeVars>>

Leaf == /\ pc = "leaf"
        /\ warned' = (cfg.warnDays > 0
                        /\ DaysUntilExpiration(peer.hoursLeft) <= cfg.warnDays)
        /\ pc' = IF cfg.checkOCSP THEN "ocsp" ELSE "established"
        /\ UNCHANGED <<tlsVars, inputs, connected, handshake, error, protocol, active,
                       revocation, responder, status, scanVars, resumeVars>>

\* A query may leave its connection to the idle pool of a client nobody keeps.
QueryConnection == open' \in {open, open \cup {"ocsp"}}

\* CheckActiveOCSP: a GET whose response is only looked at for its status code.
OcspGet ==
  /\ pc = "ocsp"
  /\ \/ ~peer.hasOCSP /\ active' = "noURL" /\ UNCHANGED open
     \/ peer.hasOCSP /\ active' = "failed" /\ UNCHANGED open
     \/ /\ peer.hasOCSP /\ ~cancelled
        /\ active' \in {"reachable", "HTTPError"}
        /\ QueryConnection
  /\ pc' = IF peer.chainLen > 1 THEN "revocation" ELSE "established"
  /\ UNCHANGED <<tlsRest, inputs, connected, handshake, error, protocol, warned, revocation,
                 responder, status, scanVars, resumeVars>>

\* CheckOCSPRevocation, with the issuer the peer sent: the POST.
OcspPost ==
  /\ pc = "revocation"
  /\ \/ /\ ~peer.hasOCSP /\ revocation' = "NoOCSPURL"
        /\ pc' = "established" /\ UNCHANGED <<open, responder>>
     \/ /\ peer.hasOCSP /\ revocation' \in {"Error", "Unreachable"}
        /\ pc' = "established" /\ UNCHANGED <<open, responder>>
     \/ /\ peer.hasOCSP /\ ~cancelled
        /\ responder' \in OcspVerdicts \cup {"HTTPError", "unreadable"}
        /\ QueryConnection
        /\ pc' = "response" /\ UNCHANGED revocation
  /\ UNCHANGED <<tlsRest, inputs, connected, handshake, error, protocol, warned, active,
                 status, scanVars, resumeVars>>

\* Mutant: an answer that was not read is no reason to doubt the certificate.
OcspAnswerHopeful ==
  /\ pc = "response"
  /\ revocation' \in {"Good"} \cup IF responder \in OcspVerdicts THEN {responder} ELSE {"Error"}
  /\ pc' = "established"
  /\ UNCHANGED <<tlsVars, inputs, connected, handshake, error, protocol, warned, active,
                 responder, status, scanVars, resumeVars>>

\* Its answer: the reading may fail, a cancellation being one reason.
OcspAnswer ==
  /\ pc = "response"
  /\ \/ revocation' = "Error"
     \/ responder \in OcspVerdicts /\ revocation' = responder
  /\ pc' = "established"
  /\ UNCHANGED <<tlsVars, inputs, connected, handshake, error, protocol, warned, active,
                 responder, status, scanVars, resumeVars>>

\* Mutant: the failed probe keeps its socket.
EstablishedLeaks ==
  /\ pc = "established"
  /\ IF ret = "conn" THEN pc' = "http" /\ UNCHANGED error
                     ELSE pc' = "returned" /\ error' = "tls"
  /\ UNCHANGED <<tlsVars, inputs, leafVars, status, connected, handshake, scanVars, resumeVars>>

\* Without a connection the probe ends here, whatever the leaf said.
Established == /\ pc = "established"
               /\ IF ret = "conn"
                    THEN pc' = "http" /\ UNCHANGED <<open, error>>
                    ELSE pc' = "returned" /\ open' = open \ {"raw"} /\ error' = "tls"
               /\ UNCHANGED <<tlsRest, inputs, leafVars, status, connected, handshake,
                              scanVars, resumeVars>>

-----------------------------------------------------------------------------
(* 4. HTTP on a connection of its own, closed before the probe returns. *)

\* Mutant: the assertion is only looked at when the request fails.
HttpUnasserted ==
  /\ pc = "http"
  /\ \/ error' = "http" /\ UNCHANGED status
     \/ ~cancelled /\ status' \in {200, 404, 503} /\ UNCHANGED error
  /\ pc' = IF cfg.scan THEN "sweep" ELSE "close"
  /\ UNCHANGED <<tlsVars, inputs, leafVars, connected, handshake, scanVars, resumeVars>>

\* The request fails, or its status is compared with the asserted ones.  A peer
\* answers only clients it has accepted; an error closing the body is lost.
HttpProbe ==
  /\ pc = "http"
  /\ \/ error' = "http" /\ UNCHANGED status
     \/ /\ ~cancelled
        /\ peer.asksCertificate => ClientCertificate(cfg.tls)
        /\ status' \in {200, 404, 503}
        /\ error' = IF cfg.asserted = {} \/ status' \in cfg.asserted THEN "none" ELSE "http"
  /\ pc' = IF cfg.scan THEN "sweep" ELSE "close"
  /\ UNCHANGED <<tlsVars, inputs, leafVars, connected, handshake, scanVars, resumeVars>>

-----------------------------------------------------------------------------
(* 5. The scan: version sweep, resumption test, QUIC. *)

Row(outcome) == [protocol |-> Versions[sweepAt], status |-> outcome]

\* The poll at the head of the sweep's loop; a cancelled sweep keeps its rows.
SweepPoll == /\ pc = "sweep"
             /\ IF cancelled \/ sweepAt = Len(Versions)
                  THEN pc' = "resume" /\ UNCHANGED sweepAt
                  ELSE pc' = "sweepDial" /\ sweepAt' = sweepAt + 1
             /\ UNCHANGED <<tlsVars, inputs, leafVars, status, connected, handshake, error,
                            scanned, resumeVars>>

\* Mutants: a failed dial leaves no row; it is repeated until it connects.
SweepDialNoRow == /\ Dial("sweepDial", "sweep", "sweepHandshake", "sweep")
                  /\ UNCHANGED <<tlsRest, inputs, resultVars>>

SweepDialRetries == /\ Dial("sweepDial", "sweep", "sweepHandshake", "sweepDial")
                    /\ UNCHANGED <<tlsRest, inputs, resultVars>>

SweepDial == /\ Dial("sweepDial", "sweep", "sweepHandshake", "sweep")
             /\ scanned' = IF pc' = "sweep" THEN Append(scanned, Row("FAILED")) ELSE scanned
             /\ UNCHANGED <<tlsRest, inputs, leafVars, status, connected, handshake, error,
                            sweepAt, resumeVars>>

SweepHandshake == /\ pc = "sweepHandshake"
                  /\ \E outcome \in {"SUPPORTED", "REJECTED"} :
                       scanned' = Append(scanned, Row(outcome))
                  /\ open' = open \ {"sweep"}
                  /\ pc' = "sweep"
                  /\ UNCHANGED <<tlsRest, inputs, leafVars, status, connected, handshake,
                                 error, sweepAt, resumeVars>>

ResumeDial == /\ Dial("resume", "resume", "resumeHandshake", "quic")
              /\ UNCHANGED <<tlsRest, inputs, resultVars>>

\* Mutant: one handshake too many.
ResumeHandshakeThrice ==
  /\ pc = "resumeHandshake"
  /\ open' = open \ {"resume"}
  /\ resumption' = resumption + 1
  /\ pc' = IF resumption <= 1 THEN "resume" ELSE "quic"
  /\ UNCHANGED <<tlsRest, inputs, leafVars, status, connected, handshake, error, scanVars,
                 resumed>>

\* A handshake that fails returns without closing its connection, unless the
\* cancelled context has closed it already.
ResumeHandshake ==
  /\ pc = "resumeHandshake"
  /\ \/ /\ open' = open \ {"resume"}
        /\ resumption' = resumption + 1
        /\ IF resumption = 0
             THEN \/ pc' = "resume" /\ UNCHANGED resumed
                  \/ pc' = "quic" /\ UNCHANGED resumed         \* conn1.Close failed
             ELSE pc' = "quic" /\ resumed' \in BOOLEAN
     \/ /\ pc' = "quic"
        /\ open' \in {open} \cup (IF cancelled THEN {open \ {"resume"}} ELSE {})
        /\ UNCHANGED <<resumption, resumed>>
  /\ UNCHANGED <<tlsRest, inputs, leafVars, status, connected, handshake, error, scanVars>>

\* CheckQUIC opens and closes a UDP socket of its own.
Quic == /\ pc = "quic"
        /\ pc' = "close"
        /\ UNCHANGED <<tlsVars, inputs, resultVars>>

\* The deferred close of the TLS connection.  Its error is assigned to a result
\* that has already been copied out, so the returned one does not change.
DeferredClose == /\ pc = "close"
                 /\ open' = open \ {"raw"}
                 /\ pc' = "returned"
                 /\ UNCHANGED <<tlsRest, inputs, resultVars>>

-----------------------------------------------------------------------------

CancelContext == Cancel /\ UNCHANGED <<inputs, pc, resultVars>>

\* The result is out; a helper that is still running does not change it.
Done == pc = "returned" /\ UNCHANGED vars

\* The steps of the calling goroutine outside TLS that end whatever a peer does.
PromptStep == \/ DialTarget \/ BuildConfig \/ BeginTls \/ TlsReturns
              \/ Leaf \/ OcspGet \/ OcspPost \/ OcspAnswer \/ Established \/ HttpProbe
              \/ SweepPoll \/ SweepDial \/ ResumeDial \/ Quic \/ DeferredClose

\* The sweep's and the resumption test's handshakes have the context only.
PeerStep == SweepHandshake \/ ResumeHandshake

Next == CancelContext \/ PromptStep \/ PeerStep \/ TlsCallStep \/ Done

Spec == Init /\ [][Next]_vars

PromptCallStep == PromptTlsStep /\ UNCHANGED <<inputs, pc, resultVars>>

\* Nothing is assumed of a peer in a handshake until the context is cancelled.
FairSpec == /\ Spec
            /\ WF_vars(PromptStep \/ PromptCallStep \/ (cancelled /\ PeerStep))
            /\ WF_vars(PromptHelperStep /\ UNCHANGED <<inputs, pc, resultVars>>)

-----------------------------------------------------------------------------
(* Properties. *)

Sockets == {"raw", "fallback", "ocsp", "sweep", "resume"}

\* Every variable of the probe and of its TLS call stays in its type.
TypeOK == /\ TlsTypeOK
          /\ open \subseteq Sockets
          /\ \E c \in Cases : cfg = c.flags /\ peer = c.peer
          /\ pc \in {"dial", "config", "tls", "leaf", "ocsp", "revocation", "response",
                     "established", "http", "sweep",
                     "sweepDial", "sweepHandshake", "resume", "resumeHandshake", "quic",
                     "close", "returned"}
          /\ connected \in BOOLEAN /\ handshake \in BOOLEAN
          /\ error \in {"none", "tcp", "config", "tls", "http"}
          /\ protocol \in {0} \cup 10..13
          /\ warned \in BOOLEAN
          /\ active \in {"none", "noURL", "failed", "reachable", "HTTPError"}
          /\ revocation \in OcspVerdicts \cup {"none", "NoOCSPURL", "Error", "Unreachable"}
          /\ responder \in OcspVerdicts \cup {"none", "HTTPError", "unreadable"}
          /\ status \in Nat
          /\ sweepAt \in 0..Len(Versions)
          /\ scanned \in Seq([protocol: {Versions[v] : v \in DOMAIN Versions},
                              status: {"FAILED", "SUPPORTED", "REJECTED"}])
          /\ resumption \in 0..2
          /\ resumed \in BOOLEAN

\* The TLS probe hands over an open connection or none, and never leaves the
\* fallback's socket behind, although its helper may still be running.
TlsSockets == pc = "tls" /\ call = "returned" =>
                /\ ret = "conn" => "raw" \in open
                /\ ret = "cancelled" => "raw" \notin open
                /\ "fallback" \notin open

\* Whatever fails, is cancelled or is interrupted, no socket of the TCP, TLS,
\* fallback and sweep probes is open when the target's result is returned
\* (README.md:62, DESIGN.md:59), and none was lost on the way out of TLS.
MainSocketsClosed == /\ TlsSockets
                     /\ pc = "returned" => open \subseteq {"resume", "ocsp"}

\* A result without an error is one of a target that was connected to, whose
\* handshake succeeded and chain was accepted, which accepted the client and
\* answered with an asserted status: the exit code counts on it.
NoErrorMeansProbed == pc = "returned" =>
  /\ error = "none" => /\ connected /\ handshake /\ trusted
                       /\ status # 0 /\ (cfg.asserted # {} => status \in cfg.asserted)
                       /\ peer.asksCertificate => cfg.tls.keystore = "keypair"
  /\ ~connected \/ ~handshake => error # "none"

\* A handshake only succeeds on the terms the flags ask for: the name that was
\* given, a root of the system or of the one file that names roots, a certificate
\* that has not expired, the version that was given or a safe one.  A store that
\* cannot be loaded is ignored (runner.go:101) but never widens trust.  No handshake
\* succeeds with -no-sni and without -insecure: crypto/tls has no name to verify.
HandshakeAsAsked == handshake =>
  /\ ~cfg.tls.insecure =>
       /\ ~cfg.tls.noSNI
       /\ (IF cfg.tls.sni = "" THEN Host ELSE cfg.tls.sni) \in peer.names
       /\ peer.hoursLeft >= 0
       /\ peer.anchor = "public" => cfg.tls.systemPool
       /\ peer.anchor = "private" => /\ cfg.tls.truststore # "unusable"
                                     /\ \/ cfg.tls.truststore # "none"
                                        \/ cfg.tls.keystore \notin {"none", "unusable"}
  /\ IF cfg.tls.version = 0 THEN protocol >= 12 ELSE protocol = cfg.tls.version

\* Every captured leaf that expires within -warn-days, or has expired, is warned
\* of, verified or not; rounding adds less than a day (certs.go:115).
ExpiryWarned == pc = "returned" /\ chain # "none" =>
  /\ cfg.warnDays > 0 /\ peer.hoursLeft <= 24 * cfg.warnDays => warned
  /\ warned => cfg.warnDays > 0 /\ peer.hoursLeft < 24 * (cfg.warnDays + 1)

\* There is a revocation status only if one was asked for of a leaf that was
\* captured, and whenever it was and the issuer came with the leaf.  A verdict is
\* the one the responder gave: a query that was refused, cut off or cancelled never
\* reads as "Good".  A leaf without an issuer is IssuerFetched.
RevocationTrue == pc = "returned" =>
  /\ revocation # "none" => cfg.checkOCSP /\ chain # "none"
  /\ cfg.checkOCSP /\ chain # "none" /\ peer.chainLen > 1 => revocation # "none"
  /\ revocation \in OcspVerdicts => peer.hasOCSP /\ responder = revocation

\* Whichever versions fail to dial, are refused or are supported, the sweep has
\* one row for each, in order; only a cancellation leaves the last ones out.
SweepInOrder == /\ \A k \in DOMAIN scanned : scanned[k].protocol = Versions[k]
                /\ pc = "returned" /\ cfg.scan /\ ret = "conn" /\ ~cancelled =>
                     Len(scanned) = Len(Versions)

\* A cancellation ends the probe of the target even if no peer says a word, where
\* the target is reached directly or through a proxy that answers: the fairness of
\* Dial assumes that, and a silent proxy holds TCP itself (TcpProbe.tla,
\* CancelReturns).
CancelReturns == cancelled ~> pc = "returned"

\* "automatically fetching issuer certificates via AIA extension" (README.md:19):
\* with -check-ocsp every leaf that was captured has a revocation status, be it that
\* the query failed, whether or not the peer sent the issuer.
IssuerFetched ==
  pc = "returned" /\ cfg.checkOCSP /\ chain # "none" => revocation # "none"

\* "All network sockets [...] to prevent socket/file descriptor leaks"
\* (README.md:62): nothing is left open once the result is returned.
AllSocketsClosed == pc = "returned" => open = {}
=============================================================================
