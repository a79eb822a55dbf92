---------------------------- MODULE MCExecuteTarget ----------------------------
(* Flags and peers of one target's probe for TLC. *)
EXTENDS ExecuteTarget

Plain == [version |-> 0, cipher |-> "", noSNI |-> FALSE, sni |-> "", insecure |-> FALSE,
          truststore |-> "none", keystore |-> "none", systemPool |-> TRUE]

PlainPeer == [names |-> {"host"}, anchor |-> "public", versions |-> {12, 13},
              asksCertificate |-> FALSE, hoursLeft |-> 1000, chainLen |-> 2, hasOCSP |-> TRUE]

Flags(tls, asserted, days, ocsp, scan) ==
  [tls: tls, asserted: asserted, warnDays: days, checkOCSP: ocsp, scan: scan]

\* Every sequence of probes, on a peer that is in order; an invalid version.
ProbeCases ==
  [flags: Flags({Plain}, {{}, {200, 404}}, {0}, {FALSE}, BOOLEAN)
            \cup Flags({[Plain EXCEPT !.version = 9]}, {{}}, {0}, {FALSE}, {FALSE}),
   peer: {PlainPeer}]

\* Expiry and revocation, with chains that are refused among them.
LeafCases ==
  [flags: Flags({Plain, [Plain EXCEPT !.insecure = TRUE]}, {{}}, {0, 2}, {FALSE}, {FALSE}),
   peer: {[PlainPeer EXCEPT !.hoursLeft = h] : h \in {-30, -5, 0, 23, 48, 49, 71, 72}}]
  \cup [flags: Flags({Plain}, {{}}, {0}, {TRUE}, {FALSE}),
        peer: {[PlainPeer EXCEPT !.chainLen = n, !.hasOCSP = o, !.anchor = a] :
                 n \in 1..2, o \in BOOLEAN, a \in {"public", "private"}}]

\* Names and roots.
TrustCases ==
  [flags: Flags([version: {0}, cipher: {""}, noSNI: BOOLEAN, sni: {"", "alias"},
                 insecure: BOOLEAN, truststore: Stores, keystore: Stores,
                 systemPool: BOOLEAN], {{}}, {0}, {FALSE}, {FALSE}),
   peer: {[PlainPeer EXCEPT !.names = n, !.anchor = a] :
            n \in {{"host"}, {"alias"}}, a \in {"public", "private"}}]

\* Versions, suites and client certificates.
VersionCases ==
  [flags: Flags([version: {0} \cup 10..13, cipher: Ciphers \ {"anyVersion"}, noSNI: {FALSE},
                 sni: {""}, insecure: {FALSE}, truststore: {"none"},
                 keystore: {"unusable", "keypair"}, systemPool: {TRUE}],
                {{}}, {0}, {FALSE}, {FALSE}),
   peer: {[PlainPeer EXCEPT !.versions = v, !.asksCertificate = c] :
            v \in {10..12, {12, 13}, {13}}, c \in BOOLEAN}]

AllCases == ProbeCases \cup LeafCases \cup TrustCases \cup VersionCases

\* An OCSP query, of a leaf that comes with its issuer and of one that comes alone.
IssuerCases == [flags: Flags({Plain}, {{}}, {0}, {TRUE}, {FALSE}),
                peer: {[PlainPeer EXCEPT !.chainLen = n] : n \in 1..2}]

\* A scan and no OCSP query.
ScanCases == [flags: Flags({Plain}, {{}}, {0}, {FALSE}, {TRUE}), peer: {PlainPeer}]
=============================================================================
