------------------------------ MODULE TlsConfig ------------------------------
(***************************************************************************)
(* CreateTLSConfig (runner.go:42-114) and the stores it loads (certs.go):     *)
(* what the flags make of the handshake.  Protocol versions are 10 to 13.     *)
(*                                                                         *)
(* A store is what its file turns out to be when it is read.  `systemPool`    *)
(* says whether the operating system has root certificates.                  *)
(***************************************************************************)
EXTENDS Integers

Stores == {"none",             \* the flag is not given
           "unusable",         \* refused path, unreadable, or no certificate in it
           "certificates",     \* certificates and no key
           "keypair"}          \* a certificate with its key

Ciphers == {"", "anyVersion", "TLS1.2Only", "TLS1.3Only", "unknown"}

\* The flags that reach the handshake.
TlsFlags == [version: {0} \cup 9..13,  \* 0 if not given, 9 if it names no version
             cipher: Ciphers,
             noSNI: BOOLEAN, sni: STRING, insecure: BOOLEAN,
             truststore: Stores, keystore: Stores, systemPool: BOOLEAN]

ValidTls(flags) == flags.version # 9 /\ flags.cipher # "unknown"

VersionRange(flags) == IF flags.version = 0 THEN 12..13 ELSE {flags.version}

\* The versions that have a suite the configuration allows: crypto/tls does not
\* look at CipherSuites for TLS 1.3.
CipherVersions(flags) == CASE flags.cipher = "TLS1.2Only" -> 12..13
                           [] flags.cipher = "TLS1.3Only" -> {13}
                           [] OTHER                        -> 10..13

ServerName(flags, host) == IF flags.noSNI THEN ""
                           ELSE IF flags.sni # "" THEN flags.sni ELSE host

\* LoadTruststore adds the certificates of the file to the system's.
LoadTruststore(store) == store \in {"certificates", "keypair"}

\* Mutant: both stores are loaded.
BothStores(flags) == IF LoadTruststore(flags.keystore) THEN flags.keystore ELSE flags.truststore

\* The keystore takes the place of a truststore that is not given.
TrustFile(flags) == IF flags.truststore # "none" THEN flags.truststore ELSE flags.keystore

\* The roots a chain may end in: when loading fails, the error is dropped and
\* RootCAs stays nil, which means the system's.
Roots(flags) == (IF flags.systemPool THEN {"public"} ELSE {})
                  \cup (IF LoadTruststore(TrustFile(flags)) THEN {"private"} ELSE {})

\* LoadClientKeypair: a keystore that does not load leaves the client without a
\* certificate, again in silence.
ClientCertificate(flags) == flags.keystore = "keypair"
=============================================================================
