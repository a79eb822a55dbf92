----------------------------- MODULE MCCertExport -----------------------------
(* Two targets of a batch: paths of one server that may present different       *)
(* chains, two hosts whose file names are the same, and unrelated hosts.        *)
EXTENDS CertExport

Sizes == [leaf |-> 2, other |-> 1, issuer |-> 1]

SomeJobs == [host: {<<"a", "..", "b">>, <<"a", "_", "b">>, <<"a">>}, port: {443},
             chain: {<<"leaf">>, <<"leaf", "issuer">>, <<"other", "issuer">>}]

\* Nothing, or an expired certificate that was longer.
Leftovers == {<<>>, [b \in 1..3 |-> <<"other", b>>]}
=============================================================================
