---------------------------- MODULE MCParseTargets ----------------------------
(* Flags, files and grids for TLC.                                             *)
EXTENDS ParseTargets

U(scheme, host, port, path) == [scheme |-> scheme, host |-> host, port |-> port, path |-> path]

Comment == U("blank", "", NoPort, "")
Bad     == U("none", "?", NoPort, "")

\* The same target as text without a port, with one and as a URL; its http form,
\* another path, another host, a port above 65535, one no int holds, no host.
SomeItems == {U("none", "a", NoPort, ""), U("https", "a", 443, "/"), U("http", "a", NoPort, ""),
              U("https", "a", 443, "/x"), U("none", "b", 65536, ""),
              U("none", "b", Unreadable, ""), U("none", "", 443, ""), Bad}

Lists(S, n) == UNION {[1..m -> S] : m \in 0..n}

\* Flags alone, a file after a flag, a grid after a flag and a file.  A flag that is
\* not given is as NewConfig leaves it.
ArgumentConfigs ==
  [hostport: Lists(SomeItems, 1), endpoints: Lists(SomeItems, 2), urls: Lists(SomeItems, 1),
   file: {"none"}, lines: {<<>>}, strict: {FALSE}, hosts: {<<>>}, ports: {<<443>>}]

FileConfigs ==
  [hostport: {<<>>}, endpoints: {<<>>, <<U("none", "a", 443, "")>>}, urls: {<<>>},
   file: {"missing", "readable", "failing"},
   lines: Lists({U("none", "a", NoPort, ""), U("https", "a", 443, "/x"), Bad, Comment}, 3),
   strict: BOOLEAN, hosts: {<<>>}, ports: {<<443>>}]

GridConfigs ==
  [hostport: {<<>>}, endpoints: {<<>>}, urls: {<<>>, <<U("https", "b", 80, "")>>},
   file: {"readable"}, lines: Lists({U("none", "a", 80, ""), Bad}, 1), strict: {FALSE},
   hosts: Lists({"a", "b", "", "?"}, 2), ports: Lists({80, 443, Unreadable, -1}, 3) \ {<<>>}]

AllConfigs == ArgumentConfigs \cup FileConfigs \cup GridConfigs
=============================================================================
