# TLA+ models of tlstester

`tlstester` probes a list of TLS endpoints in parallel (TCP and proxy dialing, TLS
handshake, certificate and OCSP inspection, HTTP request, capability scan) and turns what
it found into a report and an exit code. This directory models its control: goroutines and
channels, sockets and who closes them, retries, cancellation, what the flags ask of a
handshake, the parsers of target lists and SCT lists, the exported files, and the way from
results to exit code. The models are checked with TLC on small instances; the safety
properties that hold, but for the one that compares a parser with a recursive reference
definition, are also proved with TLAPS for all values of the constants.

## 1. Inventory

| Component (source) | State | Operations | What makes it correct |
|---|---|---|---|
| Worker pool, `RunDiagnostics` (`src/runner.go:134-215`) | two bounded channels, one result slot per target, a counter, the goroutines' positions, the context | feed, receive, poll, execute, send, abandon, close, collect, trim, return | every target probed at most once; results in input order; nothing lost unless cancelled; no send on a closed channel; returns; leaves no goroutine |
| Target probe, `ExecuteTarget` (`src/runner.go:223-347`) | the result record, the TLS connection, a socket per sub-probe | the probes in sequence, with early returns | every socket closed on every path; no error means everything was verified; ends when cancelled |
| TCP, `TCP`, `DialViaProxy`, `socks5Handshake` (`src/probes/tcp.go`) | loop counter, last error, socket | lookup, dial, proxy handshake, retry delay | no socket leaks; retry budget; cancellation stops the dialing |
| TLS, `TLS` (`src/probes/tls.go:76-166`) | handshake goroutine, one-place error channel, result | handshake, select, insecure fallback | connection handed out or closed; unverified chain never trusted; the goroutine ends |
| Scan (`src/probes/scan.go`) | rows, session cache | version sweep, resumption test, QUIC | rows in order, sockets closed |
| HTTP (`src/probes/http.go`) | a transport of its own | one request, status assertion | transport closed; no answer, or one nobody asserted, is an error |
| OCSP (`src/probes/ocsp.go`) | a client per query | GET reachability, POST revocation | a verdict is the responder's own; connections released |
| SCT parsing (`src/probes/tls.go:139-249`) | position in the list, SCTs found | TLS extension, unwrap, list header, entries | reads in bounds, entries apart, ends, reads back what was encoded |
| Certificate export (`src/probes/tls.go:256-286`) | files, shared between the calls of a batch | name, open, write, close | whole certificates, no gaps, names in one directory |
| Command line (`src/cmd/tlstester/main.go`) | flags, output error, counters | early exits, log file, batch, outputs, exit code | exit code and report agree with the results; interrupts honoured |
| Target parsing (`src/target.go`) | set of seen keys, list, warnings | add, expand, read file, drop the warnings | no duplicates, order kept, nothing that parses left out, no partial list |
| TLS configuration, stores (`src/runner.go:42-114`, `src/certs/certs.go`) | none | choose versions, cipher, SNI, roots, client certificate; load a store | a handshake succeeds only on the terms that were asked for |
| Reporters, diagnostics, config record (`src/reporter`, `src/diagnose.go`, `src/config.go`) | none | formatting | write errors reported |

Interaction: `main` builds the flags, creates a context that a signal cancels, and calls
`RunDiagnostics`. Each worker calls `ExecuteTarget`, which calls the probes one after the
other with the same context. `TCP` is called by `ExecuteTarget`, by the TLS fallback, by
every row of the sweep and twice by the resumption test; HTTP, OCSP and QUIC open
connections of their own and do not use the proxy. Shared mutable state is the context, the
two channels and the files of the certificate export; a result travels by value.

The hard behaviours are the interleavings of feeder, workers, closer and collector around
full, closed and abandoned channels; a cancellation between any two steps (a Go `select`
with several ready cases may take any of them); peers that answer wrongly, late or never;
failures half-way through a sequence that owns a socket; and the mapping of partial results
to an answer and an exit code. `PROJECT.json` lists each hazard at its line.

## 2. Modules

| Module | Models | Used by |
|---|---|---|
| `Batch` | the promise of `RunDiagnostics` to its caller, without goroutines | `RunDiagnostics` (refinement), `Cli` (EXTENDS) |
| `RunDiagnostics` | `RunDiagnostics` | `MCRunDiagnostics`, proofs |
| `TcpCall` | the promise of `TCP` to its caller | `TcpProbe` (refinement); `ExecuteTarget`'s `Dial` |
| `TcpProbe` | one call of `TCP` with its proxy handshakes | `MCTcpProbe` |
| `TlsProbe` | one call of `TLS` with its goroutine and fallback | `ExecuteTarget` (EXTENDS) |
| `TlsConfig` | `CreateTLSConfig` and the stores, as operators on the flags | `ExecuteTarget` (EXTENDS) |
| `ExecuteTarget` | `ExecuteTarget`, the leaf, OCSP, HTTP and the scan as its steps | `MCExecuteTarget` |
| `SctList` | the SCTs of a handshake, from its bytes | `MCSctList` |
| `CertExport` | overlapping calls of `ExportCertificates` | `MCCertExport` |
| `ParseTargets` | `ParseTargets`, `ParseURLTarget` | `MCParseTargets` |
| `Cli` | `main` and `DumpDiagnostics`, over `Batch` | `MCCli` |
| `...Proofs` | theorems about the module of that name: `RunDiagnostics`, `TcpProbe`, `ExecuteTarget` (with `TlsProbe` and `TlsConfig`), `Cli` (with `Batch`), `SctList`, `ParseTargets`, `CertExport` | |

The `MC` modules give the constants their values. `MCSctList` also holds a reference
definition, the RFC 6962 encoding, which the parser is compared with. The list of targets is
compared with the texts that name them, numbered flags first, then lines, then the grid by rows
(`Text`, `InOrderNamed` in `ParseTargets`).

Operators named as mutants (`CollectAppend`, `LoopHeadExtra`, ...) are altered forms of the
definition that follows them. Putting one in its place must make a property fail; none is
used by a specification.

### Batch
`slots` stands for the slice `results`, `stopped` for the context's cancellation,
`returned` and `answer` for the return. `Deliver` fills one slot with a result of its own
target. `Return` needs a full set of slots or a cancellation; a cancelled batch answers with
as many leading slots as results were delivered, which is what the code does.

### RunDiagnostics
One action per communication of a goroutine. `targetChan` and `resultChan` are sequences
bounded by `BufSize`, with `targetClosed` and `resultClosed`. `pc[w]` is where worker `w`
is: `receive` (the range), `poll` (the first select), `execute` (`ExecuteTarget`), `send`
(the second select), `exited`. `Execute` leaves the outcome open: what a probe finds is not
the pool's business. `FeedClose` covers both closes of `targetChan`. Targets are numbered
from 1. An empty target list returns before any goroutine exists and is outside.

### TcpProbe and TcpCall
`pc` follows the call: `lookup`, `loop` (head and poll), `dial`, `dialing`, the steps of
the proxy handshake, `attempted`, `delay`, `decide`, `returned`. `After` says what each
handshake step may be followed by; each may also fail and then closes its socket
(`closeConnWithError`). `open` counts the sockets the call owns. The retry count, the route
and whether the context was cancelled before the call (`doomed`) are chosen in `Init`.
`dials` and `late` are history variables.

`TcpCall` is what a caller sees: a socket, or an error and no socket, and only an error
when the context was cancelled before; a call that may make no attempt can also return
nothing at all. The refinement maps every step but the return and the cancellation to
stuttering.

### TlsProbe, TlsConfig and ExecuteTarget
`TlsProbe` holds the call, its helper goroutine and the channel between them, as actions
without a specification of their own. `ExecuteTarget` makes the call (`BeginTls`,
`TlsReturns`) and runs the other probes as steps of one program counter. `open` is the set
of open sockets by the name of their opener. A TCP call inside is one step (`Dial`), a
step of `TcpCall` for a retry count that is not negative. `verdict` is what crypto/tls and
the peer make of the handshake. "Trusted" is the code's `CertTrusted`, which `-insecure`
also sets.

`TlsConfig` turns the flags into a range of versions, a server name, roots and a client
certificate. A store is one of the four things its file can turn out to be. What crypto/tls
does with these is in `Trusted`, `Speakable` and `Acceptable`: a verdict "ok" is possible
only for a peer that is acceptable. Versions are compared by number, certificates by the
names they carry, the root they end in and the hours they have left.

`Leaf` computes the expiry warning, `OcspGet` is the reachability query, `OcspPost` and
`OcspAnswer` are the revocation query, with a step between the responder's answer and its
reading because a cancellation fits there. `HttpProbe` compares the status with
`-assert-status`, here the set of its codes. The export the leaf branch also makes touches
only files and its error is dropped: it is `CertExport`.

### SctList
One action for each SCT of the TLS extension and one for the end of that loop, one for the
header of the list, one for each entry. Buffers are sequences of bytes; an SCT is its place in
the buffer, since its fields are read at fixed offsets that `MinSctLen` guarantees. `reach`
records how far the parser has read: beyond the buffer Go would panic.

### CertExport
`files` maps names to sequences of blocks. `os.WriteFile` is an open that truncates, writes
from the start in as many parts as the kernel likes, and a close. Each step may fail. `old`
remembers the files before the calls. The name is built from the host, the port and the
place in the chain, as the code does.

### ParseTargets
A text is the record of what `net/url` makes of it (`Item`); `Parses` and `TargetOf` are
`ParseURLTarget`. One action for each turn of a loop: a flag, a line, a grid point. `k` is
the number of turns, `pc` the loop. A failing file is one whose scanner stops with an error
after the lines it has. `pc = "result"` is the return of `ParseTargetsWithWarnings`; `DropWarnings`
is what `ParseTargets`, which the program calls, makes of it.

### Cli
`EXTENDS Batch`; `main` is the position in the function. `Probe` is a delivery of the batch
with what the flags allow it to find and with the certificate export whose error is dropped;
outcomes are the errors `ExecuteTarget` ends with. `lost` and `report` are history: which
outputs were not written in full (a CSV file whose writes went well and whose close failed is
`"csvClose"`), and the slice the reporters were given. A signal is
possible from `NotifyContext` on; before that it kills the process without any code
running. Whether the target flags parse is an input here and computed in `ParseTargets`.

## 3. Runs

| Run | Instance | What it shows |
|---|---|---|
| `pool` | 4 targets, 2 workers, buffer 1, 2 outcomes; 48 k states | types, input order, completeness without cancellation, one place per target, exact counter, no send after close, slots written once; any batch returns if its probes end, all goroutines end, the pool implements `Batch!FairSpec`, with which a cancelled batch returns |
| `pool_trim` | 3 targets, 2 workers | violation: the trim keeps slots, not results |
| `tcp_safety` | -1 to 2 retries, all three routes, cancelled before or during the call; 813 states | no leaked socket, retry budget, at most one dial after a cancellation, termination, and `TcpCall` is implemented: a nil error comes with a socket exactly for counts that are not negative |
| `tcp_silent_proxy` | proxied routes | violation: a silent proxy holds a cancelled call |
| `probe_target` | 1306 pairs of flags and peer; 213 k states | sockets closed, errors, trust, expiry and revocation truthful, handshakes only as asked, sweep in order, ends when cancelled, the helper ends |
| `probe_resume_leak` | scan | violation: a failed resumption handshake leaves its socket open |
| `probe_issuer` | an OCSP query, of a leaf with its issuer and of one alone | violation: the issuer of a leaf that came alone is not fetched |
| `cli_exit` | 2 targets, all flags, all findings; 13.4 k states | exit code and report agree with the results, and the exit code with lost JSON and CSV; an interrupted batch that returns exits with 130; the program ends if its probes do |
| `cli_config_code` | as `cli_exit` | violation: exit code 4 is never used |
| `sct_list` | all strings of up to 6 bytes out of 3, all encodings of up to 3 SCTs and two of more bytes, bare and wrapped; 10.8 k states | no read past the buffer, no byte in two SCTs, round trip unless a bare list looks wrapped, the parser ends |
| `parse_targets` | up to 4 flags, 3 lines, a grid of 2 by 3; 147 k states | no duplicates, order of naming with nothing that parses left out, an error exactly for the faults of the input |
| `cert_export` | 2 calls, 3 hosts, 3 chains, old files or none; 330 k states | overlapping calls that agree leave whole certificates; a failed one leaves no gap |

**Bounds.** The pool's interesting cases need at least two workers and more targets than workers
and channel places together: a full `targetChan`, a full `resultChan`, a worker overtaking another,
a worker that exits while others go on, a feeder with nobody left to receive. Four targets, two
workers and one-place channels have them all, and the proofs take over from there. So they do for
the worker counts of zero, below zero (which give one worker) and above the number of targets, which
no run has and for which `CompleteTheorem` and `NobodyStuckTheorem` hold as for every integer.
Two retries distinguish a first, a middle and the last attempt. Two targets are enough for the
exit code, which depends on whether some, none or all passed, and for a cut answer. No action has
a bound of its own: every counter is bounded by the constants.

`probe_target` is a union of four families, since the probes read disjoint flags: the
sequence of probes on a peer in order; expiry (30 hours ago to 72 hours ahead around
`-warn-days 2`, both sides of every day's boundary) and OCSP; names, roots and stores in
all combinations; versions, suites and client certificates in all combinations. Cancellation
and verdicts are free in each. The SCT parser's constant 43 is 2 in the instance, so that
strings short enough to enumerate hold several entries that are long enough and some that
are not; one encoding is longer than 128 bytes and one longer than 1024, which need lengths in
long form; bare, the longer one begins with the bytes 4 and 2 and is read as an OCTET STRING, the
case `RoundTrip` excepts. Entries
whose length overruns the list, or the buffer, by one byte and by more are all there.
`MaxInt` of `parse_targets` is 65536, so that the port 65536 parses, which is what the
property depends on, and one more number does not. Two calls of the export are enough: the
name of a file is disputed between two writers. A chain of two has a file before and a file
after any failure.

**Deadlock** is checked in every run. The only terminal states are the ones after the
return or the exit, where `Done` (`Exited`) stutters.

**Fairness.** The Go scheduler runs every goroutine that can run: weak fairness on the
feeder, closer, collector and each worker, nothing stronger: a worker that competes for an
index may always be overtaken. Nothing makes the
environment cancel, fail or succeed. A dial, an HTTP client and a DNS lookup end by
their own timeouts (a positive `-timeout` is assumed). A handshake is only assumed to end
once the context is cancelled, because `HandshakeContext` is interrupted then; a read from
a proxy is not assumed to end at all. Where a property needs more, the assumption is its
left-hand side: `ProbesEnd => <>returned`, `ProxiesAnswer => <>(pc = "returned")`, and for the
exit code of an interrupted batch `CancelledBatchReturns`: `main` itself is only assumed to run on,
and that a cancelled batch returns is what `ImplementsBatch` shows if the probes in progress end.
The SCT parser is sequential: weak fairness on its step says that it runs.

`PromptCancelSpec` (a probe ends after a cancellation) is what `ExecuteTarget`'s
`CancelReturns` shows, for a target reached directly or through a proxy that answers; with a
silent proxy it fails (`tcp_silent_proxy`), and the batch then hangs with it: a second
signal is swallowed like the first, since `NotifyContext` stays in force until `main` ends.

## 4. Proofs

Each proof module extends the module it is about, states an inductive invariant `IInv` as a
conjunction of named parts, proves `Init => IInv` and `IInv /\ [Next]_vars => IInv'`, and draws
the theorems from it (`RunDiagnosticsProofs` has several smaller invariants instead of one). The
theorems hold for every value of the constants that the named assumption of the module allows.

| Theorem | States | For every |
|---|---|---|
| `RunDiagnosticsProofs!TypeCorrect` | `TypeOK` | positive number of targets and buffer limit, integer worker count, set of outcomes |
| `OrderTheorem`, `EachTargetOnceTheorem` | `OrderPreserved`, `EachTargetOnce` | |
| `ReceivedTheorem`, `CompleteTheorem` | `ReceivedExact`, `AnswerComplete` | |
| `SlotsTheorem`, `ClosedTheorem` | `SlotsWrittenOnce`, `ClosedMeansNoSend` (action properties) | |
| `RefinesBatch` | `Spec => B!Spec` | |
| `NobodyStuckTheorem`, `BoundedTheorem` | until all goroutines have ended one can go on; a batch takes at most `MaxSteps` steps | |
| `TcpProbeProofs!TypeCorrect` | `TypeOK` | set of retry counts, negative ones too, and of routes |
| `NoLeakTheorem`, `BudgetTheorem`, `LateTheorem` | `NoSocketLeak`, `RetryBudget`, `CancelStopsDialing` | |
| `ImplementsTheorem` | `ImplementsTcpCall`, the refinement of `TcpCall` | |
| `BoundedTheorem` | a call takes at most `MaxSteps` steps | |
| `ExecuteTargetProofs!TypeCorrect` | `TypeOK` of the probe and its TLS call | flags, stores, peers, warning period and lifetime left |
| `TrustTheorem`, `TermsTheorem` | `TrustIsVerified`, `HandshakeAsAsked` | |
| `SocketsTheorem`, `ProbedTheorem` | `MainSocketsClosed`, `NoErrorMeansProbed` | |
| `ExpiryTheorem`, `RevocationTheorem`, `SweepTheorem` | `ExpiryWarned`, `RevocationTrue`, `SweepInOrder` | |
| `HelperTheorem`, `FinalTheorem`, `BoundedTheorem` | the helper's send never blocks; a returned result stays as it is; a target takes at most 39 steps | |
| `CliProofs!ReportTheorem`, `ExitTheorem` | `ReportIsComplete`, `ExitCodeTrue` | number of targets, flags and findings |
| `SctListProofs!BoundsTheorem`, `ApartTheorem` | `ReadsInBounds`, `EntriesApart` | byte sequence and minimal length |
| `ReadBackTheorem`, `StapledTheorem`, `BoundedTheorem` | entries that fill a list are read back; so are those of the TLS extension; the parser cannot loop | |
| `ParseTargetsProofs!DuplicatesTheorem`, `AnswerTheorem` | `NoDuplicates`, `AnswerFollowsInput` | flags, file, grid, `MaxInt` and refused host names |
| `OrderTheorem` | `InOrderNamed` | |
| `OnlyGivenTheorem` | every target in the list was given | |
| `CertExportProofs!NoGapsTheorem`, `WholeTheorem` | `NoGaps`, `ExportedWhole` | number of overlapping calls, chain, size, old content |

**Assumptions.** `RunAssumption` and `BatchAssumption`: there is a target, and the reserved
outcome `"zero"` is none a probe can find; `OutcomesAssumption` lists the ones it can.
`CasesAssumption`: the types of flags and peers; no certificate carries the empty name.
`SctAssumption`: bytes are bytes, and a certificate's extension is shorter than 65536 bytes,
beyond which `ContentLength` is not modelled. `ParseAssumption`: `MaxInt` is at least 443, at
most one `-hostport`, at least one grid port (`NewConfig` sets one), and a blank line names no
host. `ExportAssumption` and `TcpAssumption` are types. TLC evaluates all of them on the
instances.

**Pool.** None of the properties is inductive. `CarryInv` says that a worker with a result in
hand holds one about the index it took; `OrderInv` adds that every result in flight is
paired with its own index, from which the order follows. For uniqueness, `QueueInv` says
that the waiting indices are consecutive and end just before the feeder's, `UniqueInv` that
no index is in two places, and `KeptInv` that without a cancellation every fed index is
somewhere. `ReceivedExact` follows because `UniqueInv` makes every `Collect` fill an empty
slot. `EndInv` orders the end of the batch: `resultChan` is closed only after all workers
exited, and a worker exits uncancelled only when `targetChan` is closed and empty; with
`KeptInv` all slots are then filled. The refinement maps `Collect` to `Deliver`, `Cancel`
to `Stop`, `Return` to `Return` and everything else to stuttering. Lemmas on sequences
(`QueueTake`, `Prefix`, `Slice`) and cardinalities (`CountStep`, `CountFull`) carry the
data part.

**Steps left.** Four modules have a `BoundedTheorem`: a number `StepsLeft` that never falls
below zero and is lowered by every step, cancellations included; it starts within a stated bound
(for the parser, at one its input gives). It is
the part of termination that needs no fairness, for all sizes: no interleaving, answer or byte
makes a batch, a call, a probe or the parser turn for ever, so what does not end is waiting.
For the pool, `NobodyStuckTheorem` says that somebody is not: when nobody can go on, the
collector finds its channel empty and open, so a worker is left, and that one needs an empty
`targetChan`, which the feeder could fill or close. With `HelperTheorem`, what a batch can
wait for is a probe, and what a probe can wait for is a peer or a proxy.

**TCP.** That no socket is open at the return needs to know who owns it before: `SocketInv`
ties `open` to the steps of the proxy handshake and to `conn`. The budget needs `DialInv`: the
number of dials is the loop counter before the dial and one more after it, and whoever is past
the first turn without a connection has an error, which is what makes the code's last `if`
return one. `LateInv` says that nothing passes the poll once the context is cancelled. The
refinement maps the return to `Succeed`, `Fail` or `ReturnNothing`; `OutcomeInv` says which.

**Target probe.** `CallInv` relates three places: the probe, the TLS call, and the helper
goroutine, which may still be on its way when the call was cancelled. Its `HelperInv` says that
the verdict is in the channel from the helper's end until the call takes it, and that only a
cancelled call has returned before that. `SocketInv` says which sockets can be open at each
place; the raw one is open as long as the call can still succeed, unless the handshake was
interrupted. `HandshakeInv` carries `Acceptable` from the verdict to the result, `ErrorInv`
that a probe is only reached if those before it went well, `ExpiryInv` and `RevocationInv` that
the leaf is looked at exactly if there is one, `SweepInv` that the rows written are one for each
version that is past. `DaysRounded` is the arithmetic of truncation. `FinalTheorem` follows from
`CallInv`: once the probe has returned, the call is over, and only the helper or a cancellation
can still take a step.

**Command line.** `ExitCodeTrue` speaks of the slots, the code of the answer: `AnswerInv` says
that an answer that gets past the look at `ctx.Err()` has the result of every target, because a
batch nobody stopped returns only when all slots are filled and a stopped one ends in 130.
`OutputInv` says that JSON or CSV that was lost has left an error behind, or the exit code itself.
`CountZero` turns the counters into statements about every target.

**SCT list.** `PositionInv` says that everything found lies before the position, so that the next
entry, two bytes further, is behind all others. That `ReadsInBounds` is inductive rests on the
unwrapping: `UnwrappedBytes` shows that a content length never passes the buffer. For
`ReadBackTheorem`, `Fill(starts)` says that the list is filled by entries that begin at `starts`,
for any set of places (their order is then `EntriesApart`), and `FillInv` that the position is
one of them and what was found is what lies before it. `StapledInv` keeps the order of the TLS
extension as an increasing function from what was found to what was sent.

**Target list.** `SeenInv` says that `seen` is the set of keys of the list; the code keeps the
two side by side. `ReadInv` says what is known of the flags and lines already read, at each
place, and that the lines with a warning are the bad ones among them; `AnswerInv` what an answer
implies. `OrderInv` follows the list: the texts looked at so far are those up to `Looked`, each key
among them is in the list, and the targets stand in the order of the texts that named them first;
its grid part rests on `Division`. `AnswerTheorem` needs it too: a list that is not empty shows
that some text parses, and an empty one at the end that none does.

**Certificate export.** `AloneInv` describes the files of a call that shares no name. For calls
that share names `HeldInv` is needed: every file a call has opened is *held* by some call, the
last that truncated it, whose blocks are all there; a later truncation moves the hold, and a
write by any other call puts in place what is there already. With all calls ended, the holder
has written the whole certificate, and no block is behind it.

**Only model-checked.** All liveness: `BatchReturns`, `NothingLeftRunning`,
`DirectCancelReturns`, `CallReturns`, `CancelReturns`, `HelperEnds`, `InterruptedExits130`,
`ProgramExits`, `ParserEnds`, and the fairness part of the pool's refinement; the provers do not
handle fairness and `ENABLED`. Their safety part is proved for the pool, the TCP call, the probe
and the SCT parser (*steps left*). `RoundTrip` compares the SCT parser with a recursive encoding
(`FlattenSeq`), and that the encoding of every list has the shape `ReadBackTheorem` supposes
would take induction over the data; what the parser does with that shape is proved.

## 5. Where the code departs from what is said of it

Shown by a run: the trim (`pool_trim`), the silent proxy (`tcp_silent_proxy`), the
resumption leak (`probe_resume_leak`), the issuer that is not fetched (`probe_issuer`), exit code
4 (`cli_config_code`).

Met while modelling, in the models, without a run:

- With a negative `-retries`, which nothing checks, `TCP` returns no connection and no error
  (`src/probes/tcp.go:60`): `TcpCall`'s `ReturnNothing` says when.
- `-timeout` is documented as a connect and read timeout (`src/README.md:98`), but no
  handshake has it: a silent peer stalls a probe until the context is cancelled.
- Each OCSP query makes a transport whose idle connection nobody closes
  (`src/probes/ocsp.go:159,243`); `MainSocketsClosed` excepts it.
- An OCSP verdict is taken whatever its validity times (`src/probes/ocsp.go:189-191`).
- `-warn-days` is documented as "Warn/fail" (`src/README.md:112`); it never fails a target.
  A certificate that expired less than a day ago has 0 days left, not -1.
- `-no-sni` without `-insecure` leaves crypto/tls without a name to verify and fails every
  handshake (`HandshakeAsAsked`), although it is presented as a mode of its own
  (`src/README.md:344-345`); net/http fills the name in again for its own connection.
- A store that cannot be loaded is ignored (`src/runner.go:101,108`), although exit code 4
  is documented for it.
- `-cipher` does not restrict TLS 1.3, in which crypto/tls ignores it; with a suite of TLS
  1.3 it leaves no suite for TLS 1.2.
- A failed certificate export, CSV close or dashboard write to the log does not give exit
  code 3 (`src/README.md:71`). `DumpDiagnostics` reports only the error of its last write
  (`src/diagnose.go:48,82`).
- Exported names do not contain the path of the target. Overlapping calls that saw different
  chains may mix them, and a shorter chain leaves the last files of an earlier one behind.
- The deferred close of the TLS connection assigns an error to a result already returned
  (`src/runner.go:317-321`); the one in `HTTP` does too (`src/probes/http.go:83-87`).
- The fallback runs after any handshake failure, not only a refused chain.
- `ParseTargets` drops the warnings `ParseTargetsWithWarnings` collects, and no flag sets
  `StrictParsing`: a bad line in a target file is silent in the program, although target
  parsing errors are documented to exit with 2 (`src/README.md:70`).
- A grid port that is not a number becomes 443, a grid point that does not parse is dropped,
  neither with a word, and a port above 65535 is accepted (`src/target.go:109,239,243`).
- A bare SCT list of 1024 to 1151 bytes (and some longer ones) begins like an OCTET STRING, is
  unwrapped as one and loses its SCTs (`src/probes/tls.go:218`). Certificates wrap theirs.
- The inner length of an SCT list is checked against the buffer, not the list
  (`src/probes/tls.go:240`): the last SCT of a list may end behind it, within the buffer.

## 6. Not modelled, and the plan

Not modelled: formatting and layout of the reports, latencies, the descriptive certificate
fields, the syntax of URLs, paths, PEM and certificates, the flag package, the Go runtime's
diagnostics, and `FetchIssuerFromAIA`, which no call of the program reaches. The defaults of
the configuration record are values of constants. DNS, sockets, crypto/tls, net/http, the
file system and the OCSP library are the environment. A socket left to the garbage
collector counts as open: its finalizer may close it at some later time. What a session
cache holds when the resumption test makes its second handshake is crypto/tls state and left
to the peer.

Order of work, most important behaviour first; all of it is done: `RunDiagnostics` and
`Batch` with refinement and proofs; `TcpProbe`; `TlsProbe` in `ExecuteTarget`; `Cli` over
`Batch`; `TcpCall` and its refinement; `SctList`; `ParseTargets`; `CertExport`; `TlsConfig`
with expiry, OCSP and HTTP in `ExecuteTarget`.

Theorems left, none of them needed by the ones above: that every `Dial` of `ExecuteTarget` is a
step `TcpCall` allows; a bound on the steps of the export and of the command line.
