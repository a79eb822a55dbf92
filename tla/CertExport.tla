------------------------------ MODULE CertExport ------------------------------
(***************************************************************************)
(* ExportCertificates (probes/tls.go:258-286), called for each target by the *)
(* workers of a batch at the same time (runner.go:306-308).                  *)
(*                                                                         *)
(* A call writes one file for each certificate of the chain with             *)
(* os.WriteFile: open and truncate, write from the start, close.  The name    *)
(* has the host, the port and the place in the chain but not the path, so     *)
(* two targets may share names.  A file is a sequence of blocks; where a file *)
(* was written beyond its end there is a hole.                              *)
(***************************************************************************)
EXTENDS Naturals, Sequences

CONSTANTS Calls,   \* the calls that may overlap
          Jobs,    \* what a call may be for: host, port and chain
          Size,    \* blocks of a certificate's PEM text
          Stale    \* what an earlier run may have left under a name

Block == (DOMAIN Size \cup {"hole"}) \X Nat

\* A host name is a sequence of its parts and of the separators among them.
ASSUME ExportAssumption ==
  /\ Size \in [DOMAIN Size -> Nat]
  /\ Jobs \subseteq [host: Seq(STRING), port: Nat, chain: Seq(DOMAIN Size)]
  /\ Stale \subseteq Seq(Block) /\ <<>> \in Stale

VARIABLES
  job,     \* the job of each call
  old,     \* history: the files before the calls
  files,   \* content by name, empty when there is none
  pc,      \* where each call is
  index,   \* the certificate it is at, from 1
  offset   \* how many blocks of it are written

vars == <<job, old, files, pc, index, offset>>

SafeHost(host) == [k \in DOMAIN host |->
                     IF host[k] \in {"/", "\\", ".."} THEN "_" ELSE host[k]]

Name(c, i) == <<SafeHost(job[c].host), job[c].port, i>>

Chain(c) == job[c].chain

Names == UNION {{<<SafeHost(j.host), j.port, i>> : i \in DOMAIN j.chain} : j \in Jobs}

Whole(cert) == [b \in 1..Size[cert] |-> <<cert, b>>]

Init == /\ job \in [Calls -> Jobs]
        /\ old \in [Names -> Stale]
        /\ files = old
        /\ pc = [c \in Calls |-> "start"]
        /\ index = [c \in Calls |-> 1]
        /\ offset = [c \in Calls |-> 0]

Goto(c, place) == pc' = [pc EXCEPT ![c] = place]

\* The prefix is accepted, or refused before anything is written.
Start(c) == /\ pc[c] = "start"
            /\ Goto(c, "next") \/ Goto(c, "error")
            /\ UNCHANGED <<job, old, files, index, offset>>

\* Mutant: the file is not truncated.
OpenOnly(c) ==
  /\ pc[c] = "next" /\ index[c] <= Len(Chain(c))
  /\ Goto(c, "write") \/ Goto(c, "error")
  /\ offset' = [offset EXCEPT ![c] = 0]
  /\ UNCHANGED <<job, old, files, index>>

Open(c) ==
  /\ pc[c] = "next" /\ index[c] <= Len(Chain(c))
  /\ \/ Goto(c, "write") /\ files' = [files EXCEPT ![Name(c, index[c])] = <<>>]
     \/ Goto(c, "error") /\ UNCHANGED files
  /\ offset' = [offset EXCEPT ![c] = 0]
  /\ UNCHANGED <<job, old, index>>

\* `content` with the blocks from + 1 to `to` of the certificate put in place.
Overwritten(content, cert, from, to) ==
  [b \in 1..(IF Len(content) > to THEN Len(content) ELSE to) |->
     IF b \in from + 1..to THEN <<cert, b>>
     ELSE IF b \in DOMAIN content THEN content[b] ELSE <<"hole", b>>]

\* The kernel takes some blocks; the write goes on with the rest or fails.
Write(c) ==
  /\ pc[c] = "write" /\ offset[c] < Size[Chain(c)[index[c]]]
  /\ LET cert == Chain(c)[index[c]]
     IN  \E to \in offset[c] + 1..Size[cert] :
           /\ files' = [files EXCEPT ![Name(c, index[c])] =
                          Overwritten(@, cert, offset[c], to)]
           /\ offset' = [offset EXCEPT ![c] = to]
  /\ UNCHANGED <<job, old, pc, index>>

\* Mutant: a certificate that cannot be written is skipped.
WriteFailsAndGoesOn(c) ==
  /\ pc[c] = "write" /\ offset[c] < Size[Chain(c)[index[c]]]
  /\ Goto(c, "next")
  /\ index' = [index EXCEPT ![c] = @ + 1]
  /\ UNCHANGED <<job, old, files, offset>>

WriteFails(c) == /\ pc[c] = "write" /\ offset[c] < Size[Chain(c)[index[c]]]
                 /\ Goto(c, "error")
                 /\ UNCHANGED <<job, old, files, index, offset>>

\* The error of the close is WriteFile's.
Close(c) == /\ pc[c] = "write" /\ offset[c] = Size[Chain(c)[index[c]]]
            /\ \/ Goto(c, "next") /\ index' = [index EXCEPT ![c] = @ + 1]
               \/ Goto(c, "error") /\ UNCHANGED index
            /\ UNCHANGED <<job, old, files, offset>>

Return(c) == /\ pc[c] = "next" /\ index[c] > Len(Chain(c))
             /\ Goto(c, "ok")
             /\ UNCHANGED <<job, old, files, index, offset>>

Ended(c) == pc[c] \in {"ok", "error"}

Done == (\A c \in Calls : Ended(c)) /\ UNCHANGED vars

CallStep(c) == Start(c) \/ Open(c) \/ Write(c) \/ WriteFails(c) \/ Close(c) \/ Return(c)

Next == (\E c \in Calls : CallStep(c)) \/ Done

Spec == Init /\ [][Next]_vars

-----------------------------------------------------------------------------
(* Properties. *)

Uses(c, n) == \E i \in DOMAIN Chain(c) : Name(c, i) = n

\* The two calls write the same certificate wherever they write the same name.
Agree(c, d) == \A i \in DOMAIN Chain(c) \cap DOMAIN Chain(d) :
                 Name(c, i) = Name(d, i) => Chain(c)[i] = Chain(d)[i]

\* Two paths of one server: however their calls overlap, truncate and overwrite
\* each other, and whatever was there before, each certificate ends up whole, if
\* none of the calls fails and both saw the same certificate.
ExportedWhole == \A c \in Calls :
  (pc[c] = "ok" /\ \A d \in Calls : Agree(c, d) /\ pc[d] \in {"start", "ok"}) =>
     \A i \in DOMAIN Chain(c) : files[Name(c, i)] = Whole(Chain(c)[i])

Alone(c) == \A d \in Calls \ {c} : \A i \in DOMAIN Chain(c) : ~Uses(d, Name(c, i))

\* A call that fails leaves the certificates before the one it failed at whole
\* and does not touch the ones behind it: a partial chain is never one with gaps.
NoGaps == \A c \in Calls : Alone(c) =>
  /\ \A i \in 1..index[c] - 1 : files[Name(c, i)] = Whole(Chain(c)[i])
  /\ \A i \in index[c] + 1..Len(Chain(c)) : files[Name(c, i)] = old[Name(c, i)]
=============================================================================
