------------------------------- MODULE SctList -------------------------------
(***************************************************************************)
(* The signed certificate timestamps of a handshake (probes/tls.go:139-249): *)
(* those of the TLS extension, or else those in the list that the leaf       *)
(* certificate carries, which is bytes the peer chose.                       *)
(*                                                                         *)
(* An SCT is kept as its place in the buffer: a version, log and timestamp   *)
(* are read at fixed offsets below MinSctLen.  Offsets count from 0, as in    *)
(* the code.  Reading past a buffer is a panic in Go: here such a byte is 0   *)
(* and `reach` remembers that it was read.                                  *)
(***************************************************************************)
EXTENDS Naturals, Sequences

CONSTANTS MinSctLen,   \* the shortest SCT parseSCT accepts (43 in the code)
          Inputs       \* what a handshake may deliver

Byte == 0..255

\* `stapled` has the length of each SCT of the TLS extension; `embedded` is the
\* value of the certificate's SCT list extension, empty when there is none.
ASSUME SctAssumption == /\ MinSctLen \in Nat
                        /\ Inputs \subseteq [stapled: Seq(Nat), embedded: Seq(Byte)]
                        /\ \A i \in Inputs : Len(i.embedded) < 65536

VARIABLES
  input,   \* the member of Inputs in use
  pc,      \* where the code is
  turn,    \* how many SCTs of the TLS extension have been looked at
  pos,     \* parseSCTList's pos
  found,   \* the variable scts, each with its source and place
  reach    \* history: how far into the list the parser has read

vars == <<input, pc, turn, pos, found, reach>>

At(buf, k) == IF k + 1 \in DOMAIN buf THEN buf[k + 1] ELSE 0

Number(buf, k) == 256 * At(buf, k) + At(buf, k + 1)

\* The content length that asn1.Unmarshal reads at offset 1: one byte below 128,
\* or the number of big-endian bytes that follow, in which case the length must
\* need that many bytes.  Longer forms are of contents of 65536 bytes and more.
ContentLength(buf) ==
  CASE At(buf, 1) < 128 -> At(buf, 1)
    [] At(buf, 1) = 129 -> At(buf, 2)
    [] At(buf, 1) = 130 -> Number(buf, 2)
    [] OTHER            -> 0

HeaderSize(buf) == CASE At(buf, 1) = 129 -> 3 [] At(buf, 1) = 130 -> 4 [] OTHER -> 2

\* It must be an OCTET STRING that lies in the buffer, with a minimal length.
IsOctetString(buf) ==
  /\ At(buf, 0) = 4
  /\ At(buf, 1) < 128 \/ At(buf, 1) \in {129, 130}
  /\ At(buf, 1) = 129 => ContentLength(buf) >= 128
  /\ At(buf, 1) = 130 => ContentLength(buf) >= 256
  /\ HeaderSize(buf) + ContentLength(buf) <= Len(buf)

\* Mutant: the extension's value is taken as the list.
UnwrappedNever(buf) == buf

\* Its content, or the bytes themselves if they are no OCTET STRING.
Unwrapped(buf) ==
  IF IsOctetString(buf)
    THEN SubSeq(buf, HeaderSize(buf) + 1, HeaderSize(buf) + ContentLength(buf))
    ELSE buf

List == Unwrapped(input.embedded)

\* listLen + 2
ListEnd == Number(List, 0) + 2

Init == /\ input \in Inputs
        /\ pc = "stapled"
        /\ turn = 0
        /\ pos = 0
        /\ found = <<>>
        /\ reach = 0

Sct(source, from, to) == [source |-> source, from |-> from, to |-> to]

\* parseSCT: bytes that are too short for an SCT are passed over.
Parse(source, from, to) ==
  found' = IF to - from < MinSctLen THEN found ELSE Append(found, Sct(source, from, to))

\* The loop over the SCTs of the TLS extension.
ReadStapled == /\ pc = "stapled" /\ turn < Len(input.stapled)
               /\ Parse("tls_extension", 0, input.stapled[turn + 1])
               /\ turn' = turn + 1
               /\ UNCHANGED <<input, pc, pos, reach>>

\* The certificate only counts when none of them was one.
EndOfStapled == /\ pc = "stapled" /\ turn = Len(input.stapled)
                /\ pc' = IF found = <<>> THEN "list" ELSE "done"
                /\ UNCHANGED <<input, turn, pos, found, reach>>

\* parseSCTList up to its loop.
ReadHeader ==
  /\ pc = "list"
  /\ IF Len(input.embedded) < 2 \/ Len(List) < 2 \/ ListEnd > Len(List)
       THEN pc' = "done" /\ UNCHANGED <<pos, reach>>
       ELSE pc' = "entries" /\ pos' = 2 /\ reach' = 2
  /\ UNCHANGED <<input, turn, found>>

Furthest(a, b) == IF a >= b THEN a ELSE b

\* Mutant: the loop runs to the end of the buffer.
InBuffer == pos < Len(List)

\* The condition of the loop.
InList == pos < ListEnd

\* Mutant: off by one.
HasHalfLength == pos + 1 <= Len(List)

HasLength == pos + 2 <= Len(List)

\* Mutant: the position forgets the length field.
ReadEntryStalls ==
  /\ pc = "entries" /\ InList /\ HasLength
  /\ LET first == pos + 2
         next == first + Number(List, pos)
     IN  IF next > Len(List)
           THEN pc' = "done" /\ pos' = first /\ UNCHANGED found
           ELSE pos' = next - 2 /\ Parse("embedded", first, next) /\ UNCHANGED pc
  /\ reach' = Furthest(reach, pos')
  /\ UNCHANGED <<input, turn>>

\* One turn of the loop: a length, and that many bytes of the buffer, which may
\* be more than the list has left (the check at tls.go:240 is on the buffer).
ReadEntry ==
  /\ pc = "entries" /\ InList /\ HasLength
  /\ LET first == pos + 2
         next == first + Number(List, pos)
     IN  IF next > Len(List)
           THEN pc' = "done" /\ pos' = first /\ UNCHANGED found
           ELSE pos' = next /\ Parse("embedded", first, next) /\ UNCHANGED pc
  /\ reach' = Furthest(reach, pos')
  /\ UNCHANGED <<input, turn>>

\* No entry is left, or half a length field.
EndOfList == /\ pc = "entries" /\ ~(InList /\ HasLength)
             /\ pc' = "done"
             /\ UNCHANGED <<input, turn, pos, found, reach>>

Done == pc = "done" /\ UNCHANGED vars

Step == ReadStapled \/ EndOfStapled \/ ReadHeader \/ ReadEntry \/ EndOfList

Next == Step \/ Done

Spec == Init /\ [][Next]_vars /\ WF_vars(Step)

-----------------------------------------------------------------------------
(* Properties. *)

Embedded == {k \in DOMAIN found : found[k].source = "embedded"}

\* Types, which are all about bounds: whatever bytes a certificate carries, the
\* parser reads and slices inside the buffer it has unwrapped, and every entry is
\* long enough for the fields read from it, so nothing panics.
ReadsInBounds ==
  /\ input \in Inputs
  /\ pc \in {"stapled", "list", "entries", "done"}
  /\ turn \in 0..Len(input.stapled)
  /\ pos \in 0..Len(List) /\ reach \in 0..Len(List)
  /\ found \in Seq([source: {"tls_extension", "embedded"}, from: Nat, to: Nat])
  /\ \A k \in DOMAIN found : found[k].to - found[k].from >= MinSctLen
  /\ \A k \in Embedded : found[k].to <= Len(List)

\* Whatever the inner lengths say, the entries found lie one after the other,
\* each behind its own length field, and only the last one may run past the end
\* that the list states.
EntriesApart == \A j, k \in Embedded : j < k =>
                  /\ found[j].to + 2 <= found[k].from
                  /\ found[j].to < ListEnd

\* The parser ends, on zero-length entries too.
ParserEnds == <>(pc = "done")
=============================================================================
