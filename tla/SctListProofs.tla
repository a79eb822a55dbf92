----------------------------- MODULE SctListProofs -----------------------------
(***************************************************************************)
(* Theorems about SctList, for every minimal length, every certificate and   *)
(* every sequence of SCTs in the TLS extension:                             *)
(*                                                                         *)
(*   BoundsTheorem    the parser reads and slices inside its buffer            *)
(*   ApartTheorem     the entries do not overlap, nor their length fields      *)
(*   ReadBackTheorem  the entries of a list that is filled are read back      *)
(*   StapledTheorem   those of the TLS extension are, in order, and no others   *)
(*   BoundedTheorem   every step uses up one of a bounded number               *)
(***************************************************************************)
EXTENDS SctList, TLAPS, SequenceTheorems

LEMMA Bytes == /\ 0 \in Byte
               /\ \A b \in Byte : b \in Nat /\ b <= 255
BY DEF Byte

\* A byte read is a byte, beyond the buffer too, and two make a number.
LEMMA ReadByte ==
  ASSUME NEW buf \in Seq(Byte), NEW k \in Nat
  PROVE  At(buf, k) \in Byte /\ Number(buf, k) \in Nat /\ Number(buf, k) <= 65535
<1>1. ASSUME NEW i \in Nat PROVE At(buf, i) \in Byte
  <2>1. CASE i + 1 \in DOMAIN buf
    <3>1. buf[i + 1] \in Byte
      BY <2>1, LenProperties, ElementOfSeq
    <3> QED BY <2>1, <3>1 DEF At
  <2>2. CASE i + 1 \notin DOMAIN buf
    BY <2>2, Bytes DEF At
  <2> QED BY <2>1, <2>2
<1>2. ASSUME NEW a \in Nat, NEW b \in Nat, a <= 255, b <= 255
      PROVE  256 * a + b \in Nat /\ 256 * a + b <= 65535
  BY <1>2
<1>3. /\ At(buf, k) \in Nat /\ At(buf, k) <= 255
      /\ At(buf, k + 1) \in Nat /\ At(buf, k + 1) <= 255
  BY <1>1, Bytes
<1>4. Number(buf, k) \in Nat /\ Number(buf, k) <= 65535
  BY <1>2, <1>3 DEF Number
<1> QED BY <1>1, <1>4

\* The unwrapped list is a sequence of bytes: an OCTET STRING is only opened when
\* its content lies in the buffer.
LEMMA UnwrappedBytes ==
  ASSUME NEW buf \in Seq(Byte)
  PROVE  Unwrapped(buf) \in Seq(Byte)
<1>1. CASE IsOctetString(buf)
  <2> DEFINE h == HeaderSize(buf)
             n == ContentLength(buf)
  <2>1. h \in 2..4
    BY DEF HeaderSize
  <2>2. n \in Nat
    <3>1. At(buf, 1) \in Byte /\ At(buf, 2) \in Byte /\ Number(buf, 2) \in Nat
      <4>1. 1 \in Nat /\ 2 \in Nat
        OBVIOUS
      <4> QED BY <4>1, ReadByte
    <3>2. n \in {At(buf, 1), At(buf, 2), Number(buf, 2), 0}
      BY DEF ContentLength
    <3>3. {At(buf, 1), At(buf, 2), Number(buf, 2), 0} \subseteq Nat
      BY <3>1, Bytes, Zenon
    <3> QED BY <3>2, <3>3, Zenon
  <2>3. h + n <= Len(buf) /\ Len(buf) \in Nat
    BY <1>1, LenProperties DEF IsOctetString
  <2> HIDE DEF h, n
  <2>4. \A i \in h + 1..h + n : buf[i] \in Byte
    BY <2>1, <2>2, <2>3, ElementOfSeq
  <2>5. SubSeq(buf, h + 1, h + n) \in Seq(Byte)
    BY <2>1, <2>2, <2>3, <2>4, SubSeqProperties
  <2> QED BY <1>1, <2>5 DEF Unwrapped, h, n
<1>2. CASE ~IsOctetString(buf)
  BY <1>2 DEF Unwrapped
<1> QED BY <1>1, <1>2

LEMMA ListBytes == input \in Inputs => List \in Seq(Byte) /\ Len(List) \in Nat
<1>1. input \in Inputs => input.embedded \in Seq(Byte)
  BY SctAssumption
<1> QED BY <1>1, UnwrappedBytes, LenProperties DEF List

-----------------------------------------------------------------------------
(* The inductive invariant. *)

Place == [source: {"tls_extension", "embedded"}, from: Nat, to: Nat]

\* Nothing of the list is read or found before its loop, and everything that was
\* found in it lies behind the position.
PositionInv ==
  /\ pc \in {"stapled", "list"} => pos = 0 /\ reach = 0 /\ Embedded = {}
  /\ \A j \in Embedded : found[j].to <= pos

IInv == ReadsInBounds /\ PositionInv /\ EntriesApart

LEMMA InvInit == Init => IInv
<1> SUFFICES ASSUME Init PROVE IInv
  OBVIOUS
<1>1. found = <<>> /\ DOMAIN found = {} /\ found \in Seq(Place) /\ Embedded = {}
  BY EmptySeq, LenProperties DEF Init, Embedded
<1>2. Len(List) \in Nat /\ Len(input.stapled) \in Nat
  <2>1. input \in Inputs /\ input.stapled \in Seq(Nat)
    BY SctAssumption DEF Init
  <2> QED BY <2>1, ListBytes, LenProperties
<1> QED
  BY <1>1, <1>2 DEF Init, IInv, ReadsInBounds, PositionInv, EntriesApart, Place

\* What parseSCT adds comes last and is long enough; the rest stays.
LEMMA ParseEffect ==
  ASSUME NEW source \in {"tls_extension", "embedded"}, NEW from \in Nat, NEW to \in Nat,
         found \in Seq(Place), Parse(source, from, to)
  PROVE  \/ UNCHANGED found
         \/ /\ to - from >= MinSctLen
            /\ found' \in Seq(Place)
            /\ Embedded' = Embedded \cup (IF source = "embedded" THEN {Len(found) + 1} ELSE {})
            /\ DOMAIN found = 1..Len(found) /\ Len(found) \in Nat
            /\ DOMAIN found' = 1..Len(found) + 1
            /\ \A j \in 1..Len(found) : found'[j] = found[j]
            /\ found'[Len(found) + 1] = Sct(source, from, to)
<1>1. Sct(source, from, to) \in Place
  BY DEF Sct, Place
<1>2. CASE to - from < MinSctLen
  BY <1>2 DEF Parse
<1>3. CASE ~(to - from < MinSctLen)
  <2>1. found' = Append(found, Sct(source, from, to)) /\ to - from >= MinSctLen
    BY <1>3, SctAssumption DEF Parse
  <2>2. /\ found' \in Seq(Place) /\ Len(found') = Len(found) + 1
        /\ \A j \in 1..Len(found) : found'[j] = found[j]
        /\ found'[Len(found) + 1] = Sct(source, from, to)
    BY <1>1, <2>1, AppendProperties
  <2>3. /\ DOMAIN found = 1..Len(found) /\ Len(found) \in Nat
        /\ DOMAIN found' = 1..Len(found')
    BY <2>2, LenProperties
  <2>4. Embedded' = Embedded \cup (IF source = "embedded" THEN {Len(found) + 1} ELSE {})
    <3>1. DOMAIN found' = DOMAIN found \cup {Len(found) + 1}
      BY <2>2, <2>3
    <3>2. Sct(source, from, to).source = source
      BY DEF Sct
    <3> QED BY <2>2, <2>3, <3>1, <3>2 DEF Embedded
  <2> QED BY <2>1, <2>2, <2>3, <2>4
<1> QED BY <1>2, <1>3

\* The buffer stays the same.
LEMMA ListSame == UNCHANGED input => List' = List /\ ListEnd' = ListEnd
BY DEF List, ListEnd

LEMMA InvStep == IInv /\ [Next]_vars => IInv'
<1> SUFFICES ASSUME IInv, [Next]_vars PROVE IInv'
  OBVIOUS
<1>1. UNCHANGED input
  BY DEF Next, Step, ReadStapled, EndOfStapled, ReadHeader, ReadEntry, EndOfList, Done, vars
<1>2. List' = List /\ ListEnd' = ListEnd
  BY <1>1, ListSame
<1>3. /\ input \in Inputs /\ input.stapled \in Seq(Nat) /\ Len(input.stapled) \in Nat
      /\ List \in Seq(Byte) /\ Len(List) \in Nat /\ MinSctLen \in Nat
      /\ found \in Seq(Place) /\ Len(found) \in Nat /\ DOMAIN found = 1..Len(found)
  <2>1. input \in Inputs /\ input.stapled \in Seq(Nat) /\ found \in Seq(Place)
    BY SctAssumption DEF IInv, ReadsInBounds, Place
  <2> QED BY <2>1, ListBytes, LenProperties, SctAssumption
<1>4. ListEnd \in Nat
  <2>1. Number(List, 0) \in Nat
    BY <1>3, ReadByte
  <2> QED BY <2>1 DEF ListEnd
<1>5. /\ Embedded \subseteq 1..Len(found)
      /\ \A j \in Embedded : found[j].to \in Nat /\ found[j].to <= pos
  <2>1. Embedded \subseteq 1..Len(found)
    BY <1>3 DEF Embedded
  <2>2. \A j \in 1..Len(found) : found[j] \in Place
    BY <1>3, ElementOfSeq
  <2> QED BY <2>1, <2>2 DEF IInv, PositionInv, Place
<1>6. CASE ReadStapled
  <2>1. turn + 1 \in 1..Len(input.stapled) /\ input.stapled[turn + 1] \in Nat
    BY <1>3, <1>6, ElementOfSeq DEF ReadStapled, IInv, ReadsInBounds
  <2>2. Parse("tls_extension", 0, input.stapled[turn + 1])
    BY <1>6 DEF ReadStapled
  <2>3. Embedded' = {} /\ pos' = 0 /\ reach' = 0 /\ pc' = "stapled"
    <3>1. Embedded = {} /\ pos = 0 /\ reach = 0
      BY <1>6 DEF ReadStapled, IInv, PositionInv
    <3>2. CASE UNCHANGED found
      BY <1>6, <3>1, <3>2 DEF ReadStapled, Embedded
    <3>3. CASE Embedded' = Embedded \cup {}
      BY <1>6, <3>1, <3>3 DEF ReadStapled
    <3> QED BY <1>3, <2>1, <2>2, <3>2, <3>3, ParseEffect
  <2>4. found' \in Seq(Place) /\ \A j \in DOMAIN found' : found'[j].to - found'[j].from >= MinSctLen
    <3>1. \A j \in DOMAIN found : found[j].to - found[j].from >= MinSctLen
      BY DEF IInv, ReadsInBounds
    <3>2. CASE UNCHANGED found
      BY <1>3, <3>1, <3>2
    <3>3. CASE ~UNCHANGED found
      <4>1. /\ input.stapled[turn + 1] - 0 >= MinSctLen
            /\ found' \in Seq(Place)
            /\ DOMAIN found' = 1..Len(found) + 1
            /\ \A j \in 1..Len(found) : found'[j] = found[j]
            /\ found'[Len(found) + 1] = Sct("tls_extension", 0, input.stapled[turn + 1])
        BY <1>3, <2>1, <2>2, <3>3, ParseEffect
      <4> QED BY <1>3, <3>1, <4>1 DEF Sct
    <3> QED BY <3>2, <3>3
  <2>5. ReadsInBounds'
    BY <1>1, <1>2, <1>3, <1>6, <2>1, <2>3, <2>4 DEF ReadStapled, IInv, ReadsInBounds, Place
  <2> QED BY <2>3, <2>5 DEF IInv, PositionInv, EntriesApart
<1>7. CASE ReadHeader \/ EndOfStapled \/ EndOfList \/ Done \/ UNCHANGED vars
  <2>1. UNCHANGED found /\ Embedded' = Embedded
    BY <1>7 DEF ReadHeader, EndOfStapled, EndOfList, Done, vars, Embedded
  <2>2. pos' >= pos /\ pos' \in 0..Len(List) /\ reach' \in 0..Len(List)
    BY <1>3, <1>7 DEF ReadHeader, EndOfStapled, EndOfList, Done, vars, IInv, ReadsInBounds,
                      PositionInv
  <2> QED
    BY <1>1, <1>2, <1>3, <1>7, <2>1, <2>2
       DEF ReadHeader, EndOfStapled, EndOfList, Done, vars, IInv, ReadsInBounds, PositionInv,
           EntriesApart
<1>8. CASE ReadEntry
  <2> DEFINE first == pos + 2
             last == first + Number(List, pos)
  <2>1. /\ pos \in Nat /\ reach \in 0..Len(List) /\ Number(List, pos) \in Nat
        /\ pos < ListEnd /\ first <= Len(List)
    BY <1>3, <1>8, ReadByte DEF ReadEntry, InList, HasLength, IInv, ReadsInBounds
  <2> HIDE DEF last
  <2>2. last \in Nat /\ last >= first
    BY <2>1 DEF last
  <2>3. pos' \in 0..Len(List) => reach' \in 0..Len(List)
    BY <1>2, <1>3, <1>8, <2>1 DEF ReadEntry, Furthest
  <2>4. CASE last > Len(List)
    <3>1. pc' = "done" /\ pos' = first /\ UNCHANGED <<turn, found>>
      BY <1>8, <2>4 DEF ReadEntry, last
    <3>2. Embedded' = Embedded
      BY <3>1 DEF Embedded
    <3>3. ReadsInBounds'
      BY <1>1, <1>2, <1>3, <2>1, <2>3, <3>1, <3>2 DEF IInv, ReadsInBounds
    <3>4. PositionInv'
      BY <1>5, <2>1, <3>1, <3>2 DEF PositionInv
    <3>5. EntriesApart'
      BY <1>2, <3>1, <3>2 DEF IInv, EntriesApart
    <3> QED BY <3>3, <3>4, <3>5 DEF IInv
  <2>5. CASE ~(last > Len(List))
    <3>1. /\ pc' = "entries" /\ pos' = last /\ UNCHANGED turn /\ last <= Len(List)
          /\ Parse("embedded", first, last)
      BY <1>3, <1>8, <2>2, <2>5 DEF ReadEntry, last
    <3>2. CASE UNCHANGED found
      <4>1. Embedded' = Embedded
        BY <3>2 DEF Embedded
      <4>2. ReadsInBounds'
        BY <1>1, <1>2, <1>3, <2>1, <2>2, <2>3, <3>1, <3>2, <4>1 DEF IInv, ReadsInBounds
      <4>3. PositionInv'
        BY <1>5, <2>1, <2>2, <3>1, <3>2, <4>1 DEF PositionInv
      <4>4. EntriesApart'
        BY <1>2, <3>2, <4>1 DEF IInv, EntriesApart
      <4> QED BY <4>2, <4>3, <4>4 DEF IInv
    <3>3. CASE ~UNCHANGED found
      <4> DEFINE n == Len(found) + 1
      <4>1. /\ last - first >= MinSctLen
            /\ found' \in Seq(Place)
            /\ Embedded' = Embedded \cup {n}
            /\ DOMAIN found' = 1..n
            /\ \A j \in 1..Len(found) : found'[j] = found[j]
            /\ found'[n].from = first /\ found'[n].to = last
        <5>1. first \in Nat /\ "embedded" \in {"tls_extension", "embedded"}
          BY <2>1
        <5>2. /\ last - first >= MinSctLen
              /\ found' \in Seq(Place)
              /\ Embedded' = Embedded \cup (IF "embedded" = "embedded" THEN {n} ELSE {})
              /\ DOMAIN found' = 1..n
              /\ \A j \in 1..Len(found) : found'[j] = found[j]
              /\ found'[n] = Sct("embedded", first, last)
          BY <1>3, <2>2, <3>1, <3>3, <5>1, ParseEffect
        <5> QED BY <5>2 DEF Sct
      <4>3. ReadsInBounds'
        <5>1. \A j \in DOMAIN found' : found'[j].to - found'[j].from >= MinSctLen
          <6>1. \A j \in 1..Len(found) : found[j].to - found[j].from >= MinSctLen
            BY <1>3 DEF IInv, ReadsInBounds
          <6>2. ASSUME NEW j \in 1..n PROVE j \in 1..Len(found) \/ j = n
            BY <1>3
          <6> QED BY <4>1, <6>1, <6>2
        <5>2. \A j \in Embedded' : found'[j].to <= Len(List)
          BY <1>3, <1>5, <2>1, <3>1, <4>1
        <5> QED BY <1>1, <1>2, <1>3, <2>2, <2>3, <3>1, <4>1, <5>1, <5>2
                DEF IInv, ReadsInBounds, Place
      <4>4. PositionInv'
        BY <1>5, <2>1, <2>2, <3>1, <4>1 DEF PositionInv
      <4>5. EntriesApart'
        <5>1. ASSUME NEW i \in Embedded', NEW j \in Embedded', i < j
              PROVE  found'[i].to + 2 <= found'[j].from /\ found'[i].to < ListEnd
          <6>1. CASE j \in Embedded
            BY <1>3, <1>5, <4>1, <5>1, <6>1 DEF IInv, EntriesApart
          <6>2. CASE j = n
            BY <1>3, <1>4, <2>1, <1>5, <4>1, <5>1, <6>2
          <6> QED BY <4>1, <6>1, <6>2
        <5> QED BY <1>2, <5>1 DEF EntriesApart
      <4> QED BY <4>3, <4>4, <4>5 DEF IInv
    <3> QED BY <3>2, <3>3
  <2> QED BY <2>4, <2>5
<1> QED BY <1>6, <1>7, <1>8 DEF Next, Step

LEMMA InvCorrect == Spec => []IInv
BY InvInit, InvStep, PTL DEF Spec

\* Whatever bytes a certificate carries, and however long an SCT must be, the
\* parser reads and slices inside the buffer it has unwrapped.
THEOREM BoundsTheorem == Spec => []ReadsInBounds
<1>1. IInv => ReadsInBounds
  BY DEF IInv
<1> QED BY <1>1, InvCorrect, PTL

\* No two entries share a byte, and only the last one may pass the stated end.
THEOREM ApartTheorem == Spec => []EntriesApart
<1>1. IInv => EntriesApart
  BY DEF IInv
<1> QED BY <1>1, InvCorrect, PTL

-----------------------------------------------------------------------------
(* What is found. *)

\* None of the SCTs of the TLS extension is long enough to be one.
NoneStapled == \A j \in 1..Len(input.stapled) : input.stapled[j] < MinSctLen

EntryEnd(s) == s + 2 + Number(List, s)

\* The entries that start at the positions in starts fill the list: the first one follows
\* its length, each ends where another one starts or the list does, and none overlaps.
Fill(starts) ==
  /\ \A s \in starts : s \in Nat /\ s >= 2
  /\ 2 \in starts \cup {ListEnd} /\ ListEnd <= Len(List)
  /\ \A s \in starts : EntryEnd(s) \in starts \cup {ListEnd} /\ EntryEnd(s) <= ListEnd
  /\ \A s, t \in starts : s < t => EntryEnd(s) <= t

\* The SCTs among the entries that start before a position.
SctsBefore(starts, end) ==
  {Sct("embedded", s + 2, EntryEnd(s)) :
     s \in {t \in starts : t < end /\ Number(List, t) >= MinSctLen}}

FoundSet == {found[j] : j \in DOMAIN found}

\* Where the parser is in such a list, and what it has found there.
FillInv(starts) ==
  NoneStapled /\ Fill(starts) =>
    /\ pc \in {"stapled", "list"} => found = <<>>
    /\ pc \in {"entries", "done"} =>
         /\ pos \in starts \cup {ListEnd} /\ FoundSet = SctsBefore(starts, pos)
         /\ \A s \in starts : s < pos => EntryEnd(s) <= pos
    /\ pc = "done" => pos = ListEnd

\* An OCTET STRING has a header, so a list with a length is not behind less than that.
LEMMA EmbeddedLength ==
  ASSUME NEW buf \in Seq(Byte), Len(Unwrapped(buf)) >= 2
  PROVE  Len(buf) >= 2
<1>1. CASE IsOctetString(buf)
  <2>1. HeaderSize(buf) \in 2..4 /\ ContentLength(buf) \in Nat
    <3>1. At(buf, 1) \in Byte /\ At(buf, 2) \in Byte /\ Number(buf, 2) \in Nat
      <4>1. 1 \in Nat /\ 2 \in Nat
        OBVIOUS
      <4> QED BY <4>1, ReadByte
    <3>2. ContentLength(buf) \in {At(buf, 1), At(buf, 2), Number(buf, 2), 0}
      BY DEF ContentLength
    <3>3. {At(buf, 1), At(buf, 2), Number(buf, 2), 0} \subseteq Nat
      BY <3>1, Bytes, Zenon
    <3>4. ContentLength(buf) \in Nat
      BY <3>2, <3>3, Zenon
    <3> QED BY <3>4 DEF HeaderSize
  <2>2. HeaderSize(buf) + ContentLength(buf) <= Len(buf) /\ Len(buf) \in Nat
    BY <1>1, LenProperties DEF IsOctetString
  <2> QED BY <2>1, <2>2
<1>2. CASE ~IsOctetString(buf)
  BY <1>2 DEF Unwrapped
<1> QED BY <1>1, <1>2

LEMMA FillInit == ASSUME NEW starts PROVE Init => FillInv(starts)
BY DEF Init, FillInv

LEMMA FillKept ==
  ASSUME NEW starts, UNCHANGED input
  PROVE  /\ NoneStapled' = NoneStapled /\ Fill(starts)' = Fill(starts) /\ ListEnd' = ListEnd
         /\ \A s : EntryEnd(s)' = EntryEnd(s)
         /\ \A end : SctsBefore(starts, end)' = SctsBefore(starts, end)
BY DEF NoneStapled, Fill, ListEnd, EntryEnd, SctsBefore, List

LEMMA FillStep ==
  ASSUME NEW starts, IInv, FillInv(starts), [Next]_vars
  PROVE  FillInv(starts)'
<1>1. UNCHANGED input
  BY DEF Next, Step, ReadStapled, EndOfStapled, ReadHeader, ReadEntry, EndOfList, Done, vars
<1>2. /\ NoneStapled' = NoneStapled /\ Fill(starts)' = Fill(starts) /\ ListEnd' = ListEnd
      /\ \A s : EntryEnd(s)' = EntryEnd(s)
      /\ \A end : SctsBefore(starts, end)' = SctsBefore(starts, end)
  BY <1>1, FillKept
<1> SUFFICES ASSUME NoneStapled, Fill(starts)
             PROVE  /\ pc' \in {"stapled", "list"} => found' = <<>>
                    /\ pc' \in {"entries", "done"} =>
                         /\ pos' \in starts \cup {ListEnd}
                         /\ FoundSet' = SctsBefore(starts, pos')
                         /\ \A s \in starts : s < pos' => EntryEnd(s) <= pos'
                    /\ pc' = "done" => pos' = ListEnd
  BY <1>2 DEF FillInv
<1>3. /\ pc \in {"stapled", "list"} => found = <<>>
      /\ pc \in {"entries", "done"} =>
           /\ pos \in starts \cup {ListEnd} /\ FoundSet = SctsBefore(starts, pos)
           /\ \A s \in starts : s < pos => EntryEnd(s) <= pos
      /\ pc = "done" => pos = ListEnd
  BY DEF FillInv
<1>4. /\ input \in Inputs /\ input.stapled \in Seq(Nat) /\ input.embedded \in Seq(Byte)
      /\ List \in Seq(Byte) /\ Len(List) \in Nat /\ MinSctLen \in Nat
      /\ found \in Seq(Place) /\ pos \in Nat
      /\ Len(input.stapled) \in Nat /\ turn \in 0..Len(input.stapled)
  <2>1. input \in Inputs /\ input.stapled \in Seq(Nat) /\ input.embedded \in Seq(Byte)
    BY SctAssumption DEF IInv, ReadsInBounds
  <2> QED BY <2>1, ListBytes, LenProperties, SctAssumption DEF IInv, ReadsInBounds, Place
<1>5. /\ pos \in Nat /\ Len(List) \in Nat /\ MinSctLen \in Nat
      /\ ListEnd \in Nat /\ ListEnd >= 2
  <2>1. List \in Seq(Byte) /\ pos \in Nat /\ Len(List) \in Nat /\ MinSctLen \in Nat
    BY <1>4
  <2>2. ListEnd = Number(List, 0) + 2 /\ Number(List, 0) \in Nat
    BY <2>1, ReadByte DEF ListEnd
  <2>3. ListEnd \in Nat /\ ListEnd >= 2
    BY <2>2
  <2> QED BY <2>1, <2>3
<1>6. /\ \A s \in starts : /\ s \in Nat /\ s >= 2 /\ EntryEnd(s) \in Nat
                           /\ Number(List, s) \in Nat
                           /\ EntryEnd(s) = s + 2 + Number(List, s)
                           /\ EntryEnd(s) \in starts \cup {ListEnd} /\ EntryEnd(s) <= ListEnd
      /\ 2 \in starts \cup {ListEnd} /\ ListEnd <= Len(List)
      /\ \A s, t \in starts : s < t => EntryEnd(s) <= t
  <2>1. ASSUME NEW s \in starts
        PROVE  /\ s \in Nat /\ s >= 2 /\ EntryEnd(s) \in Nat
               /\ Number(List, s) \in Nat
               /\ EntryEnd(s) = s + 2 + Number(List, s)
    <3>1. s \in Nat /\ s >= 2 /\ List \in Seq(Byte)
      BY <1>4 DEF Fill
    <3>2. Number(List, s) \in Nat
      BY <3>1, ReadByte
    <3> QED BY <3>1, <3>2 DEF EntryEnd
  <2> QED BY <2>1 DEF Fill
<1>7. CASE ReadStapled
  <2>1. turn + 1 \in 1..Len(input.stapled)
    BY <1>4, <1>7 DEF ReadStapled
  <2>2. input.stapled[turn + 1] < MinSctLen /\ input.stapled[turn + 1] \in Nat
    BY <1>4, <2>1, ElementOfSeq DEF NoneStapled
  <2>3. pc = "stapled" /\ pc' = "stapled" /\ Parse("tls_extension", 0, input.stapled[turn + 1])
    BY <1>7 DEF ReadStapled
  <2>4. found' = found
    BY <1>4, <2>2, <2>3 DEF Parse
  <2> QED BY <1>3, <2>3, <2>4
<1>8. CASE EndOfStapled
  BY <1>3, <1>8 DEF EndOfStapled
<1>9. CASE ReadHeader
  <2>1. pc = "list" /\ found = <<>> /\ UNCHANGED found
    BY <1>3, <1>9 DEF ReadHeader
  <2>2. ~(Len(input.embedded) < 2 \/ Len(List) < 2 \/ ListEnd > Len(List))
    <3>1. Len(List) >= 2
      BY <1>4, <1>5, <1>6
    <3>2. Len(input.embedded) >= 2 /\ Len(input.embedded) \in Nat
      BY <1>4, <3>1, EmbeddedLength, LenProperties DEF List
    <3> QED BY <1>4, <1>5, <1>6, <3>1, <3>2
  <2>3. pc' = "entries" /\ pos' = 2
    BY <1>9, <2>2 DEF ReadHeader
  <2>4. \A s \in starts : ~(s < 2)
    BY <1>6
  <2>5. FoundSet' = {} /\ SctsBefore(starts, 2) = {}
    <3>1. DOMAIN found' = {}
      BY <2>1, EmptySeq, LenProperties
    <3> QED BY <2>4, <3>1 DEF FoundSet, SctsBefore
  <2> QED BY <1>6, <2>3, <2>4, <2>5
<1>10. CASE ReadEntry
  <2>1. pc = "entries" /\ pos < ListEnd /\ pos \in starts
    BY <1>3, <1>4, <1>5, <1>10 DEF ReadEntry, InList
  <2> DEFINE last == EntryEnd(pos)
  <2>2. last <= Len(List) /\ last \in starts \cup {ListEnd} /\ last \in Nat /\ last >= pos + 2
    BY <1>5, <1>6, <2>1
  <2>3. pc' = "entries" /\ pos' = last /\ Parse("embedded", pos + 2, last)
    <3>1. ~(pos + 2 + Number(List, pos) > Len(List))
      BY <1>4, <2>2 DEF EntryEnd
    <3> QED BY <1>10, <2>1, <3>1 DEF ReadEntry, EntryEnd
  <2>4. last - (pos + 2) = Number(List, pos)
    BY <1>5, <1>6, <2>1
  <2>5. ASSUME NEW s \in starts PROVE s < last <=> s < pos \/ s = pos
    <3>1. pos < s => last <= s
      BY <1>6, <2>1
    <3>2. s \in Nat
      BY <1>6
    <3> HIDE DEF last
    <3> QED BY <1>5, <2>2, <3>1, <3>2
  <2> HIDE DEF last
  <2>6. FoundSet' = SctsBefore(starts, last)
    <3> DEFINE new == Sct("embedded", pos + 2, last)
    <3>1. CASE Number(List, pos) < MinSctLen
      <4>1. found' = found
        BY <2>3, <2>4, <3>1 DEF Parse
      <4>2. {t \in starts : t < last /\ Number(List, t) >= MinSctLen}
              = {t \in starts : t < pos /\ Number(List, t) >= MinSctLen}
        <5>1. Number(List, pos) \in Nat
          BY <1>6, <2>1
        <5> QED BY <1>5, <2>5, <3>1, <5>1
      <4>3. SctsBefore(starts, last) = SctsBefore(starts, pos)
        BY <4>2 DEF SctsBefore
      <4> QED BY <1>3, <2>1, <4>1, <4>3 DEF FoundSet
    <3>2. CASE Number(List, pos) >= MinSctLen
      <4>1. found' = Append(found, new)
        BY <1>5, <1>6, <2>1, <2>3, <2>4, <3>2 DEF Parse
      <4>2. new \in Place
        BY <1>4, <2>2 DEF Sct, Place
      <4>3. FoundSet' = FoundSet \cup {new}
        <5> HIDE DEF new
        <5>1. /\ Len(found') = Len(found) + 1 /\ found' \in Seq(Place)
              /\ \A j \in 1..Len(found) : found'[j] = found[j]
              /\ found'[Len(found) + 1] = new
          BY <1>4, <4>1, <4>2, AppendProperties
        <5>2. /\ DOMAIN found = 1..Len(found) /\ DOMAIN found' = 1..Len(found) + 1
              /\ Len(found) \in Nat
          BY <1>4, <5>1, LenProperties
        <5> QED BY <5>1, <5>2 DEF FoundSet
      <4>4. {t \in starts : t < last /\ Number(List, t) >= MinSctLen}
              = {t \in starts : t < pos /\ Number(List, t) >= MinSctLen} \cup {pos}
        BY <2>1, <2>5, <3>2
      <4>5. SctsBefore(starts, last) = SctsBefore(starts, pos) \cup {new}
        BY <4>4 DEF SctsBefore, last
      <4> QED BY <1>3, <2>1, <4>3, <4>5
    <3> QED BY <1>5, <1>6, <2>1, <3>1, <3>2
  <2>7. \A s \in starts : s < last => EntryEnd(s) <= last
    <3>1. ASSUME NEW s \in starts, s < pos PROVE EntryEnd(s) <= last
      BY <1>3, <1>4, <1>5, <1>6, <2>1, <2>2, <3>1
    <3>2. EntryEnd(pos) <= last
      BY <2>2 DEF last
    <3> QED BY <2>5, <3>1, <3>2
  <2> QED BY <2>2, <2>3, <2>6, <2>7
<1>11. CASE EndOfList
  <2>1. pc = "entries" /\ pc' = "done" /\ UNCHANGED <<pos, found>>
    BY <1>11 DEF EndOfList
  <2>2. pos \notin starts
    <3> SUFFICES ASSUME pos \in starts PROVE FALSE
      OBVIOUS
    <3>1. pos + 2 <= ListEnd /\ ListEnd <= Len(List)
      BY <1>5, <1>6
    <3> QED BY <1>5, <1>11, <3>1 DEF EndOfList, InList, HasLength
  <2> QED BY <1>3, <2>1, <2>2 DEF FoundSet
<1>12. CASE Done \/ UNCHANGED vars
  BY <1>3, <1>12 DEF Done, vars, FoundSet
<1> QED BY <1>7, <1>8, <1>9, <1>10, <1>11, <1>12 DEF Next, Step

\* From a list of any length whose entries fill it, and with no SCT in the TLS extension,
\* exactly the entries that are long enough are found, each with its own bytes: none is
\* lost, cut or made up (tls.go:211-249).
THEOREM ReadBackTheorem ==
  ASSUME NEW starts
  PROVE  Spec => [](pc = "done" /\ NoneStapled /\ Fill(starts) =>
                      FoundSet = SctsBefore(starts, ListEnd))
<1>1. Init => FillInv(starts)
  BY FillInit
<1>2. IInv /\ FillInv(starts) /\ [Next]_vars => FillInv(starts)'
  BY FillStep
<1>3. FillInv(starts) => (pc = "done" /\ NoneStapled /\ Fill(starts) =>
                            FoundSet = SctsBefore(starts, ListEnd))
  BY DEF FillInv
<1> QED BY <1>1, <1>2, <1>3, InvCorrect, PTL DEF Spec

\* What was found are the SCTs at the turns f of those looked at in the TLS extension:
\* all that are long enough, in order.
Picks(f) ==
  /\ \A j, k \in DOMAIN found : j < k => f[j] < f[k]
  /\ \A k \in DOMAIN found : found[k] = Sct("tls_extension", 0, input.stapled[f[k]])
  /\ \A j \in 1..turn :
       input.stapled[j] >= MinSctLen <=> \E k \in DOMAIN found : f[k] = j

StapledInv ==
  /\ pc = "stapled" \/ ~NoneStapled => \E f \in [DOMAIN found -> 1..turn] : Picks(f)
  /\ pc \in {"list", "entries"} => NoneStapled
  /\ pc # "stapled" => turn = Len(input.stapled)

LEMMA StapledInit == Init => StapledInv
<1> SUFFICES ASSUME Init PROVE StapledInv
  OBVIOUS
<1>1. DOMAIN found = {} /\ turn = 0 /\ pc = "stapled"
  BY EmptySeq, LenProperties DEF Init
<1>2. [k \in {} |-> 1] \in [DOMAIN found -> 1..turn] /\ Picks([k \in {} |-> 1])
  BY <1>1 DEF Picks
<1> QED BY <1>1, <1>2 DEF StapledInv

LEMMA StapledStep == IInv /\ StapledInv /\ [Next]_vars => StapledInv'
<1> SUFFICES ASSUME IInv, StapledInv, [Next]_vars PROVE StapledInv'
  OBVIOUS
<1>1. /\ input' = input /\ NoneStapled' = NoneStapled
  BY FillKept
     DEF Next, Step, ReadStapled, EndOfStapled, ReadHeader, ReadEntry, EndOfList, Done, vars
<1>2. /\ input.stapled \in Seq(Nat) /\ Len(input.stapled) \in Nat /\ MinSctLen \in Nat
      /\ turn \in 0..Len(input.stapled) /\ found \in Seq(Place)
      /\ Len(found) \in Nat /\ DOMAIN found = 1..Len(found)
  <2>1. input \in Inputs /\ input.stapled \in Seq(Nat) /\ found \in Seq(Place)
    BY SctAssumption DEF IInv, ReadsInBounds, Place
  <2> QED BY <2>1, LenProperties, SctAssumption DEF IInv, ReadsInBounds
<1>3. ASSUME UNCHANGED <<turn, found>>, NEW f, Picks(f) PROVE Picks(f)'
  BY <1>1, <1>3 DEF Picks
<1>4. CASE ReadStapled
  <2> DEFINE len == input.stapled[turn + 1]
  <2>1. /\ pc = "stapled" /\ pc' = "stapled" /\ turn' = turn + 1
        /\ turn + 1 \in 1..Len(input.stapled) /\ Parse("tls_extension", 0, len)
    BY <1>2, <1>4 DEF ReadStapled
  <2>2. len \in Nat
    BY <1>2, <2>1, ElementOfSeq
  <2>3. PICK f \in [DOMAIN found -> 1..turn] : Picks(f)
    BY <2>1 DEF StapledInv
  <2>4. CASE len < MinSctLen
    <3>1. found' = found
      BY <2>2, <2>4, <2>1 DEF Parse
    <3>2. f \in [DOMAIN found' -> 1..turn']
      BY <1>2, <2>1, <2>3, <3>1
    <3>3. ASSUME NEW j \in 1..turn + 1
          PROVE  input.stapled[j] >= MinSctLen <=> \E k \in DOMAIN found : f[k] = j
      <4>1. CASE j \in 1..turn
        BY <2>3, <4>1 DEF Picks
      <4>2. CASE j = turn + 1
        <5>1. \A k \in DOMAIN found : f[k] # turn + 1
          BY <1>2, <2>3
        <5> QED BY <1>2, <2>2, <2>4, <4>2, <5>1
      <4> QED BY <1>2, <4>1, <4>2
    <3>4. Picks(f)'
      BY <1>1, <2>1, <2>3, <3>1, <3>3 DEF Picks
    <3> QED BY <2>1, <3>2, <3>4 DEF StapledInv
  <2>5. CASE len >= MinSctLen
    <3> PICK n \in Nat : n = Len(found) + 1
      BY <1>2
    <3> PICK t \in Nat : t = turn
      BY <1>2
    <3> DEFINE new == Sct("tls_extension", 0, len)
               g == [k \in 1..n |-> IF k = n THEN t + 1 ELSE f[k]]
    <3>1. found' = Append(found, new) /\ new \in Place
      BY <1>2, <2>1, <2>2, <2>5 DEF Parse, Sct, Place
    <3>2. /\ DOMAIN found' = 1..n /\ DOMAIN found = 1..n - 1
          /\ \A k \in 1..n - 1 : found'[k] = found[k]
          /\ found'[n] = new
      <4> HIDE DEF new
      <4>1. /\ Len(found') = Len(found) + 1 /\ found' \in Seq(Place)
            /\ \A j \in 1..Len(found) : found'[j] = found[j]
            /\ found'[Len(found) + 1] = new
        BY <1>2, <3>1, AppendProperties
      <4> QED BY <1>2, <4>1, LenProperties
    <3>3. g[n] = t + 1 /\ \A k \in 1..n - 1 : g[k] = f[k] /\ f[k] \in 1..t
      <4>1. f \in [1..n - 1 -> 1..t] /\ n >= 1
        BY <1>2, <2>3, <3>2
      <4>2. n \in 1..n /\ \A k \in 1..n - 1 : k \in 1..n /\ k # n
        BY <4>1
      <4> QED BY <4>1, <4>2
    <3>4. g \in [DOMAIN found' -> 1..turn']
      <4>1. ASSUME NEW k \in 1..n PROVE g[k] \in 1..t + 1
        <5>1. k = n \/ k \in 1..n - 1
          OBVIOUS
        <5>2. 1..t \subseteq 1..t + 1 /\ t + 1 \in 1..t + 1
          OBVIOUS
        <5> HIDE DEF g
        <5> QED BY <3>3, <5>1, <5>2
      <4>2. turn' = t + 1 /\ DOMAIN found' = 1..n
        BY <2>1, <3>2
      <4>3. g \in [1..n -> 1..t + 1]
        BY <4>1
      <4> HIDE DEF g
      <4> QED BY <4>2, <4>3
    <3> HIDE DEF g
    <3>5. \A j, k \in 1..n : j < k => g[j] < g[k]
      <4>1. ASSUME NEW j \in 1..n, NEW k \in 1..n, j < k PROVE g[j] < g[k]
        <5>1. CASE k = n
          <6>1. j \in 1..n - 1
            BY <4>1, <5>1
          <6>2. g[j] \in 1..t /\ g[k] = t + 1
            BY <3>3, <5>1, <6>1
          <6> QED BY <6>2
        <5>2. CASE k # n
          <6>1. j \in 1..n - 1 /\ k \in 1..n - 1
            BY <4>1, <5>2
          <6> QED BY <2>3, <3>2, <3>3, <4>1, <6>1 DEF Picks
        <5> QED BY <5>1, <5>2
      <4> QED BY <4>1
    <3>6. \A k \in 1..n : found'[k] = Sct("tls_extension", 0, input.stapled[g[k]])
      <4>1. ASSUME NEW k \in 1..n - 1
            PROVE  found'[k] = Sct("tls_extension", 0, input.stapled[g[k]])
        BY <2>3, <3>2, <3>3 DEF Picks
      <4>2. found'[n] = Sct("tls_extension", 0, input.stapled[g[n]])
        BY <3>2, <3>3
      <4> QED BY <4>1, <4>2
    <3>7. ASSUME NEW j \in 1..t + 1
          PROVE  input.stapled[j] >= MinSctLen <=> \E k \in 1..n : g[k] = j
      <4>1. CASE j = t + 1
        BY <2>5, <3>3, <4>1
      <4>2. CASE j \in 1..t
        <5>1. input.stapled[j] >= MinSctLen <=> \E k \in 1..n - 1 : f[k] = j
          BY <2>3, <3>2, <4>2 DEF Picks
        <5>2. g[n] # j
          BY <1>2, <3>3, <4>2
        <5>3. ASSUME NEW k \in 1..n - 1, f[k] = j
              PROVE  k \in 1..n /\ g[k] = j
          BY <1>2, <3>2, <3>3, <5>3
        <5>4. ASSUME NEW k \in 1..n, g[k] = j
              PROVE  k \in 1..n - 1 /\ f[k] = j
          <6>1. k # n
            BY <5>2, <5>4
          <6>2. k \in 1..n - 1
            BY <6>1
          <6> QED BY <3>3, <5>4, <6>2
        <5>5. (\E k \in 1..n : g[k] = j) <=> (\E k \in 1..n - 1 : f[k] = j)
          BY <5>3, <5>4, Zenon
        <5> QED BY <5>1, <5>5
      <4>3. j = t + 1 \/ j \in 1..t
        BY <1>2
      <4> QED BY <4>1, <4>2, <4>3
    <3>8. Picks(g)'
      BY <1>1, <2>1, <3>2, <3>5, <3>6, <3>7 DEF Picks
    <3> QED BY <2>1, <3>4, <3>8 DEF StapledInv
  <2> QED BY <1>2, <2>2, <2>4, <2>5
<1>5. CASE EndOfStapled
  <2>1. /\ pc = "stapled" /\ turn = Len(input.stapled) /\ UNCHANGED <<turn, found>>
        /\ pc' = IF found = <<>> THEN "list" ELSE "done"
    BY <1>5 DEF EndOfStapled
  <2>2. PICK f \in [DOMAIN found -> 1..turn] : Picks(f)
    BY <2>1 DEF StapledInv
  <2>3. found = <<>> => NoneStapled
    <3> SUFFICES ASSUME found = <<>>, NEW j \in 1..Len(input.stapled)
                 PROVE  input.stapled[j] < MinSctLen
      BY DEF NoneStapled
    <3>1. DOMAIN found = {}
      BY EmptySeq, LenProperties
    <3>2. ~(input.stapled[j] >= MinSctLen)
      BY <2>1, <2>2, <3>1 DEF Picks
    <3> QED BY <1>2, <3>2, ElementOfSeq
  <2>4. Picks(f)'
    BY <1>3, <2>1, <2>2
  <2> QED BY <1>1, <2>1, <2>2, <2>3, <2>4 DEF StapledInv
<1>6. CASE ReadHeader \/ ReadEntry \/ EndOfList
  <2>1. /\ pc \in {"list", "entries"} /\ pc' # "stapled" /\ turn' = turn
    BY <1>6 DEF ReadHeader, ReadEntry, EndOfList
  <2> QED BY <1>1, <2>1 DEF StapledInv
<1>7. CASE Done \/ UNCHANGED vars
  BY <1>1, <1>3, <1>7 DEF Done, vars, StapledInv
<1> QED BY <1>4, <1>5, <1>6, <1>7 DEF Next, Step

\* If any SCT of the TLS extension is long enough, exactly those that are get found, in
\* order, and nothing of the certificate's list with them (tls.go:139-157).
THEOREM StapledTheorem ==
  Spec => [](pc = "done" /\ ~NoneStapled =>
               /\ turn = Len(input.stapled)
               /\ \E f \in [DOMAIN found -> 1..turn] : Picks(f))
<1>1. StapledInv => (pc = "done" /\ ~NoneStapled =>
                       /\ turn = Len(input.stapled)
                       /\ \E f \in [DOMAIN found -> 1..turn] : Picks(f))
  BY DEF StapledInv
<1> QED BY <1>1, StapledInit, StapledStep, InvCorrect, PTL DEF Spec

-----------------------------------------------------------------------------
(* The end. *)

\* What is left to read, counted in steps at most.
Stage == CASE pc = "stapled" -> 3 [] pc = "list" -> 2 [] pc = "entries" -> 1 [] OTHER -> 0

StepsLeft == (Len(input.stapled) - turn) + (Len(List) - pos) + Stage

LEMMA StepsDown ==
  ASSUME IInv, [Next]_vars, ~UNCHANGED vars
  PROVE  StepsLeft' < StepsLeft
<1>1. input' = input /\ List' = List /\ Step
  <2>1. Step
    BY DEF Next, Done
  <2>2. input' = input
    BY <2>1 DEF Step, ReadStapled, EndOfStapled, ReadHeader, ReadEntry, EndOfList
  <2> QED BY <2>1, <2>2, ListSame
<1>2. /\ Len(input.stapled) \in Nat /\ Len(List) \in Nat
      /\ turn \in 0..Len(input.stapled) /\ pos \in 0..Len(List)
      /\ List \in Seq(Byte)
  <2>1. input \in Inputs /\ input.stapled \in Seq(Nat)
    BY SctAssumption DEF IInv, ReadsInBounds
  <2> QED BY <2>1, ListBytes, LenProperties DEF IInv, ReadsInBounds
<1>3. StepsLeft' = (Len(input.stapled) - turn') + (Len(List) - pos') + Stage'
  BY <1>1 DEF StepsLeft
<1>4. CASE ReadStapled
  <2>1. turn' = turn + 1 /\ pos' = pos /\ Stage' = 3 /\ Stage = 3
    BY <1>4 DEF ReadStapled, Stage
  <2> QED BY <1>2, <1>3, <2>1 DEF StepsLeft
<1>5. CASE EndOfStapled
  <2>1. turn' = turn /\ pos' = pos /\ Stage = 3 /\ Stage' \in {2, 0}
    BY <1>5 DEF EndOfStapled, Stage
  <2> QED BY <1>2, <1>3, <2>1 DEF StepsLeft
<1>6. CASE ReadHeader
  <2>1. turn' = turn /\ pos = 0 /\ Stage = 2
    BY <1>6 DEF ReadHeader, Stage, IInv, PositionInv
  <2>2. (pos' = 0 /\ Stage' = 0) \/ (pos' = 2 /\ Stage' = 1)
    BY <1>6, <2>1 DEF ReadHeader, Stage
  <2> QED BY <1>2, <1>3, <2>1, <2>2 DEF StepsLeft
<1>7. CASE ReadEntry
  <2>1. turn' = turn /\ Stage = 1 /\ Stage' \in {0, 1}
    BY <1>7 DEF ReadEntry, Stage
  <2>2. Number(List, pos) \in Nat /\ pos \in Nat
    BY <1>2, ReadByte
  <2>3. pos' = pos + 2 \/ pos' = pos + 2 + Number(List, pos)
    BY <1>7 DEF ReadEntry
  <2>4. PICK d \in Nat : pos' = pos + 2 + d
    BY <2>2, <2>3
  <2> QED BY <1>2, <1>3, <2>1, <2>4 DEF StepsLeft
<1>8. CASE EndOfList
  <2>1. turn' = turn /\ pos' = pos /\ Stage = 1 /\ Stage' = 0
    BY <1>8 DEF EndOfList, Stage
  <2> QED BY <1>2, <1>3, <2>1 DEF StepsLeft
<1> QED BY <1>1, <1>4, <1>5, <1>6, <1>7, <1>8 DEF Step

\* Whatever lengths a certificate states, zero among them, every step of the parser uses
\* up one of those that are left, which are never fewer than none: it cannot go round for
\* ever.
THEOREM BoundedTheorem == Spec => [](StepsLeft \in Nat) /\ [][StepsLeft' < StepsLeft]_vars
<1>1. ASSUME IInv PROVE StepsLeft \in Nat
  <2>1. input \in Inputs /\ input.stapled \in Seq(Nat)
    BY <1>1, SctAssumption DEF IInv, ReadsInBounds
  <2>2. /\ Len(input.stapled) \in Nat /\ Len(List) \in Nat
        /\ turn \in 0..Len(input.stapled) /\ pos \in 0..Len(List)
    BY <1>1, <2>1, ListBytes, LenProperties DEF IInv, ReadsInBounds
  <2>3. Stage \in Nat
    BY DEF Stage
  <2> QED BY <2>2, <2>3 DEF StepsLeft
<1>2. IInv /\ [Next]_vars => [StepsLeft' < StepsLeft]_vars
  BY StepsDown
<1> QED BY <1>1, <1>2, InvCorrect, PTL DEF Spec
=============================================================================
