------------------------------ MODULE MCSctList ------------------------------
(* Every short byte string as a certificate's SCT list, bare and wrapped, and a *)
(* reference encoding of lists of SCTs to compare the parser with.             *)
EXTENDS SctList, SequencesExt

\* The tag of an OCTET STRING is 4.
Bytes == UNION {[1..n -> {0, 1, 2}] : n \in 0..6} \cup UNION {[1..n -> {0, 2, 4}] : n \in 0..5}

\* The SCTs of a list: empty, too short (of one byte) and long enough.
SomeScts == {<<>>, <<4>>, <<0, 2>>, <<2, 0, 1>>}

\* The last of these is 1026 bytes long: bare, it begins with the bytes 4 and 2, an
\* OCTET STRING of two bytes.
EntryLists == UNION {[1..n -> SomeScts] : n \in 0..3}
                \cup {<<[k \in 1..n |-> 7], <<1, 1>>>> : n \in {140, 1020}}

Prefixed(bytes) == <<Len(bytes) \div 256, Len(bytes) % 256>> \o bytes

\* RFC 6962, section 3.3: every SCT and the list as a whole behind its length.
Encode(entries) == Prefixed(FlattenSeq([k \in DOMAIN entries |-> Prefixed(entries[k])]))

\* In a certificate the list is an OCTET STRING inside the extension's value.
Wrap(bytes) == (IF Len(bytes) < 128 THEN <<4, Len(bytes)>>
                ELSE IF Len(bytes) < 256 THEN <<4, 129, Len(bytes)>>
                ELSE <<4, 130, Len(bytes) \div 256, Len(bytes) % 256>>) \o bytes

Encodings == [entries \in EntryLists |-> {Encode(entries), Wrap(Encode(entries))}]

\* A bare list that reads as an OCTET STRING is taken for one (tls.go:218).
Readable(entries) == {bytes \in Encodings[entries] :
                        bytes = Wrap(Encode(entries)) \/ ~IsOctetString(bytes)}

\* Lists that end inside their last SCT, or before another one in the buffer.
Misfits == {<<0, 4, 0, 3, 1, 1>>, <<0, 4, 0, 3, 1, 1, 9>>, <<0, 5, 0, 2, 1, 1, 0, 2, 9, 9>>,
            <<0, 4, 0, 2, 1, 1, 0, 2, 9, 9>>}

Blobs == Bytes \cup UNION {Encodings[e] : e \in EntryLists} \cup Misfits

AllInputs ==
  [stapled: {<<>>}, embedded: Blobs \cup {Wrap(b) : b \in Blobs}]
  \cup [stapled: {<<1>>, <<3>>, <<1, 2, 0, 4>>}, embedded: {Encode(<<<<0, 2>>>>), <<>>}]

Content(sct) == SubSeq(List, sct.from + 1, sct.to)

\* A list encoded as RFC 6962 says, in its OCTET STRING or bare, gives back exactly
\* its SCTs that are long enough, in order; and if the TLS extension had any, exactly
\* those (tls.go:139-157, 211-249).  Bare lists that look like an OCTET STRING
\* themselves are excepted: those of 1024 to 1151 bytes and some longer ones.
RoundTrip == pc = "done" =>
  LET stapled == SelectSeq(input.stapled, LAMBDA len : len >= MinSctLen)
  IN  IF stapled # <<>>
        THEN [k \in DOMAIN found |-> found[k].to - found[k].from] = stapled
        ELSE \A e \in EntryLists : input.embedded \in Readable(e) =>
               [k \in DOMAIN found |-> Content(found[k])]
                 = SelectSeq(e, LAMBDA sct : Len(sct) >= MinSctLen)
=============================================================================
