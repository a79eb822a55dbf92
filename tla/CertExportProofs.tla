--------------------------- MODULE CertExportProofs ---------------------------
(***************************************************************************)
(* Theorems about CertExport, for every set of overlapping calls, every chain *)
(* and size of certificate, and everything an earlier run may have left:      *)
(*                                                                         *)
(*   NoGapsTheorem   a call nobody disturbs exports a chain without gaps      *)
(*   WholeTheorem    calls that agree leave each certificate whole            *)
(***************************************************************************)
EXTENDS CertExport, TLAPS, SequenceTheorems

-----------------------------------------------------------------------------
(* Names, chains and content. *)

TypeInv ==
  /\ job \in [Calls -> Jobs]
  /\ files \in [Names -> Seq(Block)]
  /\ pc \in [Calls -> {"start", "next", "write", "ok", "error"}]
  /\ index \in [Calls -> Nat \ {0}]
  /\ offset \in [Calls -> Nat]

LEMMA ChainType ==
  ASSUME TypeInv, NEW c \in Calls
  PROVE  /\ Chain(c) \in Seq(DOMAIN Size) /\ Len(Chain(c)) \in Nat
         /\ DOMAIN Chain(c) = 1..Len(Chain(c))
         /\ \A i \in DOMAIN Chain(c) : /\ Chain(c)[i] \in DOMAIN Size
                                       /\ Size[Chain(c)[i]] \in Nat
                                       /\ Name(c, i) \in Names
<1>1. job[c] \in Jobs /\ job[c].chain \in Seq(DOMAIN Size)
  BY ExportAssumption DEF TypeInv
<1>2. /\ Chain(c) \in Seq(DOMAIN Size) /\ Len(Chain(c)) \in Nat
      /\ DOMAIN Chain(c) = 1..Len(Chain(c))
  BY <1>1, LenProperties DEF Chain
<1>3. ASSUME NEW i \in DOMAIN Chain(c)
      PROVE  Chain(c)[i] \in DOMAIN Size /\ Size[Chain(c)[i]] \in Nat
  BY <1>2, ExportAssumption
<1>4. ASSUME NEW i \in DOMAIN Chain(c) PROVE Name(c, i) \in Names
  BY <1>1 DEF Names, Name, Chain
<1> QED BY <1>2, <1>3, <1>4

\* The place in the chain is part of the name.
LEMMA NamePlace ==
  ASSUME NEW c, NEW d, NEW i, NEW j, Name(c, i) = Name(d, j)
  PROVE  i = j
BY DEF Name

LEMMA SeqOf ==
  ASSUME NEW S, NEW m \in Nat, NEW f \in [1..m -> S]
  PROVE  f \in Seq(S) /\ Len(f) = m
<1>1. f \in Seq(S)
  BY SeqDef
<1> QED BY <1>1, LenProperties

\* The first m blocks of a certificate.
Part(cert, m) == [b \in 1..m |-> <<cert, b>>]

LEMMA PartType ==
  ASSUME NEW cert \in DOMAIN Size, NEW m \in Nat
  PROVE  /\ Part(cert, m) \in Seq(Block) /\ Len(Part(cert, m)) = m
         /\ \A b \in 1..m : Part(cert, m)[b] = <<cert, b>>
<1>1. \A b \in 1..m : <<cert, b>> \in Block
  BY DEF Block
<1>2. Part(cert, m) \in [1..m -> Block]
  BY <1>1 DEF Part
<1>3. Part(cert, m) \in Seq(Block) /\ Len(Part(cert, m)) = m
  BY <1>2, SeqOf
<1>4. \A b \in 1..m : Part(cert, m)[b] = <<cert, b>>
  BY DEF Part
<1> QED BY <1>3, <1>4

\* A write keeps what is there outside the blocks it puts in place.
LEMMA OverwrittenType ==
  ASSUME NEW content \in Seq(Block), NEW cert \in DOMAIN Size,
         NEW from \in Nat, NEW to \in Nat, from < to
  PROVE  LET new == Overwritten(content, cert, from, to)
         IN  /\ new \in Seq(Block)
             /\ Len(new) \in Nat
             /\ Len(new) >= Len(content) /\ Len(new) >= to
             /\ Len(new) = Len(content) \/ Len(new) = to
             /\ \A b \in from + 1..to : new[b] = <<cert, b>>
             /\ \A b \in 1..Len(content) : b \notin from + 1..to => new[b] = content[b]
<1> DEFINE m == IF Len(content) > to THEN Len(content) ELSE to
           new == Overwritten(content, cert, from, to)
<1>1. /\ Len(content) \in Nat /\ DOMAIN content = 1..Len(content)
      /\ \A b \in 1..Len(content) : content[b] \in Block
  BY LenProperties
<1>2. m \in Nat /\ m >= Len(content) /\ m >= to /\ (m = Len(content) \/ m = to)
  BY <1>1
<1>3. new = [b \in 1..m |-> IF b \in from + 1..to THEN <<cert, b>>
                            ELSE IF b \in DOMAIN content THEN content[b] ELSE <<"hole", b>>]
  BY DEF Overwritten
<1> HIDE DEF m, new
<1>4. \A b \in 1..m : <<cert, b>> \in Block /\ <<"hole", b>> \in Block
  BY <1>2 DEF Block
<1>5. new \in [1..m -> Block]
  <2>1. \A b \in 1..m : (IF b \in from + 1..to THEN <<cert, b>>
                         ELSE IF b \in DOMAIN content THEN content[b] ELSE <<"hole", b>>) \in Block
    BY <1>1, <1>4
  <2> QED BY <1>3, <2>1, Zenon
<1>6. new \in Seq(Block) /\ Len(new) = m
  BY <1>2, <1>5, SeqOf
<1>7. /\ \A b \in from + 1..to : new[b] = <<cert, b>>
      /\ \A b \in 1..Len(content) : b \notin from + 1..to => new[b] = content[b]
  <2>1. ASSUME NEW b \in from + 1..to PROVE new[b] = <<cert, b>>
    BY <1>2, <1>3
  <2>2. ASSUME NEW b \in 1..Len(content), b \notin from + 1..to PROVE new[b] = content[b]
    <3>1. b \in 1..m /\ b \in DOMAIN content
      <4>1. DOMAIN content = 1..Len(content) /\ Len(content) \in Nat
        BY <1>1
      <4>2. Len(content) <= m /\ m \in Nat
        BY <1>2
      <4>3. b \in Nat /\ 1 <= b /\ b <= Len(content)
        BY <4>1
      <4>4. b \in 1..m
        BY <4>1, <4>2, <4>3
      <4> QED BY <4>1, <4>4
    <3>2. new[b] = IF b \in from + 1..to THEN <<cert, b>>
                   ELSE IF b \in DOMAIN content THEN content[b] ELSE <<"hole", b>>
      BY <1>3, <3>1, Zenon
    <3>3. ~(b \in from + 1..to)
      BY <2>2
    <3> QED BY <3>1, <3>2, <3>3, Zenon
  <2> QED BY <2>1, <2>2
<1> QED BY <1>2, <1>6, <1>7 DEF new

\* The next blocks of a certificate behind its first ones.
LEMMA PartGrows ==
  ASSUME NEW cert \in DOMAIN Size, NEW from \in Nat, NEW to \in Nat, from < to
  PROVE  Overwritten(Part(cert, from), cert, from, to) = Part(cert, to)
<1>1. Len(Part(cert, from)) = from /\ DOMAIN Part(cert, from) = 1..from
  BY PartType DEF Part
<1>2. \A b \in 1..from : Part(cert, from)[b] = <<cert, b>>
  BY PartType
<1>3. Overwritten(Part(cert, from), cert, from, to) =
        [b \in 1..to |-> IF b \in from + 1..to THEN <<cert, b>>
                         ELSE IF b \in 1..from THEN Part(cert, from)[b] ELSE <<"hole", b>>]
  BY <1>1 DEF Overwritten
<1>4. \A b \in 1..to : b \in from + 1..to \/ b \in 1..from
  OBVIOUS
<1>5. [b \in 1..to |-> IF b \in from + 1..to THEN <<cert, b>>
                       ELSE IF b \in 1..from THEN Part(cert, from)[b] ELSE <<"hole", b>>]
        = [b \in 1..to |-> <<cert, b>>]
  BY <1>2, <1>4
<1> QED BY <1>3, <1>5 DEF Part

-----------------------------------------------------------------------------
(* Types, and where each call is. *)

\* A call is at a certificate of its chain while it writes, behind the last one when it
\* has ended well.
PlaceInv == \A c \in Calls :
  /\ index[c] <= Len(Chain(c)) + 1
  /\ pc[c] = "write" => /\ index[c] \in DOMAIN Chain(c)
                        /\ offset[c] <= Size[Chain(c)[index[c]]]
  /\ pc[c] = "ok" => index[c] = Len(Chain(c)) + 1

LEMMA PlaceInit == Init => TypeInv /\ PlaceInv
<1> SUFFICES ASSUME Init PROVE TypeInv /\ PlaceInv
  OBVIOUS
<1>1. TypeInv
  BY ExportAssumption DEF Init, TypeInv
<1>2. ASSUME NEW c \in Calls PROVE Len(Chain(c)) \in Nat
  BY <1>1, ChainType
<1> QED BY <1>1, <1>2 DEF Init, PlaceInv

\* The other calls stay where they are.
LEMMA OthersStay ==
  ASSUME TypeInv, NEW e \in Calls, CallStep(e), NEW c \in Calls, c # e
  PROVE  UNCHANGED <<pc[c], index[c], offset[c]>>
BY DEF TypeInv, CallStep, Start, Open, Write, WriteFails, Close, Return, Goto

\* A step changes at most the file the call is at.
LEMMA OtherFiles ==
  ASSUME TypeInv, PlaceInv, NEW e \in Calls, CallStep(e), NEW n \in Names,
         index[e] \in DOMAIN Chain(e) => n # Name(e, index[e])
  PROVE  files'[n] = files[n]
<1>1. CASE Open(e)
  <2>1. index[e] \in DOMAIN Chain(e)
    BY <1>1, ChainType DEF Open, TypeInv
  <2> QED BY <1>1, <2>1 DEF Open, TypeInv
<1>2. CASE Write(e)
  <2>1. index[e] \in DOMAIN Chain(e)
    BY <1>2 DEF Write, PlaceInv
  <2> QED BY <1>2, <2>1 DEF Write, TypeInv
<1>3. CASE Start(e) \/ WriteFails(e) \/ Close(e) \/ Return(e)
  BY <1>3 DEF Start, WriteFails, Close, Return
<1> QED BY <1>1, <1>2, <1>3 DEF CallStep

\* What Open and Write do to the file the call is at.
LEMMA OpenEffect ==
  ASSUME TypeInv, NEW e \in Calls, Open(e)
  PROVE  /\ index[e] \in DOMAIN Chain(e) /\ pc[e] = "next" /\ offset'[e] = 0
         /\ index' = index /\ job' = job /\ old' = old
         /\ \/ pc'[e] = "error" /\ files' = files
            \/ pc'[e] = "write" /\ files'[Name(e, index[e])] = <<>>
         /\ files' \in [Names -> Seq(Block)]
<1>1. index[e] \in DOMAIN Chain(e) /\ Name(e, index[e]) \in Names
  BY ChainType DEF Open, TypeInv
<1>2. <<>> \in Seq(Block)
  BY EmptySeq
<1> QED BY <1>1, <1>2 DEF Open, Goto, TypeInv

LEMMA WriteEffect ==
  ASSUME TypeInv, PlaceInv, NEW e \in Calls, Write(e)
  PROVE  /\ index[e] \in DOMAIN Chain(e) /\ pc[e] = "write"
         /\ index' = index /\ job' = job /\ old' = old /\ pc' = pc
         /\ LET cert == Chain(e)[index[e]]
                n    == Name(e, index[e])
            IN  /\ offset'[e] \in Nat /\ offset'[e] <= Size[cert] /\ offset[e] < offset'[e]
                /\ files'[n] = Overwritten(files[n], cert, offset[e], offset'[e])
         /\ files' \in [Names -> Seq(Block)] /\ offset' \in [Calls -> Nat]
<1> DEFINE cert == Chain(e)[index[e]]
           n    == Name(e, index[e])
<1>1. /\ index[e] \in DOMAIN Chain(e) /\ pc[e] = "write"
      /\ n \in Names /\ cert \in DOMAIN Size /\ Size[cert] \in Nat /\ offset[e] \in Nat
      /\ index' = index /\ job' = job /\ old' = old /\ pc' = pc
  BY ChainType DEF Write, PlaceInv, TypeInv
<1>2. PICK to \in offset[e] + 1..Size[cert] :
        /\ files' = [files EXCEPT ![n] = Overwritten(@, cert, offset[e], to)]
        /\ offset' = [offset EXCEPT ![e] = to]
  BY DEF Write
<1> HIDE DEF cert, n
<1>3. to \in Nat /\ offset[e] < to /\ to <= Size[cert]
  BY <1>1, <1>2
<1>4. Overwritten(files[n], cert, offset[e], to) \in Seq(Block)
  BY <1>1, <1>3, OverwrittenType DEF TypeInv
<1>5. /\ offset'[e] = to /\ offset' \in [Calls -> Nat]
      /\ files'[n] = Overwritten(files[n], cert, offset[e], to)
      /\ files' \in [Names -> Seq(Block)]
  BY <1>1, <1>2, <1>3, <1>4 DEF TypeInv
<1> QED BY <1>1, <1>3, <1>5 DEF cert, n

LEMMA PlaceStep ==
  ASSUME TypeInv, PlaceInv, NEW e \in Calls, CallStep(e)
  PROVE  TypeInv' /\ PlaceInv'
<1>1. TypeInv'
  <2>1. CASE Open(e)
    <3>1. job' = job /\ index' = index /\ files' \in [Names -> Seq(Block)]
      BY <2>1, OpenEffect
    <3>2. /\ pc' \in [Calls -> {"start", "next", "write", "ok", "error"}]
          /\ offset' \in [Calls -> Nat]
      BY <2>1 DEF TypeInv, Open, Goto
    <3> QED BY <3>1, <3>2 DEF TypeInv
  <2>2. CASE Write(e)
    BY <2>2, WriteEffect DEF TypeInv
  <2>3. CASE Start(e)
    BY <2>3 DEF TypeInv, Start, Goto
  <2>4. CASE WriteFails(e)
    BY <2>4 DEF TypeInv, WriteFails, Goto
  <2>5. CASE Close(e)
    <3>1. UNCHANGED <<job, files, offset>>
      BY <2>5 DEF Close
    <3>2. pc' \in [Calls -> {"start", "next", "write", "ok", "error"}]
      BY <2>5 DEF TypeInv, Close, Goto
    <3>3. index[e] + 1 \in Nat \ {0}
      BY DEF TypeInv
    <3>4. index' \in [Calls -> Nat \ {0}]
      BY <2>5, <3>3 DEF TypeInv, Close
    <3> QED BY <3>1, <3>2, <3>4 DEF TypeInv
  <2>6. CASE Return(e)
    BY <2>6 DEF TypeInv, Return, Goto
  <2> QED BY <2>1, <2>2, <2>3, <2>4, <2>5, <2>6 DEF CallStep
<1>2. job' = job
  BY DEF CallStep, Start, Open, Write, WriteFails, Close, Return
<1>3. ASSUME NEW c \in Calls
      PROVE  /\ index'[c] <= Len(Chain(c)) + 1
             /\ pc'[c] = "write" => /\ index'[c] \in DOMAIN Chain(c)
                                    /\ offset'[c] <= Size[Chain(c)[index'[c]]]
             /\ pc'[c] = "ok" => index'[c] = Len(Chain(c)) + 1
  <2>1. CASE c # e
    BY <2>1, OthersStay DEF PlaceInv
  <2>2. CASE c = e
    <3>1. /\ Len(Chain(e)) \in Nat /\ DOMAIN Chain(e) = 1..Len(Chain(e)) /\ index[e] \in Nat \ {0}
          /\ \A i \in DOMAIN Chain(e) : Size[Chain(e)[i]] \in Nat
          /\ pc \in [Calls -> {"start", "next", "write", "ok", "error"}]
          /\ index \in [Calls -> Nat \ {0}]
      BY ChainType DEF TypeInv
    <3>2. CASE Open(e)
      BY <2>2, <3>1, <3>2, OpenEffect DEF PlaceInv
    <3>3. CASE Write(e)
      BY <2>2, <3>1, <3>3, WriteEffect DEF PlaceInv
    <3>4. CASE Start(e)
      BY <2>2, <3>1, <3>4 DEF PlaceInv, Start, Goto
    <3>5. CASE WriteFails(e)
      BY <2>2, <3>1, <3>5 DEF PlaceInv, WriteFails, Goto
    <3>6. CASE Close(e)
      BY <2>2, <3>1, <3>6 DEF PlaceInv, Close, Goto
    <3>7. CASE Return(e)
      BY <2>2, <3>1, <3>7 DEF PlaceInv, Return, Goto
    <3> QED BY <3>2, <3>3, <3>4, <3>5, <3>6, <3>7 DEF CallStep
  <2> QED BY <2>1, <2>2
<1>4. PlaceInv'
  BY <1>2, <1>3 DEF PlaceInv, Chain
<1> QED BY <1>1, <1>4

-----------------------------------------------------------------------------
(* A call that shares no name. *)

\* What was written behind the call is whole, what lies ahead is as it was, and the
\* certificate it writes is there up to where it is.
AloneAt(c) ==
  /\ \A i \in 1..index[c] - 1 : files[Name(c, i)] = Whole(Chain(c)[i])
  /\ \A i \in index[c] + 1..Len(Chain(c)) : files[Name(c, i)] = old[Name(c, i)]
  /\ pc[c] = "write" => files[Name(c, index[c])] = Part(Chain(c)[index[c]], offset[c])

AloneInv == \A c \in Calls : Alone(c) => AloneAt(c)

LEMMA AloneInit == Init => AloneInv
BY DEF Init, AloneInv, AloneAt

\* The step of another call.
LEMMA AloneOther ==
  ASSUME TypeInv, PlaceInv, NEW e \in Calls, CallStep(e), job' = job, old' = old,
         NEW c \in Calls, c # e, Alone(c), AloneAt(c)
  PROVE  AloneAt(c)'
<1>1. UNCHANGED <<pc[c], index[c], offset[c]>>
  BY OthersStay
<1>2. ASSUME NEW i \in DOMAIN Chain(c) PROVE files'[Name(c, i)] = files[Name(c, i)]
  <2>1. index[e] \in DOMAIN Chain(e) => Name(c, i) # Name(e, index[e])
    BY DEF Alone, Uses
  <2> QED BY <2>1, ChainType, OtherFiles
<1>3. /\ index[c] \in Nat \ {0} /\ index[c] <= Len(Chain(c)) + 1 /\ Len(Chain(c)) \in Nat
      /\ DOMAIN Chain(c) = 1..Len(Chain(c))
      /\ pc[c] = "write" => index[c] \in DOMAIN Chain(c)
  BY ChainType DEF TypeInv, PlaceInv
<1>4. /\ \A i \in 1..index[c] - 1 : i \in DOMAIN Chain(c)
      /\ \A i \in index[c] + 1..Len(Chain(c)) : i \in DOMAIN Chain(c)
  BY <1>3
<1>5. /\ \A i \in 1..index[c] - 1 : files'[Name(c, i)] = Whole(Chain(c)[i])
      /\ \A i \in index[c] + 1..Len(Chain(c)) : files'[Name(c, i)] = old[Name(c, i)]
      /\ pc[c] = "write" => files'[Name(c, index[c])] = Part(Chain(c)[index[c]], offset[c])
  BY <1>2, <1>3, <1>4 DEF AloneAt
<1>6. \A i : Name(c, i)' = Name(c, i) /\ Chain(c)' = Chain(c)
  BY DEF Name, Chain
<1> QED BY <1>1, <1>5, <1>6 DEF AloneAt

\* Its own step.
LEMMA AloneOwn ==
  ASSUME TypeInv, PlaceInv, NEW c \in Calls, CallStep(c), job' = job, old' = old,
         AloneAt(c)
  PROVE  AloneAt(c)'
<1>1. /\ index[c] \in Nat \ {0} /\ Len(Chain(c)) \in Nat /\ DOMAIN Chain(c) = 1..Len(Chain(c))
      /\ index[c] <= Len(Chain(c)) + 1 /\ offset[c] \in Nat
      /\ \A i \in DOMAIN Chain(c) : Chain(c)[i] \in DOMAIN Size
      /\ pc \in [Calls -> {"start", "next", "write", "ok", "error"}]
      /\ index \in [Calls -> Nat \ {0}] /\ offset \in [Calls -> Nat]
  BY ChainType DEF TypeInv, PlaceInv
<1>2. Chain(c)' = Chain(c) /\ (\A i : Name(c, i)' = Name(c, i))
  BY DEF Name, Chain
<1>3. ASSUME NEW i \in DOMAIN Chain(c), i # index[c]
      PROVE  files'[Name(c, i)] = files[Name(c, i)]
  BY <1>3, ChainType, OtherFiles, NamePlace
<1>4. /\ \A i \in 1..index[c] - 1 : i \in DOMAIN Chain(c) /\ i # index[c]
      /\ \A i \in index[c] + 1..Len(Chain(c)) : i \in DOMAIN Chain(c) /\ i # index[c]
  BY <1>1
<1>5. /\ \A i \in 1..index[c] - 1 : files'[Name(c, i)] = Whole(Chain(c)[i])
      /\ \A i \in index[c] + 1..Len(Chain(c)) : files'[Name(c, i)] = old[Name(c, i)]
  BY <1>3, <1>4 DEF AloneAt
<1>6. CASE Open(c)
  <2>1. index' = index /\ offset'[c] = 0
    BY <1>6, OpenEffect
  <2>2. pc'[c] = "write" => files'[Name(c, index[c])] = Part(Chain(c)[index[c]], 0)
    <3>1. ASSUME NEW cert PROVE Part(cert, 0) = <<>>
      BY DEF Part
    <3> QED BY <1>6, <3>1, OpenEffect
  <2>3. AloneAt(c)'
    BY <1>2, <1>5, <2>1, <2>2 DEF AloneAt
  <2> QED BY <2>3
<1>7. CASE Write(c)
  <2> DEFINE cert == Chain(c)[index[c]]
  <2>1. /\ index' = index /\ pc' = pc /\ pc[c] = "write" /\ index[c] \in DOMAIN Chain(c)
        /\ offset'[c] \in Nat /\ offset[c] < offset'[c]
        /\ files'[Name(c, index[c])] =
             Overwritten(files[Name(c, index[c])], cert, offset[c], offset'[c])
    BY <1>7, WriteEffect
  <2>2. files[Name(c, index[c])] = Part(cert, offset[c])
    BY <2>1 DEF AloneAt
  <2>3. cert \in DOMAIN Size
    BY <1>1, <2>1
  <2>4. files'[Name(c, index[c])] = Part(cert, offset'[c])
    BY <1>1, <2>1, <2>2, <2>3, PartGrows
  <2> QED BY <1>2, <1>5, <2>1, <2>4 DEF AloneAt
<1>8. CASE Close(c)
  <2>1. /\ files' = files /\ offset' = offset /\ pc[c] = "write" /\ pc'[c] # "write"
        /\ \/ index'[c] = index[c]
           \/ index'[c] = index[c] + 1
        /\ offset[c] = Size[Chain(c)[index[c]]]
    BY <1>1, <1>8 DEF Close, Goto
  <2>2. files[Name(c, index[c])] = Whole(Chain(c)[index[c]])
    BY <2>1 DEF AloneAt, Part, Whole
  <2>3. \A i \in 1..index'[c] - 1 : files'[Name(c, i)] = Whole(Chain(c)[i])
    BY <1>1, <1>5, <2>1, <2>2
  <2>4. \A i \in index'[c] + 1..Len(Chain(c)) : files'[Name(c, i)] = old[Name(c, i)]
    BY <1>1, <1>5, <2>1
  <2> QED BY <1>2, <2>1, <2>3, <2>4 DEF AloneAt
<1>9. CASE Start(c) \/ WriteFails(c) \/ Return(c)
  <2>1. index' = index /\ pc'[c] # "write"
    BY <1>1, <1>9 DEF Start, WriteFails, Return, Goto
  <2> QED BY <1>2, <1>5, <2>1 DEF AloneAt
<1> QED BY <1>6, <1>7, <1>8, <1>9 DEF CallStep

LEMMA AloneStep ==
  ASSUME TypeInv, PlaceInv, AloneInv, NEW e \in Calls, CallStep(e)
  PROVE  AloneInv'
<1>1. job' = job /\ old' = old
  BY DEF CallStep, Start, Open, Write, WriteFails, Close, Return
<1>2. ASSUME NEW c \in Calls PROVE Alone(c)' = Alone(c)
  BY <1>1 DEF Alone, Uses, Name, Chain
<1>3. ASSUME NEW c \in Calls, Alone(c)' PROVE AloneAt(c)'
  <2>1. Alone(c) /\ AloneAt(c)
    BY <1>2, <1>3 DEF AloneInv
  <2>2. CASE c = e
    BY <1>1, <2>1, <2>2, AloneOwn
  <2>3. CASE c # e
    BY <1>1, <2>1, <2>3, AloneOther
  <2> QED BY <2>2, <2>3
<1> QED BY <1>3 DEF AloneInv

-----------------------------------------------------------------------------
(* Calls that share names and agree on what is in them. *)

\* No call has failed, and all that write a name of c write what c writes.
Clean(c) == \A d \in Calls : Agree(c, d) /\ pc[d] # "error"

\* The first m blocks under a name are those of the certificate; there may be more.
Starts(n, cert, m) == m <= Len(files[n]) /\ \A b \in 1..m : files[n][b] = <<cert, b>>

\* Call d, which writes the i-th name of c too, has opened the file; what it has written
\* since is there.  The last call that truncated a file always has this.
Holds(d, c, i) ==
  /\ i \in DOMAIN Chain(d) /\ Name(d, i) = Name(c, i)
  /\ \/ index[d] > i /\ Starts(Name(c, i), Chain(c)[i], Size[Chain(c)[i]])
     \/ /\ pc[d] = "write" /\ index[d] = i
        /\ Starts(Name(c, i), Chain(c)[i], offset[d])

Begun(c, i) == index[c] > i \/ (pc[c] = "write" /\ index[c] = i)

HeldAt(c, i) == /\ Len(files[Name(c, i)]) <= Size[Chain(c)[i]]
                /\ \E d \in Calls : Holds(d, c, i)

\* Every file a call has opened is held, by that call or by one that opened it later.
HeldInv == \A c \in Calls : Clean(c) => \A i \in DOMAIN Chain(c) : Begun(c, i) => HeldAt(c, i)

LEMMA HeldInit == Init => HeldInv
<1> SUFFICES ASSUME Init, NEW c \in Calls, NEW i \in DOMAIN Chain(c) PROVE ~Begun(c, i)
  BY DEF HeldInv
<1>1. i \in Nat \ {0}
  BY PlaceInit, ChainType
<1> QED BY <1>1 DEF Init, Begun

\* A step that leaves the file alone.
LEMMA HeldElsewhere ==
  ASSUME TypeInv, PlaceInv, NEW e \in Calls, CallStep(e), job' = job,
         NEW c \in Calls, Clean(c)', NEW i \in DOMAIN Chain(c),
         files'[Name(c, i)] = files[Name(c, i)], HeldAt(c, i),
         index[e] = i /\ Name(e, i) = Name(c, i) => ~Write(e) /\ ~Open(e)
  PROVE  HeldAt(c, i)'
<1>1. PICK d \in Calls : Holds(d, c, i)
  BY DEF HeldAt
<1>2. /\ \A x \in Calls : Chain(x)' = Chain(x)
      /\ \A x, j : Name(x, j)' = Name(x, j)
  BY DEF Chain, Name
<1>3. Starts(Name(c, i), Chain(c)[i], Size[Chain(c)[i]])'
        = Starts(Name(c, i), Chain(c)[i], Size[Chain(c)[i]])
  BY <1>2 DEF Starts
<1>4. Holds(d, c, i)'
  <2>1. CASE d # e
    <3>1. UNCHANGED <<pc[d], index[d], offset[d]>>
      BY <2>1, OthersStay
    <3> QED BY <1>1, <1>2, <3>1 DEF Holds, Starts
  <2>2. CASE d = e /\ index[d] > i
    <3>1. index'[e] >= index[e] /\ index'[e] \in Nat /\ index[e] \in Nat /\ i \in Nat
      <4>1. index[e] \in Nat /\ i \in Nat
        BY ChainType DEF TypeInv
      <4>2. index'[e] = index[e] \/ index'[e] = index[e] + 1
        BY DEF TypeInv, CallStep, Start, Open, Write, WriteFails, Close, Return
      <4> QED BY <4>1, <4>2
    <3>2. index'[d] > i
      BY <2>2, <3>1
    <3>3. Starts(Name(c, i), Chain(c)[i], Size[Chain(c)[i]])
      BY <1>1, <2>2, <3>1 DEF Holds
    <3> QED BY <1>1, <1>2, <1>3, <3>2, <3>3 DEF Holds
  <2>3. CASE d = e /\ ~(index[d] > i)
    <3>1. /\ pc[e] = "write" /\ index[e] = i /\ Name(e, i) = Name(c, i)
          /\ i \in DOMAIN Chain(e) /\ Starts(Name(c, i), Chain(c)[i], offset[e])
      BY <1>1, <2>3 DEF Holds
    <3>2. Close(e)
      <4>1. ~Write(e) /\ ~Open(e)
        BY <3>1
      <4>2. ~WriteFails(e)
        BY DEF WriteFails, Goto, TypeInv, Clean
      <4> QED BY <3>1, <4>1, <4>2 DEF CallStep, Start, Return
    <3>3. offset[e] = Size[Chain(e)[i]] /\ index'[e] = i + 1
      <4>1. pc'[e] # "error"
        BY DEF Clean
      <4>2. index' = [index EXCEPT ![e] = @ + 1]
        BY <3>2, <4>1 DEF Close, Goto, TypeInv
      <4> QED BY <3>1, <3>2, <4>2 DEF Close, TypeInv
    <3>4. Chain(e)[i] = Chain(c)[i]
      BY <1>2, <3>1 DEF Clean, Agree
    <3>5. Starts(Name(c, i), Chain(c)[i], Size[Chain(c)[i]]) /\ index'[e] > i
      <4>1. i \in Nat
        BY ChainType
      <4> QED BY <3>1, <3>3, <3>4, <4>1
    <3> QED BY <1>2, <1>3, <2>3, <3>1, <3>5 DEF Holds
  <2> QED BY <2>1, <2>2, <2>3
<1> QED BY <1>2, <1>4 DEF HeldAt

\* A call that opens the file holds it.
LEMMA HeldOpened ==
  ASSUME TypeInv, PlaceInv, NEW e \in Calls, Open(e), job' = job, TypeInv',
         NEW c \in Calls, Clean(c)', NEW i \in DOMAIN Chain(c),
         index[e] = i, Name(e, i) = Name(c, i)
  PROVE  HeldAt(c, i)'
<1>1. /\ i \in DOMAIN Chain(e) /\ offset'[e] = 0 /\ index'[e] = i /\ pc'[e] = "write"
      /\ files'[Name(c, i)] = <<>>
  BY OpenEffect DEF Clean
<1>2. /\ \A x \in Calls : Chain(x)' = Chain(x)
      /\ \A x, j : Name(x, j)' = Name(x, j)
  BY DEF Chain, Name
<1>3. Size[Chain(c)[i]] \in Nat /\ Len(<<>>) = 0
  BY ChainType
<1>4. Starts(Name(c, i), Chain(c)[i], offset[e])'
  BY <1>1, <1>2, <1>3 DEF Starts
<1>5. Holds(e, c, i)'
  BY <1>1, <1>2, <1>4 DEF Holds
<1> QED BY <1>1, <1>2, <1>3, <1>5 DEF HeldAt

\* A write leaves the file held: by the call that held it, whose blocks the write can only
\* repeat.
LEMMA HeldWritten ==
  ASSUME TypeInv, PlaceInv, NEW e \in Calls, Write(e), job' = job,
         NEW c \in Calls, Clean(c)', NEW i \in DOMAIN Chain(c),
         index[e] = i, Name(e, i) = Name(c, i), HeldAt(c, i)
  PROVE  HeldAt(c, i)'
<1> DEFINE n    == Name(c, i)
           cert == Chain(c)[i]
           to   == offset'[e]
<1>1. /\ \A x \in Calls : Chain(x)' = Chain(x)
      /\ \A x, j : Name(x, j)' = Name(x, j)
  BY DEF Chain, Name
<1>2. /\ i \in DOMAIN Chain(e) /\ index' = index /\ pc' = pc
      /\ to \in Nat /\ to <= Size[Chain(e)[i]] /\ offset[e] < to /\ offset[e] \in Nat
      /\ files'[n] = Overwritten(files[n], Chain(e)[i], offset[e], to)
  BY WriteEffect DEF TypeInv
<1>3. Chain(e)[i] = cert
  BY <1>1, <1>2 DEF Clean, Agree
<1>4. n \in Names /\ cert \in DOMAIN Size /\ Size[cert] \in Nat /\ files[n] \in Seq(Block)
  BY ChainType DEF TypeInv
<1>5. Len(files[n]) <= Size[cert] /\ Len(files[n]) \in Nat
  BY <1>4, LenProperties DEF HeldAt
<1> HIDE DEF n, cert, to
<1>6. /\ Len(files'[n]) \in Nat /\ Len(files'[n]) >= Len(files[n]) /\ Len(files'[n]) >= to
      /\ Len(files'[n]) = Len(files[n]) \/ Len(files'[n]) = to
      /\ \A b \in offset[e] + 1..to : files'[n][b] = <<cert, b>>
      /\ \A b \in 1..Len(files[n]) : b \notin offset[e] + 1..to => files'[n][b] = files[n][b]
  BY <1>2, <1>3, <1>4, OverwrittenType
<1>7. Len(files'[n]) <= Size[cert]
  BY <1>2, <1>3, <1>4, <1>5, <1>6
<1>8. ASSUME NEW m \in Nat, Starts(n, cert, m)
      PROVE  m <= Len(files'[n]) /\ \A b \in 1..m : files'[n][b] = <<cert, b>>
  <2>1. m <= Len(files[n]) /\ \A b \in 1..m : files[n][b] = <<cert, b>>
    BY <1>8 DEF Starts
  <2>2. \A b \in 1..m : b \in 1..Len(files[n])
    BY <1>5, <2>1
  <2>3. m <= Len(files'[n])
    BY <1>5, <1>6, <2>1
  <2> QED BY <1>6, <2>1, <2>2, <2>3
<1>9. PICK d \in Calls : Holds(d, c, i)
  BY DEF HeldAt
<1>10. Holds(d, c, i)'
  <2>1. CASE index[d] > i /\ Starts(n, cert, Size[cert])
    <3>1. Starts(n, cert, Size[cert])'
      BY <1>1, <1>4, <1>8, <2>1 DEF Starts, n, cert
    <3> QED BY <1>1, <1>2, <1>9, <2>1, <3>1 DEF Holds, n, cert
  <2>2. CASE pc[d] = "write" /\ index[d] = i /\ Starts(n, cert, offset[d]) /\ d # e
    <3>1. offset'[d] = offset[d] /\ offset[d] \in Nat
      BY <2>2, OthersStay DEF CallStep, TypeInv
    <3>2. Starts(n, cert, offset[d])'
      BY <1>1, <1>8, <2>2, <3>1 DEF Starts, n, cert
    <3> QED BY <1>1, <1>2, <1>9, <2>2, <3>2 DEF Holds, n, cert
  <2>3. CASE pc[d] = "write" /\ index[d] = i /\ Starts(n, cert, offset[d]) /\ d = e
    <3>1. \A b \in 1..offset[e] : files'[n][b] = <<cert, b>>
      BY <1>2, <1>8, <2>3
    <3>2. \A b \in 1..to : b \in 1..offset[e] \/ b \in offset[e] + 1..to
      BY <1>2
    <3>3. to <= Len(files'[n]) /\ \A b \in 1..to : files'[n][b] = <<cert, b>>
      BY <1>6, <3>1, <3>2
    <3>4. Starts(n, cert, offset[d])'
      BY <1>1, <2>3, <3>3 DEF Starts, n, cert, to
    <3> QED BY <1>1, <1>2, <1>9, <2>3, <3>4 DEF Holds, n, cert
  <2> QED BY <1>9, <2>1, <2>2, <2>3 DEF Holds, n, cert
<1> QED BY <1>1, <1>7, <1>10 DEF HeldAt, n, cert

LEMMA HeldStep ==
  ASSUME TypeInv, PlaceInv, HeldInv, NEW e \in Calls, CallStep(e)
  PROVE  HeldInv'
<1>1. job' = job
  BY DEF CallStep, Start, Open, Write, WriteFails, Close, Return
<1>2. \A x \in Calls : Chain(x)' = Chain(x)
  BY <1>1 DEF Chain
<1>3. SUFFICES ASSUME NEW c \in Calls, Clean(c)', NEW i \in DOMAIN Chain(c), Begun(c, i)'
               PROVE  HeldAt(c, i)'
  BY <1>2 DEF HeldInv
<1>4. Clean(c)
  <2>1. ASSUME NEW d \in Calls PROVE pc[d] # "error"
    <3>1. CASE d = e
      BY <3>1 DEF CallStep, Start, Open, Write, WriteFails, Close, Return
    <3>2. CASE d # e
      BY <1>3, <3>2, OthersStay DEF Clean
    <3> QED BY <3>1, <3>2
  <2>2. \A d \in Calls : Agree(c, d)' = Agree(c, d)
    BY <1>1 DEF Agree, Name, Chain
  <2> QED BY <1>3, <2>1, <2>2 DEF Clean
<1>5. TypeInv'
  BY PlaceStep
<1>6. CASE Open(e) /\ index[e] = i /\ Name(e, i) = Name(c, i)
  BY <1>1, <1>3, <1>5, <1>6, HeldOpened
<1>7. CASE ~(Open(e) /\ index[e] = i /\ Name(e, i) = Name(c, i))
  <2>1. Begun(c, i)
    <3>1. CASE c # e
      BY <1>3, <3>1, OthersStay DEF Begun
    <3>2. CASE c = e
      <4>1. index[c] \in Nat /\ i \in Nat /\ index \in [Calls -> Nat \ {0}]
            /\ pc \in [Calls -> {"start", "next", "write", "ok", "error"}]
        BY ChainType DEF TypeInv
      <4>2. CASE Open(e)
        BY <1>3, <1>7, <3>2, <4>2, OpenEffect DEF Begun
      <4>3. CASE Write(e)
        BY <1>3, <3>2, <4>3, WriteEffect DEF Begun
      <4>4. CASE Close(e)
        <5>1. index'[c] = index[c] \/ index'[c] = index[c] + 1
          BY <3>2, <4>1, <4>4 DEF Close
        <5>2. pc[c] = "write" /\ pc'[c] # "write"
          BY <3>2, <4>1, <4>4 DEF Close, Goto
        <5> QED BY <1>3, <4>1, <5>1, <5>2 DEF Begun
      <4>5. CASE Start(e) \/ WriteFails(e) \/ Return(e)
        <5>1. index'[c] = index[c] /\ pc'[c] # "write"
          BY <3>2, <4>1, <4>5 DEF Start, WriteFails, Return, Goto
        <5> QED BY <1>3, <5>1 DEF Begun
      <4> QED BY <4>2, <4>3, <4>4, <4>5 DEF CallStep
    <3> QED BY <3>1, <3>2
  <2>2. HeldAt(c, i)
    BY <1>4, <2>1 DEF HeldInv
  <2>3. CASE Write(e) /\ index[e] = i /\ Name(e, i) = Name(c, i)
    BY <1>1, <1>3, <2>2, <2>3, HeldWritten
  <2>4. CASE ~(index[e] = i /\ Name(e, i) = Name(c, i))
    <3>1. Name(c, i) \in Names
      BY ChainType
    <3>2. Name(c, i) # Name(e, index[e])
      BY <2>4, NamePlace
    <3>3. files'[Name(c, i)] = files[Name(c, i)]
      BY <3>1, <3>2, OtherFiles
    <3> QED BY <1>1, <1>3, <2>2, <2>4, <3>3, HeldElsewhere
  <2>5. CASE ~Write(e) /\ ~Open(e)
    <3>1. files' = files
      BY <2>5 DEF CallStep, Start, WriteFails, Close, Return
    <3> QED BY <1>1, <1>3, <2>2, <2>5, <3>1, HeldElsewhere
  <2> QED BY <1>7, <2>3, <2>4, <2>5
<1> QED BY <1>6, <1>7

-----------------------------------------------------------------------------
(* The theorems. *)

IInv == TypeInv /\ PlaceInv /\ AloneInv /\ HeldInv

LEMMA InvCorrect == Spec => []IInv
<1>1. Init => IInv
  BY PlaceInit, AloneInit, HeldInit DEF IInv
<1>2. IInv /\ [Next]_vars => IInv'
  <2> SUFFICES ASSUME IInv, [Next]_vars PROVE IInv'
    OBVIOUS
  <2>1. CASE \E e \in Calls : CallStep(e)
    BY <2>1, PlaceStep, AloneStep, HeldStep DEF IInv
  <2>2. CASE UNCHANGED vars
    <3>1. UNCHANGED <<job, old, files, pc, index, offset>>
      BY <2>2 DEF vars
    <3>2. TypeInv' /\ PlaceInv'
      BY <3>1 DEF IInv, TypeInv, PlaceInv, Chain
    <3>3. AloneInv'
      BY <3>1 DEF IInv, AloneInv, AloneAt, Alone, Uses, Name, Chain
    <3>4. HeldInv'
      <4>1. ASSUME NEW c \in Calls PROVE Chain(c)' = Chain(c) /\ Clean(c)' = Clean(c)
        BY <3>1 DEF Clean, Agree, Name, Chain
      <4>2. \A c \in Calls : \A i : Begun(c, i)' = Begun(c, i)
        BY <3>1 DEF Begun
      <4>3. \A c, d \in Calls : \A i : Holds(d, c, i)' = Holds(d, c, i)
        BY <3>1 DEF Holds, Starts, Name, Chain
      <4>4. \A c \in Calls : \A i : HeldAt(c, i)' = HeldAt(c, i)
        BY <3>1, <4>3 DEF HeldAt, Name, Chain
      <4> QED BY <4>1, <4>2, <4>4 DEF IInv, HeldInv
    <3> QED BY <3>2, <3>3, <3>4 DEF IInv
  <2> QED BY <2>1, <2>2 DEF Next, Done
<1> QED BY <1>1, <1>2, PTL DEF Spec

\* A call whose names no other call uses has written each certificate before the one it is
\* at in full and touched none behind it, also when it has failed: the chain on the disk is
\* a prefix (tls.go:264-283).
THEOREM NoGapsTheorem == Spec => []NoGaps
<1>1. IInv => NoGaps
  BY DEF IInv, AloneInv, AloneAt, NoGaps
<1> QED BY <1>1, InvCorrect, PTL

\* However many targets of one server are exported at the same time, and however their
\* calls truncate and overwrite each other's files, every certificate they agree on is whole
\* in the end.
THEOREM WholeTheorem == Spec => []ExportedWhole
<1>1. ASSUME IInv PROVE ExportedWhole
  <2> SUFFICES ASSUME NEW c \in Calls, pc[c] = "ok",
                      \A d \in Calls : Agree(c, d) /\ pc[d] \in {"start", "ok"},
                      NEW i \in DOMAIN Chain(c)
               PROVE  files[Name(c, i)] = Whole(Chain(c)[i])
    BY DEF ExportedWhole
  <2> DEFINE n    == Name(c, i)
             cert == Chain(c)[i]
  <2>1. Clean(c)
    BY DEF Clean
  <2>2. Begun(c, i)
    <3>1. index[c] = Len(Chain(c)) + 1 /\ i \in 1..Len(Chain(c)) /\ Len(Chain(c)) \in Nat
      BY <1>1, ChainType DEF IInv, PlaceInv
    <3> QED BY <3>1 DEF Begun
  <2>3. Len(files[n]) <= Size[cert] /\ Starts(n, cert, Size[cert])
    BY <1>1, <2>1, <2>2 DEF IInv, HeldInv, HeldAt, Holds
  <2>4. files[n] \in Seq(Block) /\ Size[cert] \in Nat
    BY <1>1, ChainType DEF IInv, TypeInv
  <2> HIDE DEF n, cert
  <2>5. Len(files[n]) \in Nat /\ DOMAIN files[n] = 1..Len(files[n])
    BY <2>4, LenProperties
  <2>6. Len(files[n]) = Size[cert] /\ \A b \in 1..Size[cert] : files[n][b] = <<cert, b>>
    BY <2>3, <2>4, <2>5 DEF Starts
  <2>7. files[n] = [b \in 1..Size[cert] |-> files[n][b]]
    BY <2>4, <2>5, <2>6
  <2>8. files[n] = [b \in 1..Size[cert] |-> <<cert, b>>]
    BY <2>6, <2>7, Zenon
  <2> QED BY <2>8 DEF Whole, n, cert
<1> QED BY <1>1, InvCorrect, PTL
=============================================================================
