-------------------------- MODULE ParseTargetsProofs --------------------------
(***************************************************************************)
(* Theorems about ParseTargets, for every combination of flags, files and    *)
(* grids of any size, every limit on integers and every set of host names    *)
(* that are refused:                                                       *)
(*                                                                         *)
(*   DuplicatesTheorem   no target is in the list twice                      *)
(*   OnlyGivenTheorem    every target in the list was given                    *)
(*   AnswerTheorem       an error for a fault of the input and nothing else   *)
(*   OrderTheorem        the list is in the order in which targets are named   *)
(***************************************************************************)
EXTENDS ParseTargets, TLAPS, SequenceTheorems

-----------------------------------------------------------------------------
(* The flags. *)

\* What the configuration holds, each part with its type.
LEMMA ConfigParts ==
  ASSUME cfg \in Configs
  PROVE  /\ cfg.hostport \in Seq(Item) /\ cfg.endpoints \in Seq(Item) /\ cfg.urls \in Seq(Item)
         /\ cfg.lines \in Seq(Item) /\ cfg.strict \in BOOLEAN
         /\ cfg.file \in {"none", "missing", "readable", "failing"}
         /\ cfg.hosts \in Seq(STRING) /\ cfg.ports \in Seq(Int) /\ cfg.ports # <<>>
<1>1. cfg \in Config /\ cfg.ports # <<>>
  BY ParseAssumption
<1> HIDE DEF Item
<1> QED BY <1>1 DEF Config

LEMMA ArgumentsType ==
  ASSUME cfg \in Configs
  PROVE  /\ Arguments \in Seq(Item) /\ Len(Arguments) \in Nat
         /\ DOMAIN Arguments = 1..Len(Arguments)
         /\ cfg.lines \in Seq(Item) /\ Len(cfg.lines) \in Nat
         /\ DOMAIN cfg.lines = 1..Len(cfg.lines)
<1>1. /\ cfg.hostport \in Seq(Item) /\ cfg.endpoints \in Seq(Item) /\ cfg.urls \in Seq(Item)
      /\ cfg.lines \in Seq(Item)
  BY ConfigParts
<1>2. Arguments \in Seq(Item)
  BY <1>1, ConcatProperties DEF Arguments
<1> QED BY <1>1, <1>2, LenProperties

\* Division by the width of the grid.
LEMMA GridIndex ==
  ASSUME NEW width \in Nat \ {0}, NEW height \in Nat, NEW n \in Nat, n < height * width
  PROVE  (n \div width) + 1 \in 1..height /\ (n % width) + 1 \in 1..width
<1>1. n \div width \in Nat /\ n % width \in 0..width - 1
  OBVIOUS
<1>2. n \div width < height
  OBVIOUS
<1> QED BY <1>1, <1>2

-----------------------------------------------------------------------------
(* The inductive invariant. *)

\* What was given: the flags, the lines and the points of the grid, and the targets
\* among them.
Given == {Arguments[n] : n \in DOMAIN Arguments} \cup {cfg.lines[n] : n \in DOMAIN cfg.lines}
           \cup {GridItem(n) : n \in 0..GridSize - 1}

GivenTargets == {TargetOf(item) : item \in {i \in Given : Parses(i)}}

TypeInv ==
  /\ cfg \in Configs
  /\ pc \in {"arguments", "lines", "grid", "result", "returned"}
  /\ k \in Nat
  /\ targets \in Seq(GivenTargets)
  /\ warnings \in Seq(Nat)
  /\ answer \in {"none", "targets", "error"}

\* The set of keys is that of the list, each of them once.
SeenInv == /\ seen = {Key(targets[n]) : n \in DOMAIN targets}
           /\ \A m, n \in DOMAIN targets : m # n => Key(targets[m]) # Key(targets[n])

Bad(n) == cfg.lines[n].scheme # "blank" /\ ~Parses(cfg.lines[n])

\* The bad lines among the first n, and the lines that have a warning.
BadTo(n) == {i \in 1..n : Bad(i)}
Warned   == {warnings[m] : m \in DOMAIN warnings}

ArgumentsParse == \A n \in DOMAIN Arguments : Parses(Arguments[n])

\* What is known of the input at each place.
ReadInv ==
  /\ pc = "arguments" => /\ k <= Len(Arguments) /\ \A n \in 1..k : Parses(Arguments[n])
                         /\ warnings = <<>>
  /\ pc \in {"lines", "grid"} => ArgumentsParse
  /\ pc = "lines" => /\ cfg.file \in {"readable", "failing"} /\ k <= Len(cfg.lines)
                     /\ Warned = BadTo(k) /\ (cfg.strict => Warned = {})
  /\ pc = "grid" => /\ cfg.file \in {"none", "readable"}
                    /\ Warned = BadLines /\ (cfg.strict => BadLines = {})

\* What an answer says of the input.
AnswerInv ==
  /\ answer = "none" <=> pc \notin {"result", "returned"}
  /\ answer = "targets" =>
       /\ ArgumentsParse /\ cfg.file \in {"none", "readable"} /\ targets # <<>>
       /\ cfg.strict => BadLines = {}
       /\ pc = "result" => Warned = BadLines

IInv == TypeInv /\ SeenInv /\ ReadInv /\ AnswerInv

LEMMA InvInit == Init => IInv
<1> SUFFICES ASSUME Init PROVE IInv
  OBVIOUS
<1>1. /\ targets \in Seq(GivenTargets) /\ warnings \in Seq(Nat) /\ warnings = <<>>
      /\ DOMAIN targets = {} /\ Len(Arguments) \in Nat
  BY EmptySeq, LenProperties, ArgumentsType DEF Init
<1> QED BY <1>1 DEF Init, IInv, TypeInv, SeenInv, ReadInv, AnswerInv

\* A target that was given is in the list afterwards, once.
LEMMA AddTargetEffect ==
  ASSUME TypeInv, SeenInv, NEW t \in GivenTargets, AddTarget(t)
  PROVE  /\ targets' \in Seq(GivenTargets)
         /\ SeenInv'
         /\ seen \subseteq seen' /\ Key(t) \in seen'
<1>1. targets \in Seq(GivenTargets)
  BY DEF TypeInv
<1>2. CASE Key(t) \in seen
  BY <1>1, <1>2 DEF AddTarget, SeenInv
<1>3. CASE Key(t) \notin seen
  <2> DEFINE m == Len(targets) + 1
  <2>1. seen' = seen \cup {Key(t)} /\ targets' = Append(targets, t)
    BY <1>3 DEF AddTarget
  <2>2. /\ targets' \in Seq(GivenTargets)
        /\ DOMAIN targets' = 1..m /\ DOMAIN targets = 1..m - 1 /\ m \in Nat
        /\ \A n \in 1..m - 1 : targets'[n] = targets[n]
        /\ targets'[m] = t
    BY <1>1, <2>1, AppendProperties, LenProperties
  <2> HIDE DEF m
  <2>3. seen' = {Key(targets'[n]) : n \in DOMAIN targets'}
    BY <2>1, <2>2 DEF SeenInv
  <2>4. ASSUME NEW i \in 1..m, NEW j \in 1..m, i # j
        PROVE  Key(targets'[i]) # Key(targets'[j])
    <3>1. \A n \in 1..m - 1 : Key(targets[n]) \in seen
      BY <2>2 DEF SeenInv
    <3>2. CASE i # m /\ j # m
      BY <2>2, <2>4, <3>2 DEF SeenInv
    <3>3. CASE i = m \/ j = m
      BY <1>3, <2>2, <2>4, <3>1, <3>3
    <3> QED BY <3>2, <3>3
  <2> QED BY <2>1, <2>2, <2>3, <2>4 DEF SeenInv
<1> QED BY <1>2, <1>3

\* A step that adds nothing, as most do.
LEMMA KeptEffect ==
  ASSUME TypeInv, SeenInv, UNCHANGED <<cfg, seen, targets>>
  PROVE  targets' \in Seq(GivenTargets)' /\ SeenInv'
<1>1. Given' = Given /\ GivenTargets' = GivenTargets
  BY DEF Given, GivenTargets, Arguments, GridItem, GridSize
<1> QED BY <1>1 DEF TypeInv, SeenInv

\* What was given stays so.
LEMMA GivenKept ==
  ASSUME cfg' = cfg
  PROVE  /\ GivenTargets' = GivenTargets /\ Arguments' = Arguments
         /\ ArgumentsParse' = ArgumentsParse /\ BadLines' = BadLines
         /\ \A n : BadTo(n)' = BadTo(n)
BY DEF GivenTargets, Given, Arguments, GridItem, GridSize, ArgumentsParse, BadLines, BadTo, Bad,
       LineCount

\* The bad lines of a file, and of its first n + 1 lines.
LEMMA BadParts ==
  ASSUME cfg \in Configs
  PROVE  /\ cfg.file = "none" => BadLines = {}
         /\ cfg.file # "none" => BadLines = BadTo(Len(cfg.lines))
         /\ BadTo(0) = {}
         /\ \A n \in Nat : BadTo(n + 1) = BadTo(n) \cup (IF Bad(n + 1) THEN {n + 1} ELSE {})
<1>1. \A n \in Nat : 1..n + 1 = (1..n) \cup {n + 1}
  OBVIOUS
<1> QED BY <1>1 DEF BadLines, BadTo, Bad, LineCount

\* An error keeps nothing but what was known.
LEMMA ErrorStep == ASSUME IInv, ReturnError PROVE IInv'
<1>1. /\ UNCHANGED <<cfg, k, seen, targets, warnings>>
      /\ pc' = "result" /\ answer' = "error"
  BY DEF ReturnError
<1>2. targets' \in Seq(GivenTargets)' /\ SeenInv'
  BY <1>1, KeptEffect DEF IInv
<1> QED BY <1>1, <1>2 DEF IInv, TypeInv, ReadInv, AnswerInv

LEMMA ArgumentStep == ASSUME IInv, ParseArgument PROVE IInv'
<1> DEFINE item == Arguments[k + 1]
<1>1. /\ pc = "arguments" /\ k < Len(Arguments) /\ k \in Nat /\ cfg \in Configs
      /\ \A n \in 1..k : Parses(Arguments[n])
  BY DEF ParseArgument, IInv, TypeInv, ReadInv
<1>2. Len(Arguments) \in Nat /\ DOMAIN Arguments = 1..Len(Arguments) /\ k + 1 \in DOMAIN Arguments
  BY <1>1, ArgumentsType
<1>3. CASE Parses(item) /\ AddTarget(TargetOf(item)) /\ NextTurn /\ UNCHANGED warnings
  <2>1. TargetOf(item) \in GivenTargets
    BY <1>2, <1>3 DEF GivenTargets, Given
  <2>2. targets' \in Seq(GivenTargets) /\ SeenInv'
    BY <1>3, <2>1, AddTargetEffect DEF IInv
  <2>3. cfg' = cfg /\ pc' = pc /\ k' = k + 1 /\ answer' = answer /\ warnings' = warnings
    BY <1>3 DEF NextTurn
  <2>4. GivenTargets' = GivenTargets /\ Arguments' = Arguments
    BY <2>3, GivenKept
  <2>5. TypeInv'
    BY <1>1, <2>2, <2>3, <2>4 DEF IInv, TypeInv
  <2>6. \A n \in 1..k + 1 : Parses(Arguments[n])
    BY <1>1, <1>3
  <2>7. \A n \in 1..k' : Parses(Arguments[n])'
    BY <2>3, <2>4, <2>6 DEF Parses
  <2>8. ReadInv'
    <3>1. pc' = "arguments" /\ k' <= Len(Arguments') /\ warnings' = <<>>
      BY <1>1, <1>2, <2>3, <2>4 DEF IInv, ReadInv
    <3> QED BY <2>7, <3>1 DEF ReadInv
  <2>9. AnswerInv'
    BY <1>1, <2>3 DEF IInv, AnswerInv
  <2> QED BY <2>2, <2>5, <2>8, <2>9 DEF IInv
<1>4. CASE ReturnError
  BY <1>4, ErrorStep
<1> QED BY <1>3, <1>4 DEF ParseArgument

LEMMA OpenStep == ASSUME IInv, OpenFile PROVE IInv'
<1>1. /\ pc = "arguments" /\ k = Len(Arguments) /\ cfg \in Configs
      /\ \A n \in 1..k : Parses(Arguments[n])
      /\ warnings = <<>> /\ Warned = {}
  BY EmptySeq DEF OpenFile, IInv, TypeInv, ReadInv, Warned
<1>2. cfg.file \in {"none", "missing", "readable", "failing"}
  BY <1>1, ConfigParts
<1>3. CASE /\ cfg.file # "missing" /\ UNCHANGED <<cfg, seen, targets, warnings, answer>>
           /\ pc' = (IF cfg.file = "none" THEN "grid" ELSE "lines") /\ k' = 0
  <2>1. ArgumentsParse /\ ArgumentsParse' = ArgumentsParse
    BY <1>1, <1>3, ArgumentsType, GivenKept DEF ArgumentsParse
  <2>2. targets' \in Seq(GivenTargets)' /\ SeenInv'
    BY <1>3, KeptEffect DEF IInv
  <2>3. Len(cfg.lines) \in Nat
    BY <1>1, ArgumentsType
  <2>4. TypeInv'
    BY <1>1, <1>3, <2>2 DEF IInv, TypeInv
  <2>5. /\ BadTo(0)' = {} /\ Warned' = {}
        /\ cfg.file = "none" => BadLines' = {}
    BY <1>1, <1>3, GivenKept, BadParts DEF Warned
  <2>6. ReadInv'
    BY <1>2, <1>3, <2>1, <2>3, <2>5 DEF ReadInv
  <2>7. AnswerInv'
    BY <1>1, <1>3 DEF IInv, AnswerInv
  <2> QED BY <2>2, <2>4, <2>6, <2>7 DEF IInv
<1>4. CASE ReturnError
  BY <1>4, ErrorStep
<1> QED BY <1>2, <1>3, <1>4 DEF OpenFile, Enter

\* A turn of the loop over the lines after which its bad lines have their warnings.
LEMMA LineTurn ==
  ASSUME IInv, pc = "lines", k < Len(cfg.lines), NextTurn,
         targets' \in Seq(GivenTargets), warnings' \in Seq(Nat), SeenInv',
         Warned' = BadTo(k + 1), cfg.strict => Warned' = {}
  PROVE  IInv'
<1>1. cfg' = cfg /\ pc' = pc /\ k' = k + 1 /\ answer' = answer /\ k \in Nat /\ cfg \in Configs
  BY DEF NextTurn, IInv, TypeInv
<1>2. Len(cfg.lines) \in Nat
  BY <1>1, ArgumentsType
<1>3. GivenTargets' = GivenTargets /\ ArgumentsParse' = ArgumentsParse
  BY <1>1, GivenKept
<1>4. TypeInv'
  BY <1>1, <1>3 DEF IInv, TypeInv
<1>5. ReadInv'
  <2>1. (BadTo(k))' = BadTo(k + 1)
    BY <1>1 DEF BadTo, Bad, Parses
  <2>2. /\ ArgumentsParse /\ cfg.file \in {"readable", "failing"} /\ k + 1 <= Len(cfg.lines)
    BY <1>1, <1>2 DEF IInv, ReadInv
  <2> QED BY <1>1, <1>3, <2>1, <2>2 DEF ReadInv
<1>6. AnswerInv'
  BY <1>1 DEF IInv, AnswerInv
<1> QED BY <1>4, <1>5, <1>6 DEF IInv

LEMMA LineStep == ASSUME IInv, ReadLine PROVE IInv'
<1> DEFINE line == cfg.lines[k + 1]
<1>1. /\ pc = "lines" /\ k < Len(cfg.lines) /\ k \in Nat /\ cfg \in Configs
      /\ targets \in Seq(GivenTargets) /\ warnings \in Seq(Nat) /\ SeenInv
      /\ Warned = BadTo(k) /\ (cfg.strict => Warned = {})
  BY DEF ReadLine, IInv, TypeInv, ReadInv
<1>2. k + 1 \in DOMAIN cfg.lines
  BY <1>1, ArgumentsType
<1>3. BadTo(k + 1) = BadTo(k) \cup (IF Bad(k + 1) THEN {k + 1} ELSE {})
  BY <1>1, BadParts
<1>4. CASE line.scheme = "blank" /\ NextTurn /\ UNCHANGED <<seen, targets, warnings>>
  <2>1. SeenInv' /\ targets' \in Seq(GivenTargets) /\ Warned' = Warned
    BY <1>1, <1>4 DEF SeenInv, Warned
  <2> QED BY <1>1, <1>3, <1>4, <2>1, LineTurn DEF Bad
<1>5. CASE /\ Parses(line) /\ AddTarget(TargetOf(line)) /\ NextTurn /\ UNCHANGED warnings
  <2>1. TargetOf(line) \in GivenTargets
    BY <1>2, <1>5 DEF GivenTargets, Given
  <2>2. targets' \in Seq(GivenTargets) /\ SeenInv'
    BY <1>5, <2>1, AddTargetEffect DEF IInv
  <2>3. Warned' = Warned
    BY <1>5 DEF Warned
  <2> QED BY <1>1, <1>3, <1>5, <2>2, <2>3, LineTurn DEF Bad
<1>6. CASE /\ line.scheme # "blank" /\ ~Parses(line) /\ ~cfg.strict
           /\ warnings' = Append(warnings, k + 1)
           /\ NextTurn /\ UNCHANGED <<seen, targets>>
  <2> DEFINE m == Len(warnings) + 1
  <2>1. /\ warnings' \in Seq(Nat) /\ DOMAIN warnings' = DOMAIN warnings \cup {m}
        /\ \A i \in DOMAIN warnings : warnings'[i] = warnings[i]
        /\ warnings'[m] = k + 1
    BY <1>1, <1>6, AppendProperties, LenProperties
  <2>2. SeenInv' /\ targets' \in Seq(GivenTargets)
    BY <1>1, <1>6 DEF SeenInv
  <2> HIDE DEF m
  <2>3. Warned' = Warned \cup {k + 1}
    BY <2>1 DEF Warned
  <2> QED BY <1>1, <1>3, <1>6, <2>1, <2>2, <2>3, LineTurn DEF Bad
<1>7. CASE ReturnError
  BY <1>7, ErrorStep
<1> QED BY <1>4, <1>5, <1>6, <1>7 DEF ReadLine

LEMMA EndStep == ASSUME IInv, EndFile PROVE IInv'
<1>1. /\ pc = "lines" /\ k = Len(cfg.lines) /\ cfg \in Configs
      /\ cfg.file \in {"readable", "failing"} /\ ArgumentsParse
      /\ Warned = BadTo(k) /\ (cfg.strict => Warned = {})
  BY DEF EndFile, IInv, TypeInv, ReadInv
<1>2. Warned = BadLines
  BY <1>1, BadParts
<1>3. CASE cfg.file = "readable" /\ Enter("grid")
  <2>1. /\ pc' = "grid" /\ k' = 0 /\ UNCHANGED <<cfg, seen, targets, warnings, answer>>
    BY <1>3 DEF Enter
  <2>2. targets' \in Seq(GivenTargets)' /\ SeenInv'
    BY <2>1, KeptEffect DEF IInv
  <2>3. ArgumentsParse' = ArgumentsParse /\ BadLines' = BadLines /\ Warned' = Warned
    BY <2>1, GivenKept DEF Warned
  <2>4. TypeInv'
    BY <2>1, <2>2 DEF IInv, TypeInv
  <2>5. ReadInv'
    BY <1>1, <1>2, <1>3, <2>1, <2>3 DEF ReadInv
  <2>6. AnswerInv'
    BY <1>1, <2>1 DEF IInv, AnswerInv
  <2> QED BY <2>2, <2>4, <2>5, <2>6 DEF IInv
<1>4. CASE ReturnError
  BY <1>4, ErrorStep
<1> QED BY <1>1, <1>3, <1>4 DEF EndFile

LEMMA GridStep == ASSUME IInv, AddGridPoint PROVE IInv'
<1>1. /\ pc = "grid" /\ k < GridSize /\ k \in Nat /\ cfg \in Configs /\ warnings \in Seq(Nat)
      /\ cfg' = cfg /\ pc' = pc /\ k' = k + 1 /\ answer' = answer /\ warnings' = warnings
  BY DEF AddGridPoint, NextTurn, IInv, TypeInv
<1>2. /\ GivenTargets' = GivenTargets /\ ArgumentsParse' = ArgumentsParse
      /\ BadLines' = BadLines /\ Warned' = Warned
  BY <1>1, GivenKept DEF Warned
<1>3. targets' \in Seq(GivenTargets) /\ SeenInv'
  <2>1. CASE Parses(GridItem(k)) /\ AddTarget(TargetOf(GridItem(k)))
    <3>1. k \in 0..GridSize - 1
      <4>1. Len(cfg.hosts) \in Nat /\ Len(cfg.ports) \in Nat
        BY <1>1, ConfigParts, LenProperties
      <4>2. \A i, j \in Nat : i * j \in Nat
        OBVIOUS
      <4>3. GridSize \in Nat
        BY <4>1, <4>2 DEF GridSize
      <4> QED BY <1>1, <4>3
    <3>2. TargetOf(GridItem(k)) \in GivenTargets
      BY <2>1, <3>1 DEF GivenTargets, Given
    <3> QED BY <2>1, <3>2, AddTargetEffect DEF IInv
  <2>2. CASE UNCHANGED <<seen, targets>>
    BY <2>2 DEF IInv, TypeInv, SeenInv
  <2> QED BY <2>1, <2>2 DEF AddGridPoint
<1>4. TypeInv'
  BY <1>1, <1>2, <1>3 DEF IInv, TypeInv
<1>5. ReadInv'
  BY <1>1, <1>2 DEF IInv, ReadInv
<1>6. AnswerInv'
  BY <1>1 DEF IInv, AnswerInv
<1> QED BY <1>3, <1>4, <1>5, <1>6 DEF IInv

LEMMA FinishStep == ASSUME IInv, Finish PROVE IInv'
<1>1. CASE /\ pc = "grid" /\ targets # <<>> /\ pc' = "result" /\ answer' = "targets"
           /\ UNCHANGED <<cfg, k, seen, targets, warnings>>
  <2>1. targets' \in Seq(GivenTargets)' /\ SeenInv'
    BY <1>1, KeptEffect DEF IInv
  <2>2. TypeInv'
    BY <1>1, <2>1 DEF IInv, TypeInv
  <2>3. ReadInv'
    BY <1>1 DEF ReadInv
  <2>4. ArgumentsParse' = ArgumentsParse /\ BadLines' = BadLines /\ Warned' = Warned
    BY <1>1, GivenKept DEF Warned
  <2>5. AnswerInv'
    BY <1>1, <2>4 DEF IInv, ReadInv, AnswerInv
  <2> QED BY <2>1, <2>2, <2>3, <2>5 DEF IInv
<1>2. CASE ReturnError
  BY <1>2, ErrorStep
<1> QED BY <1>1, <1>2 DEF Finish

LEMMA DropStep == ASSUME IInv, DropWarnings PROVE IInv'
<1>1. /\ pc = "result" /\ pc' = "returned" /\ warnings' = <<>>
      /\ UNCHANGED <<cfg, k, seen, targets, answer>>
  BY DEF DropWarnings
<1>2. targets' \in Seq(GivenTargets)' /\ SeenInv' /\ warnings' \in Seq(Nat)
  BY <1>1, KeptEffect DEF IInv
<1>3. TypeInv'
  BY <1>1, <1>2 DEF IInv, TypeInv
<1>4. ReadInv'
  BY <1>1 DEF ReadInv
<1>5. ArgumentsParse' = ArgumentsParse /\ BadLines' = BadLines
  BY <1>1, GivenKept
<1>6. AnswerInv'
  BY <1>1, <1>5 DEF IInv, AnswerInv
<1> QED BY <1>2, <1>3, <1>4, <1>6 DEF IInv

LEMMA StutterStep == ASSUME IInv, UNCHANGED vars PROVE IInv'
<1>1. UNCHANGED <<cfg, pc, k, seen, targets, warnings, answer>>
  BY DEF vars
<1>2. targets' \in Seq(GivenTargets)' /\ SeenInv'
  BY <1>1, KeptEffect DEF IInv
<1>3. TypeInv'
  BY <1>1, <1>2 DEF IInv, TypeInv
<1>4. /\ ArgumentsParse' = ArgumentsParse /\ BadLines' = BadLines /\ Arguments' = Arguments
      /\ (BadTo(k))' = BadTo(k) /\ Warned' = Warned
  BY <1>1, GivenKept DEF Warned, BadTo, Bad, Parses
<1>5. ReadInv'
  BY <1>1, <1>4 DEF IInv, ReadInv, Parses
<1>6. AnswerInv'
  BY <1>1, <1>4 DEF IInv, AnswerInv
<1> QED BY <1>2, <1>3, <1>5, <1>6 DEF IInv

LEMMA InvStep == IInv /\ [Next]_vars => IInv'
<1> SUFFICES ASSUME IInv, [Next]_vars PROVE IInv'
  OBVIOUS
<1>1. CASE ParseArgument BY <1>1, ArgumentStep
<1>2. CASE OpenFile BY <1>2, OpenStep
<1>3. CASE ReadLine BY <1>3, LineStep
<1>4. CASE EndFile BY <1>4, EndStep
<1>5. CASE AddGridPoint BY <1>5, GridStep
<1>6. CASE Finish BY <1>6, FinishStep
<1>7. CASE DropWarnings BY <1>7, DropStep
<1>8. CASE UNCHANGED vars BY <1>8, StutterStep
<1> QED BY <1>1, <1>2, <1>3, <1>4, <1>5, <1>6, <1>7, <1>8 DEF Next, Step, Done

LEMMA InvCorrect == Spec => []IInv
<1> QED BY InvInit, InvStep, PTL DEF Spec

-----------------------------------------------------------------------------
(* The order of the list. *)

LEMMA Division ==
  ASSUME NEW width \in Nat \ {0}, NEW n \in Nat
  PROVE  /\ n \div width \in Nat /\ n % width \in 0..width - 1
         /\ n = width * (n \div width) + (n % width)
<1>1. n \div width \in Nat /\ n % width \in 0..width - 1
  OBVIOUS
<1>2. n = width * (n \div width) + (n % width)
  BY Z3
<1> QED BY <1>1, <1>2

\* The row of a grid that holds its point n + 1 is the one the code divides out.
LEMMA RowOfPoint ==
  ASSUME NEW width \in Nat \ {0}, NEW height \in Nat, NEW n \in Nat, n < height * width,
         NEW row, row = n \div width
  PROVE  /\ row \in Nat /\ row + 1 \in 1..height
         /\ n + 1 \in row * width + 1..(row + 1) * width
         /\ \A i \in 1..height : n + 1 \in (i - 1) * width + 1..i * width => i = row + 1
         /\ (n + 1) - row * width = (n % width) + 1
<1>1. row \in Nat /\ n % width \in 0..width - 1 /\ n = row * width + (n % width)
  <2>1. n \div width \in Nat /\ n % width \in 0..width - 1
        /\ n = width * (n \div width) + (n % width)
    BY Division
  <2>2. \A a, b \in Nat : a * b = b * a
    OBVIOUS
  <2>3. width * (n \div width) = (n \div width) * width
    BY <2>1, <2>2
  <2> QED BY <2>1, <2>3, Zenon
<1>2. height * width \in Nat /\ row * width \in Nat
  BY <1>1
<1>3. (row + 1) * width = row * width + width
  BY <1>1
<1>4. n + 1 \in row * width + 1..(row + 1) * width
  BY <1>1, <1>2, <1>3
<1>5. row + 1 \in 1..height
  BY <1>2, GridIndex
<1>6. ASSUME NEW i \in 1..height, n + 1 \in (i - 1) * width + 1..i * width PROVE i = row + 1
  <2>1. ASSUME NEW a \in Nat, NEW b \in Nat, a <= b PROVE a * width <= b * width
    BY <2>1
  <2>2. i * width \in Nat /\ (i - 1) * width \in Nat /\ i \in Nat /\ i - 1 \in Nat
    OBVIOUS
  <2>3. CASE i <= row
    BY <1>1, <1>2, <1>4, <1>6, <2>1, <2>2, <2>3
  <2>4. CASE row + 1 <= i - 1
    BY <1>1, <1>2, <1>3, <1>4, <1>6, <2>1, <2>2, <2>4
  <2> QED BY <1>1, <2>2, <2>3, <2>4
<1>7. (n + 1) - row * width = (n % width) + 1
  BY <1>1, <1>2
<1> QED BY <1>1, <1>4, <1>5, <1>6, <1>7

\* The grid's loop takes the points host by host.
LEMMA GridOrder ==
  ASSUME cfg \in Configs, NEW n \in Nat, n < GridSize
  PROVE  GridText(n + 1) = GridItem(n)
<1> DEFINE width  == Len(cfg.ports)
           height == Len(cfg.hosts)
           row    == n \div width
<1>1. width \in Nat \ {0} /\ height \in Nat /\ DOMAIN cfg.hosts = 1..height
  BY ConfigParts, EmptySeq, LenProperties
<1>2. n < height * width
  BY DEF GridSize
<1>3. GridText(n + 1) = [scheme |-> "none", host |-> cfg.hosts[GridRow(n + 1)],
                         port |-> GridPort(cfg.ports[(n + 1) - (GridRow(n + 1) - 1) * width]),
                         path |-> ""]
  BY DEF GridText
<1>4. GridItem(n) = [scheme |-> "none", host |-> cfg.hosts[row + 1],
                     port |-> GridPort(cfg.ports[(n % width) + 1]), path |-> ""]
  BY DEF GridItem
<1>5. row = n \div width
  OBVIOUS
<1>6. GridRow(n + 1) = CHOOSE i \in DOMAIN cfg.hosts : n + 1 \in (i - 1) * width + 1..i * width
  BY DEF GridRow
<1> HIDE DEF width, height, row
<1>7. /\ row \in Nat /\ row + 1 \in 1..height
      /\ n + 1 \in row * width + 1..(row + 1) * width
      /\ \A i \in 1..height : n + 1 \in (i - 1) * width + 1..i * width => i = row + 1
      /\ (n + 1) - row * width = (n % width) + 1
  BY <1>1, <1>2, <1>5, RowOfPoint, ZenonT(60)
<1>8. (row + 1) - 1 = row
  BY <1>7
<1>9. GridRow(n + 1) = row + 1
  BY <1>1, <1>6, <1>7, <1>8
<1>10. (n + 1) - (GridRow(n + 1) - 1) * width = (n % width) + 1
  BY <1>7, <1>8, <1>9
<1> QED BY <1>3, <1>4, <1>9, <1>10

\* The n-th target is listed as its first naming text gives it, and those before it were
\* named before.
PlacedAt(n, j) == /\ FirstNames(j, Key(targets[n])) /\ targets[n] = TargetOf(Text(j))
                  /\ \A m \in 1..n - 1 : \E i \in 1..j - 1 : Names(i, Key(targets[m]))

\* The list is what the first t texts make of it.
OrderedTo(t) == /\ \A j \in 1..t : Parses(Text(j)) => Key(TargetOf(Text(j))) \in seen
                /\ \A n \in DOMAIN targets : \E j \in 1..t : PlacedAt(n, j)

\* How many texts have been looked at.
Looked == CASE pc = "arguments" -> k
            [] pc = "lines"     -> Len(Arguments) + k
            [] OTHER            -> Len(Arguments) + LineCount + k

OrderInv ==
  /\ answer # "error" => \A t \in Nat : t = Looked => OrderedTo(t)
  /\ answer = "targets" => k = GridSize /\ pc \in {"result", "returned"}
  /\ answer = "error" => InputFault

LEMMA TextKept ==
  ASSUME cfg' = cfg
  PROVE  /\ \A j : Text(j)' = Text(j)
         /\ TextCount' = TextCount /\ LineCount' = LineCount /\ Arguments' = Arguments
         /\ GridSize' = GridSize /\ InputFault' = InputFault
BY DEF Text, TextCount, LineCount, Arguments, GridText, GridRow, GridSize, InputFault, BadLines

LEMMA TextSizes ==
  ASSUME TypeInv
  PROVE  Len(Arguments) \in Nat /\ LineCount \in Nat /\ GridSize \in Nat /\ k \in Nat
<1>1. Len(Arguments) \in Nat /\ Len(cfg.lines) \in Nat
  BY ArgumentsType DEF TypeInv
<1>2. Len(cfg.hosts) \in Nat /\ Len(cfg.ports) \in Nat
  BY ConfigParts, LenProperties DEF TypeInv
<1>3. \A i, j \in Nat : i * j \in Nat
  OBVIOUS
<1> QED BY <1>1, <1>2, <1>3 DEF LineCount, GridSize, TypeInv

\* A step that leaves the list alone.
LEMMA OrderKept ==
  ASSUME NEW t, OrderedTo(t), UNCHANGED <<cfg, seen, targets>>
  PROVE  OrderedTo(t)'
<1>1. \A j : Text(j)' = Text(j)
  BY TextKept
<1>2. \A j, key : Names(j, key)' = Names(j, key)
  BY <1>1 DEF Names
<1>3. \A j, key : FirstNames(j, key)' = FirstNames(j, key)
  BY <1>2 DEF FirstNames
<1>4. \A n, j : PlacedAt(n, j)' = PlacedAt(n, j)
  BY <1>1, <1>2, <1>3 DEF PlacedAt
<1> QED BY <1>1, <1>4 DEF OrderedTo

LEMMA AppendEffect ==
  ASSUME NEW S, NEW s \in Seq(S), NEW e
  PROVE  /\ Len(Append(s, e)) = Len(s) + 1 /\ DOMAIN Append(s, e) = 1..Len(s) + 1
         /\ \A n \in 1..Len(s) : Append(s, e)[n] = s[n]
         /\ Append(s, e)[Len(s) + 1] = e
<1>1. s \in Seq(S \cup {e}) /\ Len(s) \in Nat
  BY SeqDef, LenProperties
<1>2. Append(s, e) \in Seq(S \cup {e})
  BY <1>1, AppendProperties
<1> QED BY <1>1, <1>2, AppendProperties, LenProperties

\* One text more: what it names is at the end of the list unless it was there already.
LEMMA OrderedTurn ==
  ASSUME TypeInv, SeenInv, NEW t \in Nat, OrderedTo(t), cfg' = cfg,
         \/ Parses(Text(t + 1)) /\ AddTarget(TargetOf(Text(t + 1)))
         \/ ~Parses(Text(t + 1)) /\ UNCHANGED <<seen, targets>>
  PROVE  OrderedTo(t + 1)'
<1> DEFINE new == TargetOf(Text(t + 1))
<1>1. \A j : Text(j)' = Text(j)
  BY TextKept
<1>2. \A j, key : Names(j, key)' = Names(j, key)
  BY <1>1 DEF Names
<1>3. \A j, key : FirstNames(j, key)' = FirstNames(j, key)
  BY <1>2 DEF FirstNames
<1>4. targets \in Seq(GivenTargets) /\ Len(targets) \in Nat /\ DOMAIN targets = 1..Len(targets)
  BY LenProperties DEF TypeInv
<1>5. CASE /\ Parses(Text(t + 1)) => Key(new) \in seen
           /\ UNCHANGED <<seen, targets>>
  <2>1. \A n, j : PlacedAt(n, j)' = PlacedAt(n, j)
    BY <1>1, <1>2, <1>3, <1>5 DEF PlacedAt
  <2>2. \A j \in 1..t + 1 : Parses(Text(j)) => Key(TargetOf(Text(j))) \in seen
    BY <1>5 DEF OrderedTo
  <2>3. \A n \in DOMAIN targets : \E j \in 1..t + 1 : PlacedAt(n, j)
    BY DEF OrderedTo
  <2> QED BY <1>1, <1>5, <2>1, <2>2, <2>3 DEF OrderedTo
<1>6. CASE /\ Parses(Text(t + 1)) /\ Key(new) \notin seen
           /\ seen' = seen \cup {Key(new)} /\ targets' = Append(targets, new)
  <2> PICK m \in Nat : m = Len(targets) + 1
    BY <1>4
  <2>1. /\ DOMAIN targets' = 1..m /\ DOMAIN targets = 1..m - 1
        /\ \A n \in 1..m - 1 : targets'[n] = targets[n]
        /\ targets'[m] = new
    <3>1. targets' = Append(targets, new)
      BY <1>6
    <3> HIDE DEF new
    <3>2. /\ DOMAIN Append(targets, new) = 1..Len(targets) + 1
          /\ \A n \in 1..Len(targets) : Append(targets, new)[n] = targets[n]
          /\ Append(targets, new)[Len(targets) + 1] = new
      BY <1>4, AppendEffect
    <3> DEFINE app == Append(targets, new)
    <3>3. /\ targets' = app /\ DOMAIN app = 1..Len(targets) + 1
          /\ \A n \in 1..Len(targets) : app[n] = targets[n]
          /\ app[Len(targets) + 1] = new
      BY <3>1, <3>2, Zenon
    <3> HIDE DEF app
    <3> QED BY <1>4, <3>3
  <2>2. \A j \in 1..t + 1 : Parses(Text(j)) => Key(TargetOf(Text(j))) \in seen'
    BY <1>6 DEF OrderedTo
  <2>3. ASSUME NEW n \in 1..m - 1 PROVE \E j \in 1..t + 1 : PlacedAt(n, j)'
    <3>1. PICK j \in 1..t : PlacedAt(n, j)
      BY <2>1 DEF OrderedTo
    <3>2. targets'[n] = targets[n] /\ \A i \in 1..n - 1 : targets'[i] = targets[i]
      BY <2>1
    <3>3. PlacedAt(n, j)'
      BY <1>1, <1>2, <1>3, <3>1, <3>2 DEF PlacedAt
    <3> QED BY <3>3
  <2>4. PlacedAt(m, t + 1)'
    <3>1. Names(t + 1, Key(new))
      BY <1>6 DEF Names
    <3>2. ASSUME NEW i \in 1..t PROVE ~Names(i, Key(new))
      BY <1>6 DEF OrderedTo, Names
    <3>3. FirstNames(t + 1, Key(new))
      BY <3>1, <3>2 DEF FirstNames
    <3>4. ASSUME NEW l \in 1..m - 1 PROVE \E i \in 1..t : Names(i, Key(targets'[l]))
      BY <2>1 DEF OrderedTo, PlacedAt, FirstNames
    <3> QED BY <1>1, <1>2, <1>3, <2>1, <3>3, <3>4 DEF PlacedAt
  <2>5. \A n \in DOMAIN targets' : \E j \in 1..t + 1 : PlacedAt(n, j)'
    BY <2>1, <2>3, <2>4
  <2> QED BY <1>1, <2>2, <2>5 DEF OrderedTo
<1> QED BY <1>5, <1>6 DEF AddTarget

\* What a step does to the order: it looks at one text more, or at none and adds nothing.
LEMMA OrderTurn ==
  ASSUME TypeInv, SeenInv, OrderInv, answer = "none", answer' = "none",
         cfg' = cfg, Looked' = Looked + 1,
         NEW t \in Nat, t = Looked,
         \/ Parses(Text(t + 1)) /\ AddTarget(TargetOf(Text(t + 1)))
         \/ ~Parses(Text(t + 1)) /\ UNCHANGED <<seen, targets>>
  PROVE  OrderInv'
<1>1. OrderedTo(t)
  BY DEF OrderInv
<1>2. OrderedTo(t + 1)'
  BY <1>1, OrderedTurn
<1>3. \A u \in Nat : u = Looked' => u = t + 1
  OBVIOUS
<1> QED BY <1>2, <1>3 DEF OrderInv

LEMMA OrderStill ==
  ASSUME OrderInv, answer # "error", UNCHANGED <<cfg, seen, targets>>, Looked' = Looked,
         answer' = "targets" => k' = GridSize' /\ pc' \in {"result", "returned"},
         answer' # "error"
  PROVE  OrderInv'
<1>1. ASSUME NEW t \in Nat, t = Looked PROVE OrderedTo(t)'
  BY <1>1, OrderKept DEF OrderInv
<1> QED BY <1>1 DEF OrderInv

LEMMA OrderInit == Init => OrderInv
<1> SUFFICES ASSUME Init PROVE OrderInv
  OBVIOUS
<1>1. Looked = 0 /\ DOMAIN targets = {} /\ answer = "none"
  BY EmptySeq DEF Init, Looked
<1> QED BY <1>1 DEF OrderInv, OrderedTo

LEMMA OrderStep == IInv /\ OrderInv /\ [Next]_vars => OrderInv'
<1> SUFFICES ASSUME IInv, OrderInv, [Next]_vars PROVE OrderInv'
  OBVIOUS
<1>1. /\ TypeInv /\ SeenInv /\ cfg \in Configs
      /\ Len(Arguments) \in Nat /\ LineCount \in Nat /\ GridSize \in Nat /\ k \in Nat
  BY TextSizes DEF IInv, TypeInv
<1>2. ASSUME cfg' = cfg
      PROVE  /\ LineCount' = LineCount /\ Arguments' = Arguments /\ GridSize' = GridSize
  BY <1>2, TextKept
<1>3. ASSUME ReturnError, InputFault PROVE OrderInv'
  <2>1. cfg' = cfg /\ answer' = "error"
    BY <1>3 DEF ReturnError
  <2>2. InputFault'
    BY <1>3, <2>1, TextKept
  <2> QED BY <2>1, <2>2 DEF OrderInv
<1>4. CASE ParseArgument
  <2>1. /\ pc = "arguments" /\ k < Len(Arguments) /\ answer = "none"
    BY <1>4 DEF ParseArgument, IInv, AnswerInv
  <2>2. CASE Parses(Arguments[k + 1]) /\ AddTarget(TargetOf(Arguments[k + 1])) /\ NextTurn
    <3>1. PICK t \in Nat : t = k
      BY <1>1
    <3>2. Text(t + 1) = Arguments[k + 1]
      BY <1>1, <2>1, <3>1 DEF Text
    <3>3. Looked = t /\ Looked' = Looked + 1 /\ cfg' = cfg /\ pc' = pc /\ answer' = answer
      BY <1>1, <2>1, <2>2, <3>1 DEF Looked, NextTurn
    <3> QED BY <1>1, <2>1, <2>2, <3>2, <3>3, OrderTurn
  <2>3. CASE ~Parses(Arguments[k + 1]) /\ ReturnError
    <3>1. k + 1 \in DOMAIN Arguments
      BY <1>1, <2>1, ArgumentsType
    <3> QED BY <1>3, <2>3, <3>1 DEF InputFault
  <2> QED BY <1>4, <2>2, <2>3 DEF ParseArgument
<1>5. CASE OpenFile
  <2>1. pc = "arguments" /\ k = Len(Arguments)
    BY <1>5 DEF OpenFile
  <2>2. cfg.file \in {"none", "missing", "readable", "failing"}
    BY <1>1, ConfigParts
  <2>3. CASE cfg.file \in {"none", "readable", "failing"}
    <3>1. /\ pc' = (IF cfg.file = "none" THEN "grid" ELSE "lines")
          /\ k' = 0 /\ UNCHANGED <<cfg, seen, targets, answer>>
      BY <1>5, <2>3 DEF OpenFile, Enter
    <3>2. Looked' = Looked
      BY <1>1, <1>2, <2>1, <3>1 DEF Looked, LineCount
    <3> QED BY <2>1, <3>1, <3>2, OrderStill DEF IInv, AnswerInv
  <2>4. CASE cfg.file = "missing" /\ ReturnError
    BY <1>3, <2>4 DEF InputFault
  <2> QED BY <1>5, <2>2, <2>3, <2>4 DEF OpenFile
<1>6. CASE ReadLine
  <2> DEFINE line == cfg.lines[k + 1]
  <2>1. /\ pc = "lines" /\ k < Len(cfg.lines) /\ answer = "none" /\ cfg.file # "none"
    BY <1>6 DEF ReadLine, IInv, AnswerInv, ReadInv
  <2>2. LineCount = Len(cfg.lines) /\ k + 1 \in DOMAIN cfg.lines
    BY <1>1, <2>1, ArgumentsType DEF LineCount
  <2>3. line.scheme = "blank" => ~Parses(line)
    BY <1>1, <2>2, ParseAssumption DEF Parses
  <2>4. CASE /\ NextTurn
             /\ \/ Parses(line) /\ AddTarget(TargetOf(line))
                \/ ~Parses(line) /\ UNCHANGED <<seen, targets>>
    <3>1. PICK t \in Nat : t = Len(Arguments) + k
      BY <1>1
    <3>2. Text(t + 1) = line
      <4>1. ~(t + 1 <= Len(Arguments)) /\ t + 1 <= Len(Arguments) + LineCount
        BY <1>1, <2>1, <2>2, <3>1
      <4>2. (t + 1) - Len(Arguments) = k + 1
        BY <1>1, <3>1
      <4> QED BY <4>1, <4>2 DEF Text
    <3>3. cfg' = cfg /\ pc' = pc /\ k' = k + 1 /\ answer' = answer
      BY <2>4 DEF NextTurn
    <3>4. Looked = t /\ Looked' = Looked + 1
      BY <1>1, <1>2, <2>1, <3>1, <3>3 DEF Looked
    <3> QED BY <1>1, <2>1, <2>4, <3>2, <3>3, <3>4, OrderTurn
  <2>5. CASE line.scheme # "blank" /\ ~Parses(line) /\ cfg.strict /\ ReturnError
    <3>1. k + 1 \in BadLines
      BY <1>1, <2>1, <2>2, <2>5 DEF BadLines
    <3> QED BY <1>3, <2>5, <3>1 DEF InputFault
  <2> QED BY <1>6, <2>3, <2>4, <2>5 DEF ReadLine
<1>7. CASE EndFile
  <2>1. /\ pc = "lines" /\ k = Len(cfg.lines) /\ cfg.file # "none"
    BY <1>7 DEF EndFile, IInv, ReadInv
  <2>2. CASE Enter("grid")
    <3>1. pc' = "grid" /\ k' = 0 /\ UNCHANGED <<cfg, seen, targets, answer>>
      BY <2>2 DEF Enter
    <3>2. Looked' = Looked
      BY <1>1, <1>2, <2>1, <3>1 DEF Looked, LineCount
    <3> QED BY <2>1, <3>1, <3>2, OrderStill DEF IInv, AnswerInv
  <2>3. CASE cfg.file = "failing" /\ ReturnError
    BY <1>3, <2>3 DEF InputFault
  <2> QED BY <1>7, <2>2, <2>3 DEF EndFile
<1>8. CASE AddGridPoint
  <2>1. /\ pc = "grid" /\ k < GridSize /\ answer = "none" /\ NextTurn
        /\ \/ Parses(GridItem(k)) /\ AddTarget(TargetOf(GridItem(k)))
           \/ ~Parses(GridItem(k)) /\ UNCHANGED <<seen, targets>>
    BY <1>8 DEF AddGridPoint, IInv, AnswerInv
  <2>2. PICK n \in Nat : n = k
    BY <1>1
  <2>3. PICK t \in Nat : t = Len(Arguments) + LineCount + k
    BY <1>1
  <2>4. Text(t + 1) = GridItem(n)
    <3>1. ~(t + 1 <= Len(Arguments)) /\ ~(t + 1 <= Len(Arguments) + LineCount)
      BY <1>1, <2>3
    <3>2. (t + 1) - Len(Arguments) - LineCount = n + 1
      BY <1>1, <2>2, <2>3
    <3>3. GridText(n + 1) = GridItem(n)
      BY <1>1, <2>1, <2>2, GridOrder
    <3> QED BY <3>1, <3>2, <3>3 DEF Text
  <2>5. cfg' = cfg /\ pc' = pc /\ k' = k + 1 /\ answer' = answer
    BY <2>1 DEF NextTurn
  <2>6. Looked = t /\ Looked' = Looked + 1
    BY <1>1, <1>2, <2>1, <2>3, <2>5 DEF Looked
  <2> QED BY <1>1, <2>1, <2>2, <2>4, <2>5, <2>6, OrderTurn
<1>9. CASE Finish
  <2>1. pc = "grid" /\ k = GridSize /\ answer = "none"
    BY <1>9 DEF Finish, IInv, AnswerInv
  <2>2. CASE /\ pc' = "result" /\ answer' = "targets" /\ UNCHANGED <<cfg, k, seen, targets>>
    <3>1. Looked' = Looked
      BY <1>2, <2>1, <2>2 DEF Looked
    <3> QED BY <1>2, <2>1, <2>2, <3>1, OrderStill
  <2>3. CASE targets = <<>> /\ ReturnError
    <3>1. PICK t \in Nat : t = TextCount
      BY <1>1 DEF TextCount
    <3>2. OrderedTo(t)
      BY <2>1, <3>1 DEF OrderInv, Looked, TextCount
    <3>3. seen = {}
      BY <1>1, <2>3, EmptySeq DEF SeenInv
    <3>4. InputFault
      BY <3>1, <3>2, <3>3 DEF OrderedTo, InputFault
    <3> QED BY <1>3, <2>3, <3>4
  <2> QED BY <1>9, <2>2, <2>3 DEF Finish
<1>10. CASE DropWarnings
  <2>1. /\ pc = "result" /\ pc' = "returned" /\ UNCHANGED <<cfg, k, seen, targets, answer>>
    BY <1>10 DEF DropWarnings
  <2>2. Looked' = Looked
    BY <1>2, <2>1 DEF Looked
  <2>3. ASSUME NEW t \in Nat, OrderedTo(t) PROVE OrderedTo(t)'
    BY <2>1, <2>3, OrderKept
  <2>4. InputFault' = InputFault
    BY <2>1, TextKept
  <2> QED BY <1>2, <2>1, <2>2, <2>3, <2>4 DEF OrderInv
<1>11. CASE UNCHANGED vars
  <2>1. UNCHANGED <<cfg, pc, k, seen, targets, answer>>
    BY <1>11 DEF vars
  <2>2. Looked' = Looked
    BY <1>2, <2>1 DEF Looked
  <2>3. ASSUME NEW t \in Nat, OrderedTo(t) PROVE OrderedTo(t)'
    BY <2>1, <2>3, OrderKept
  <2>4. InputFault' = InputFault
    BY <2>1, TextKept
  <2> QED BY <1>2, <2>1, <2>2, <2>3, <2>4 DEF OrderInv
<1> QED BY <1>4, <1>5, <1>6, <1>7, <1>8, <1>9, <1>10, <1>11 DEF Next, Step, Done

LEMMA OrderCorrect == Spec => [](IInv /\ OrderInv)
<1>1. Init => IInv /\ OrderInv
  BY InvInit, OrderInit
<1>2. IInv /\ OrderInv /\ [Next]_vars => (IInv /\ OrderInv)'
  BY InvStep, OrderStep
<1> QED BY <1>1, <1>2, PTL DEF Spec

-----------------------------------------------------------------------------
(* The theorems. *)

\* No target is probed twice, however often it is named (target.go:155-161): the set of
\* keys never falls out of step with the list.
THEOREM DuplicatesTheorem == Spec => []NoDuplicates
<1>1. ASSUME IInv PROVE NoDuplicates
  <2> SUFFICES ASSUME NEW m \in DOMAIN targets, NEW n \in DOMAIN targets, m # n,
                      targets[m].host = targets[n].host, targets[m].port = targets[n].port,
                      targets[m].path = targets[n].path
               PROVE  FALSE
    BY DEF NoDuplicates
  <2>1. Key(targets[m]) = Key(targets[n])
    BY DEF Key
  <2> QED BY <1>1, <2>1 DEF IInv, SeenInv
<1> QED BY <1>1, InvCorrect, PTL

\* Every target in the list comes from a flag, a line of the file or a point of the grid
\* that parses: nothing else is ever probed.
THEOREM OnlyGivenTheorem == Spec => [](targets \in Seq(GivenTargets))
<1>1. IInv => targets \in Seq(GivenTargets)
  BY DEF IInv, TypeInv
<1> QED BY <1>1, InvCorrect, PTL

\* An error is the answer to a bad flag, a file that cannot be read, a bad line when
\* parsing is strict and an input without a target (target.go:109-255), and to nothing
\* else; a list therefore has all flags and the whole file behind it, and the bad lines
\* of that file each have a warning until the program's call drops them.
THEOREM AnswerTheorem == Spec => []AnswerFollowsInput
<1>1. ASSUME IInv, OrderInv PROVE AnswerFollowsInput
  <2>1. ASSUME answer = "targets" PROVE ~InputFault
    <3>1. /\ ArgumentsParse /\ cfg.file \in {"none", "readable"}
          /\ targets # <<>> /\ (cfg.strict => BadLines = {}) /\ k = GridSize
          /\ pc \in {"result", "returned"} /\ TypeInv
      BY <1>1, <2>1 DEF IInv, AnswerInv, OrderInv
    <3>2. PICK t \in Nat : t = TextCount
      BY <3>1, TextSizes DEF TextCount
    <3>3. OrderedTo(t)
      BY <1>1, <2>1, <3>1, <3>2 DEF OrderInv, Looked, TextCount
    <3>4. 1 \in DOMAIN targets
      BY <3>1, EmptySeq, LenProperties DEF TypeInv
    <3>5. \E j \in 1..TextCount : Parses(Text(j))
      BY <3>2, <3>3, <3>4 DEF OrderedTo, PlacedAt, FirstNames, Names
    <3> QED BY <3>1, <3>5 DEF InputFault, ArgumentsParse
  <2>2. answer \in {"none", "targets", "error"} /\ (answer = "error" => InputFault)
    BY <1>1 DEF IInv, TypeInv, OrderInv
  <2>3. pc = "result" /\ answer = "targets" => Warned = BadLines
    BY <1>1 DEF IInv, AnswerInv
  <2> QED BY <2>1, <2>2, <2>3 DEF AnswerFollowsInput, Warned
<1> QED BY <1>1, OrderCorrect, PTL

\* The list that is probed, and with it the report, follows the flags, the lines and the
\* grid in the order in which they first name each target, and leaves none of them out
\* (target.go:155-161, 227-248).
THEOREM OrderTheorem == Spec => []InOrderNamed
<1>1. ASSUME IInv, OrderInv PROVE InOrderNamed
  <2> SUFFICES ASSUME answer = "targets" PROVE InOrderNamed
    BY DEF InOrderNamed
  <2>1. /\ pc \in {"result", "returned"} /\ k = GridSize /\ TypeInv /\ SeenInv
    BY <1>1 DEF IInv, OrderInv, AnswerInv
  <2>2. PICK t \in Nat : t = TextCount
    BY <2>1, TextSizes DEF TextCount
  <2>3. Looked = TextCount
    BY <2>1 DEF Looked, TextCount
  <2>4. OrderedTo(t)
    BY <1>1, <2>2, <2>3 DEF OrderInv
  <2>5. \A j \in 1..TextCount : Parses(Text(j)) =>
          \E n \in DOMAIN targets : Names(j, Key(targets[n]))
    BY <2>1, <2>2, <2>4 DEF OrderedTo, SeenInv, Names
  <2>6. \A n \in DOMAIN targets : \E j \in 1..TextCount : PlacedAt(n, j)
    BY <2>2, <2>4 DEF OrderedTo
  <2> QED BY <2>5, <2>6 DEF InOrderNamed, PlacedAt
<1> QED BY <1>1, OrderCorrect, PTL
=============================================================================
