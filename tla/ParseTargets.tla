----------------------------- MODULE ParseTargets -----------------------------
(***************************************************************************)
(* ParseTargets and ParseTargetsWithWarnings (target.go:85-255): from the     *)
(* flags that name targets to the list that is probed: -hostport, -endpoint   *)
(* and -url, then the lines of -file, then the grid of -hostname and -port.   *)
(*                                                                         *)
(* A text that names a target is the record net/url makes of it; which host  *)
(* names it refuses is the environment.  A port is a number, or Unreadable   *)
(* when strconv.Atoi cannot return it (no number, or one above MaxInt).       *)
(***************************************************************************)
EXTENDS Integers, Sequences

CONSTANTS MaxInt,     \* the largest int
          Malformed,  \* host names that url.Parse refuses
          Configs     \* the flags a run covers

Unreadable == MaxInt + 1
NoPort     == MaxInt + 2      \* a text without ":port"

Item == [scheme: {"none", "http", "https", "blank"},   \* "blank": empty, or a comment
         host: STRING, port: Int, path: STRING]

Config == [hostport: Seq(Item),      \* at most one
           endpoints: Seq(Item), urls: Seq(Item),
           file: {"none", "missing", "readable", "failing"},
           lines: Seq(Item),         \* those it has, or those before a read fails
           strict: BOOLEAN,
           hosts: Seq(STRING), ports: Seq(Int)]

ASSUME ParseAssumption ==
  /\ MaxInt \in Nat /\ MaxInt >= 443
  /\ Configs \subseteq Config
  /\ \A c \in Configs :
       /\ Len(c.hostport) <= 1 /\ c.ports # <<>>
       /\ \A n \in DOMAIN c.lines : c.lines[n].scheme = "blank" => c.lines[n].host = ""

VARIABLES
  cfg,       \* the member of Configs in use
  pc,        \* where the code is
  k,         \* how often the current loop has turned
  seen,      \* keys of the targets
  targets,   \* result.Targets
  warnings,  \* result.Warnings, as line numbers
  answer     \* "none" until the result, then "targets" or "error"

vars == <<cfg, pc, k, seen, targets, warnings, answer>>

-----------------------------------------------------------------------------
(* ParseURLTarget. *)

Parses(item) == /\ item.host \notin Malformed \cup {""}
                /\ item.port = NoPort \/ item.port \in 0..MaxInt

Port(item) == IF item.port # NoPort THEN item.port
              ELSE IF item.scheme = "http" THEN 80 ELSE 443

TargetOf(item) == [host |-> item.host, port |-> Port(item),
                   path |-> IF item.path = "" THEN "/" ELSE item.path, raw |-> item]

\* Mutant: the text as it was given.
KeyRaw(t) == t.raw

Key(t) == <<t.host, t.port, t.path>>

-----------------------------------------------------------------------------

Init == /\ cfg \in Configs
        /\ pc = "arguments"
        /\ k = 0
        /\ seen = {}
        /\ targets = <<>>
        /\ warnings = <<>>
        /\ answer = "none"

AddTarget(t) == IF Key(t) \in seen
                  THEN UNCHANGED <<seen, targets>>
                  ELSE seen' = seen \cup {Key(t)} /\ targets' = Append(targets, t)

\* The result of ParseTargetsWithWarnings is an error.
ReturnError == /\ pc' = "result" /\ answer' = "error"
               /\ UNCHANGED <<cfg, k, seen, targets, warnings>>

\* From one part of the function to the next.
Enter(part) == /\ pc' = part /\ k' = 0
               /\ UNCHANGED <<cfg, seen, targets, warnings, answer>>

NextTurn == k' = k + 1 /\ UNCHANGED <<cfg, pc, answer>>

Arguments == cfg.hostport \o cfg.endpoints \o cfg.urls

\* The three loops over the flags: one that does not parse fails the call.
ParseArgument ==
  /\ pc = "arguments" /\ k < Len(Arguments)
  /\ LET item == Arguments[k + 1]
     IN  \/ Parses(item) /\ AddTarget(TargetOf(item)) /\ NextTurn /\ UNCHANGED warnings
         \/ ~Parses(item) /\ ReturnError

OpenFile == /\ pc = "arguments" /\ k = Len(Arguments)
            /\ CASE cfg.file = "none"    -> Enter("grid")
                 [] cfg.file = "missing" -> ReturnError
                 [] OTHER                -> Enter("lines")

\* Mutant: a line that does not parse is passed over in silence.
ReadLineSilently ==
  /\ pc = "lines" /\ k < Len(cfg.lines)
  /\ LET line == cfg.lines[k + 1]
     IN  /\ IF line.scheme # "blank" /\ Parses(line) THEN AddTarget(TargetOf(line))
                                                      ELSE UNCHANGED <<seen, targets>>
         /\ NextTurn /\ UNCHANGED warnings

\* One line: nothing, a target, or a warning that strict parsing makes an error.
ReadLine ==
  /\ pc = "lines" /\ k < Len(cfg.lines)
  /\ LET line == cfg.lines[k + 1]
     IN  \/ /\ line.scheme = "blank"
            /\ NextTurn /\ UNCHANGED <<seen, targets, warnings>>
         \/ /\ line.scheme # "blank" /\ Parses(line)
            /\ AddTarget(TargetOf(line)) /\ NextTurn /\ UNCHANGED warnings
         \/ /\ line.scheme # "blank" /\ ~Parses(line) /\ ~cfg.strict
            /\ warnings' = Append(warnings, k + 1)
            /\ NextTurn /\ UNCHANGED <<seen, targets>>
         \/ /\ line.scheme # "blank" /\ ~Parses(line) /\ cfg.strict
            /\ ReturnError

\* The scanner stops at the end, at a failed read or at a line it has no room for.
EndFile == /\ pc = "lines" /\ k = Len(cfg.lines)
           /\ IF cfg.file = "failing" THEN ReturnError ELSE Enter("grid")

GridPort(port) == IF port = Unreadable THEN 443 ELSE port

\* Mutant: column by column.
GridItemByPort(n) ==
  LET size == Len(cfg.hosts)
  IN  [scheme |-> "none", host |-> cfg.hosts[(n % size) + 1],
       port |-> GridPort(cfg.ports[(n \div size) + 1]), path |-> ""]

\* The n-th point of the grid, host by host.
GridItem(n) ==
  LET width == Len(cfg.ports)
  IN  [scheme |-> "none", host |-> cfg.hosts[(n \div width) + 1],
       port |-> GridPort(cfg.ports[(n % width) + 1]), path |-> ""]

GridSize == Len(cfg.hosts) * Len(cfg.ports)

\* A point without a host or one that does not parse is dropped without a word.
AddGridPoint == /\ pc = "grid" /\ k < GridSize
                /\ IF Parses(GridItem(k)) THEN AddTarget(TargetOf(GridItem(k)))
                                          ELSE UNCHANGED <<seen, targets>>
                /\ NextTurn /\ UNCHANGED warnings

Finish == /\ pc = "grid" /\ k = GridSize
          /\ IF targets = <<>>
               THEN ReturnError
               ELSE /\ pc' = "result" /\ answer' = "targets"
                    /\ UNCHANGED <<cfg, k, seen, targets, warnings>>

\* ParseTargets, which the program calls, hands on the targets or the error and
\* drops the warnings.
DropWarnings == /\ pc = "result"
                /\ pc' = "returned" /\ warnings' = <<>>
                /\ UNCHANGED <<cfg, k, seen, targets, answer>>

Done == pc = "returned" /\ UNCHANGED vars

Step == \/ ParseArgument \/ OpenFile \/ ReadLine \/ EndFile \/ AddGridPoint \/ Finish
        \/ DropWarnings

Next == Step \/ Done

Spec == Init /\ [][Next]_vars

-----------------------------------------------------------------------------
(* Properties. *)

\* However often and in however many places a target is named, it is probed once.
NoDuplicates == \A m, n \in DOMAIN targets :
  m # n => \/ targets[m].host # targets[n].host
           \/ targets[m].port # targets[n].port
           \/ targets[m].path # targets[n].path

\* A grid is as many texts for each host as there are ports, host by host.
GridRow(g) == CHOOSE i \in DOMAIN cfg.hosts :
                g \in (i - 1) * Len(cfg.ports) + 1..i * Len(cfg.ports)

GridText(g) == [scheme |-> "none", host |-> cfg.hosts[GridRow(g)],
                port |-> GridPort(cfg.ports[g - (GridRow(g) - 1) * Len(cfg.ports)]), path |-> ""]

\* The texts of a call: the flags, the lines of the file, the grid.
LineCount == IF cfg.file = "none" THEN 0 ELSE Len(cfg.lines)
TextCount == Len(Arguments) + LineCount + GridSize

Text(j) == IF j <= Len(Arguments) THEN Arguments[j]
           ELSE IF j <= Len(Arguments) + LineCount THEN cfg.lines[j - Len(Arguments)]
           ELSE GridText(j - Len(Arguments) - LineCount)

\* The j-th text names a target with this key, or is the first to do so.
Names(j, key)      == Parses(Text(j)) /\ Key(TargetOf(Text(j))) = key
FirstNames(j, key) == Names(j, key) /\ \A i \in 1..j - 1 : ~Names(i, key)

\* The list that is probed, and with it the order of the report, is the order in
\* which the targets are first named, each as it is named there, and leaves out
\* none (target.go:155-161, 227-248).
InOrderNamed == answer = "targets" =>
  /\ \A j \in 1..TextCount : Parses(Text(j)) =>
       \E n \in DOMAIN targets : Names(j, Key(targets[n]))
  /\ \A n \in DOMAIN targets : \E j \in 1..TextCount :
       /\ FirstNames(j, Key(targets[n])) /\ targets[n] = TargetOf(Text(j))
       /\ \A m \in 1..n - 1 : \E i \in 1..j - 1 : Names(i, Key(targets[m]))

\* The lines of the file that are no comment and name no target.
BadLines == {n \in 1..LineCount : cfg.lines[n].scheme # "blank" /\ ~Parses(cfg.lines[n])}

\* What makes the call fail: a flag that does not parse, a file that cannot be read
\* to its end, a bad line when parsing is strict, and no target at all.
InputFault == \/ \E n \in DOMAIN Arguments : ~Parses(Arguments[n])
              \/ cfg.file \in {"missing", "failing"}
              \/ cfg.strict /\ BadLines # {}
              \/ \A j \in 1..TextCount : ~Parses(Text(j))

\* ParseTargets fails exactly when its input has one of those faults, however the
\* flags, the file and the grid are mixed, so it never returns the list of a part
\* of the flags or of the file.  The warnings of ParseTargetsWithWarnings name every
\* bad line and no other (target.go:137); the program does not see them, as
\* DropWarnings says.  A bad point of the grid is neither an error nor a warning
\* (target.go:239-248): it counts only when nothing else names a target.
AnswerFollowsInput ==
  /\ answer # "none" => (answer = "error" <=> InputFault)
  /\ pc = "result" /\ answer = "targets" =>
       {warnings[m] : m \in DOMAIN warnings} = BadLines
=============================================================================
