------------------------------- MODULE CliProofs -------------------------------
(***************************************************************************)
(* Theorems about Cli, for every number of targets and everything their       *)
(* probes can find:                                                        *)
(*                                                                         *)
(*   ReportTheorem   a reporter gets one result for every target, in order    *)
(*   ExitTheorem     the exit code agrees with what the probes found          *)
(***************************************************************************)
EXTENDS Cli, TLAPS, SequenceTheorems, FiniteSetTheorems

-----------------------------------------------------------------------------
(* Counting. *)

LEMMA TargetsFinite ==
  IsFiniteSet(Targets) /\ Cardinality(Targets) = NumTargets /\ NumTargets \in Nat \ {0}
BY BatchAssumption, FS_Interval DEF Targets

\* A slice with room for every target holds each slot in its place.
LEMMA WholeSlice ==
  ASSUME NEW S, NEW f \in [Targets -> S]
  PROVE  /\ Len(SubSeq(f, 1, NumTargets)) = NumTargets
         /\ DOMAIN SubSeq(f, 1, NumTargets) = Targets
         /\ \A i \in Targets : SubSeq(f, 1, NumTargets)[i] = f[i]
<1>1. NumTargets \in Nat \ {0} /\ \A i \in 1..NumTargets : f[i] \in S
  BY TargetsFinite DEF Targets
<1> DEFINE s == SubSeq(f, 1, NumTargets)
<1>2. /\ s \in Seq(S)
      /\ Len(s) = IF 1 <= NumTargets THEN NumTargets - 1 + 1 ELSE 0
      /\ \A i \in 1..NumTargets - 1 + 1 : s[i] = f[1 + i - 1]
  BY <1>1, SubSeqProperties
<1> HIDE DEF s
<1>3. Len(s) = NumTargets /\ DOMAIN s = 1..NumTargets /\ \A i \in 1..NumTargets : s[i] = f[i]
  BY <1>1, <1>2, LenProperties
<1> QED BY <1>3 DEF s, Targets

\* A count is zero exactly when nothing is counted.
LEMMA CountZero ==
  ASSUME NEW S \in SUBSET Targets
  PROVE  Cardinality(S) = 0 <=> S = {}
BY TargetsFinite, FS_Subset, FS_EmptySet

-----------------------------------------------------------------------------
(* The inductive invariant. *)

\* The slots, each empty or with a result of its own target, and where main can be.
SlotsInv ==
  /\ slots \in [Targets -> Result \cup {ZeroResult}]
  /\ \A i \in Targets : slots[i] # ZeroResult => slots[i] \in ResultOf(i)
  /\ main \in {"start", "parse", "log", "batch", "check", "output", "csv", "resolve", "exited"}

\* A slice with the result of every target.
Whole(s) == /\ Len(s) = NumTargets /\ DOMAIN s = Targets
            /\ \A i \in Targets : s[i] = slots[i] /\ slots[i] \in ResultOf(i)

\* What the batch answered is whole at the look at ctx.Err() if that finds nothing,
\* and in everything that comes after it, whether or not a signal arrives then.
AnswerInv == /\ main \in {"output", "csv", "resolve"} => Whole(answer)
             /\ main = "check" /\ ~stopped => Whole(answer)

ReportInv == report # <<>> => main \in {"csv", "resolve", "exited"} /\ Whole(report)

\* An output error is about something lost, and no loss of JSON or CSV is forgotten.
OutputInv == /\ outputErr => lost # {} /\ main \in {"csv", "resolve", "exited"}
             /\ lost \cap {"json", "csv"} # {} =>
                  /\ main \in {"csv", "resolve", "exited"}
                  /\ outputErr \/ exit = ExitIOError

ExitInv == exit # NoExit => main = "exited"

IInv == SlotsInv /\ AnswerInv /\ ReportInv /\ OutputInv /\ ExitInv /\ ExitCodeTrue

LEMMA NotZero == \A i \in Targets : \A r \in ResultOf(i) : r # ZeroResult
BY BatchAssumption DEF ResultOf, Result, ZeroResult

\* A step of main that leaves the batch alone.
LEMMA QuietStep ==
  ASSUME IInv, UNCHANGED <<vars, args>>,
         main' \in {"start", "parse", "log", "batch", "check", "output", "csv", "resolve", "exited"}
  PROVE  SlotsInv' /\ \A s : Whole(s)' <=> Whole(s)
BY DEF IInv, SlotsInv, vars, Whole

\* Where main is still on its way, there is nothing to say about the exit code.
LEMMA NoExitYet == ASSUME exit = NoExit PROVE ExitCodeTrue
BY DEF ExitCodeTrue, NoExit, ExitSuccess, ExitTargetFailure, ExitPartialSuccess, ExitIOError,
       ExitCancelled

\* What the counters say of a whole answer is what the slots hold.
LEMMA ExitCodeWhole ==
  ASSUME SlotsInv, Whole(answer)
  PROVE  /\ FailureCount = 0 <=> \A i \in Targets : Passed(slots[i])
         /\ SuccessCount = 0 <=> \A i \in Targets : ~Passed(slots[i])
         /\ \A i \in Targets : slots[i] # ZeroResult
         /\ Filled = Targets
<1>1. FailureCount = 0 <=> {k \in DOMAIN answer : ~Passed(answer[k])} = {}
  BY CountZero DEF FailureCount, Whole
<1>2. SuccessCount = 0 <=> {k \in DOMAIN answer : Passed(answer[k])} = {}
  BY CountZero DEF SuccessCount, Whole
<1>3. DOMAIN answer = Targets /\ \A i \in Targets : answer[i] = slots[i]
  BY DEF Whole
<1>4. \A i \in Targets : slots[i] # ZeroResult
  BY NotZero DEF Whole
<1> QED BY <1>1, <1>2, <1>3, <1>4 DEF Filled

LEMMA InvInit == CliInit => IInv
<1> SUFFICES ASSUME CliInit PROVE IInv
  OBVIOUS
<1> USE DEF CliInit, Init
<1>1. SlotsInv
  BY DEF SlotsInv
<1>2. AnswerInv /\ ReportInv /\ OutputInv /\ ExitInv
  BY DEF AnswerInv, ReportInv, OutputInv, ExitInv
<1>3. ExitCodeTrue
  BY NoExitYet
<1> QED BY <1>1, <1>2, <1>3 DEF IInv

-----------------------------------------------------------------------------
(* Each step. *)

LEMMA StartStep == ASSUME IInv, Start PROVE IInv'
<1>1. /\ main = "start" /\ UNCHANGED <<vars, args, outputErr, report>>
      /\ report = <<>> /\ exit = NoExit
  BY DEF Start, IInv, ReportInv, ExitInv
<1>2. \/ main' = "exited" /\ exit' = ExitSuccess /\ args.mode # "run"
      \/ main' = "exited" /\ exit' = ExitIOError /\ args.mode # "run"
      \/ main' = "parse" /\ exit' = exit
  BY DEF Start, DumpDiagnostics, Exit
<1>3. SlotsInv'
  BY <1>1, <1>2, QuietStep
<1>4. AnswerInv' /\ ReportInv' /\ ExitInv'
  BY <1>1, <1>2 DEF AnswerInv, ReportInv, ExitInv
<1>5. OutputInv'
  BY <1>1 DEF Start, DumpDiagnostics, Exit, IInv, OutputInv
<1>6. ExitCodeTrue'
  <2>1. CASE exit' = exit
    BY <1>1, <2>1 DEF ExitCodeTrue, NoExit, ExitSuccess, ExitTargetFailure, ExitPartialSuccess,
                      ExitIOError, ExitCancelled
  <2>2. CASE args.mode # "run"
    BY <1>1, <2>2 DEF ExitCodeTrue
  <2> QED BY <1>2, <2>1, <2>2
<1> QED BY <1>3, <1>4, <1>5, <1>6 DEF IInv

LEMMA ParseStep == ASSUME IInv, Parse PROVE IInv'
<1>1. /\ main = "parse" /\ UNCHANGED <<vars, args, outputErr, lost, report>>
      /\ report = <<>> /\ exit = NoExit
      /\ \/ main' = "log" /\ exit' = exit
         \/ main' = "exited" /\ exit' = ExitUsageError
  BY DEF Parse, Exit, IInv, ReportInv, ExitInv
<1>2. SlotsInv'
  BY <1>1, QuietStep
<1>3. AnswerInv' /\ ReportInv' /\ ExitInv' /\ OutputInv'
  BY <1>1 DEF IInv, AnswerInv, ReportInv, ExitInv, OutputInv
<1>4. ExitCodeTrue'
  BY <1>1 DEF IInv, OutputInv, ExitCodeTrue, NoExit, ExitSuccess, ExitTargetFailure,
              ExitPartialSuccess, ExitIOError, ExitCancelled, ExitUsageError
<1> QED BY <1>2, <1>3, <1>4 DEF IInv

LEMMA LogStep == ASSUME IInv, CreateLog PROVE IInv'
<1>1. /\ main = "log" /\ UNCHANGED <<vars, args, outputErr, report>>
      /\ report = <<>> /\ exit = NoExit
      /\ \/ main' = "batch" /\ exit' = exit /\ lost' = lost
         \/ main' = "exited" /\ exit' = ExitIOError /\ lost' = {"log"}
  BY DEF CreateLog, Exit, IInv, ReportInv, ExitInv
<1>2. SlotsInv'
  BY <1>1, QuietStep
<1>3. AnswerInv' /\ ReportInv' /\ ExitInv' /\ OutputInv'
  BY <1>1 DEF IInv, AnswerInv, ReportInv, ExitInv, OutputInv
<1>4. ExitCodeTrue'
  BY <1>1 DEF ExitCodeTrue, NoExit, ExitSuccess, ExitTargetFailure, ExitPartialSuccess,
              ExitIOError, ExitCancelled
<1> QED BY <1>2, <1>3, <1>4 DEF IInv

LEMMA ProbeStep == ASSUME IInv, NEW i \in Targets, Probe(i) PROVE IInv'
<1>1. /\ main = "batch" /\ UNCHANGED <<args, main, outputErr, report, exit>>
      /\ lost' = lost \/ lost' = lost \cup {"certificates"}
      /\ report = <<>> /\ exit = NoExit
  BY DEF Probe, IInv, ReportInv, ExitInv, NoExit
<1>2. PICK r \in ResultOf(i) : slots' = [slots EXCEPT ![i] = r]
  BY DEF Probe, Deliver
<1>3. SlotsInv'
  BY <1>1, <1>2 DEF IInv, SlotsInv, ResultOf
<1>4. AnswerInv' /\ ReportInv' /\ ExitInv' /\ OutputInv'
  BY <1>1 DEF IInv, AnswerInv, ReportInv, ExitInv, OutputInv
<1>5. ExitCodeTrue'
  BY <1>1 DEF ExitCodeTrue, NoExit, ExitSuccess, ExitTargetFailure, ExitPartialSuccess,
              ExitIOError, ExitCancelled
<1> QED BY <1>3, <1>4, <1>5 DEF IInv

\* A batch that nobody cancelled answers with every slot, each of them filled.
LEMMA BatchStep == ASSUME IInv, BatchEnds PROVE IInv'
<1>1. /\ main = "batch" /\ main' = "check"
      /\ UNCHANGED <<slots, stopped, args, outputErr, lost, report, exit>>
      /\ stopped \/ Filled = Targets
      /\ answer' = SubSeq(slots, 1, Cardinality(Filled))
      /\ report = <<>> /\ exit = NoExit
  BY DEF BatchEnds, Return, IInv, ReportInv, ExitInv
<1>2. SlotsInv'
  BY <1>1 DEF IInv, SlotsInv
<1>3. ~stopped' => Whole(answer)'
  <2> SUFFICES ASSUME ~stopped PROVE Whole(answer)'
    BY <1>1
  <2>1. /\ slots \in [Targets -> Result \cup {ZeroResult}]
        /\ \A i \in Targets : slots[i] \in ResultOf(i)
    BY <1>1 DEF IInv, SlotsInv, Filled
  <2>2. answer' = SubSeq(slots, 1, NumTargets)
    BY <1>1, TargetsFinite
  <2>3. /\ Len(answer') = NumTargets /\ DOMAIN answer' = Targets
        /\ \A i \in Targets : answer'[i] = slots[i]
    BY <2>1, <2>2, WholeSlice
  <2> QED BY <1>1, <2>1, <2>3 DEF Whole
<1>4. AnswerInv' /\ ReportInv' /\ ExitInv' /\ OutputInv'
  BY <1>1, <1>3 DEF IInv, AnswerInv, ReportInv, ExitInv, OutputInv
<1>5. ExitCodeTrue'
  BY <1>1 DEF ExitCodeTrue, NoExit, ExitSuccess, ExitTargetFailure, ExitPartialSuccess,
              ExitIOError, ExitCancelled
<1> QED BY <1>2, <1>4, <1>5 DEF IInv

LEMMA SignalStep == ASSUME IInv, Signal PROVE IInv'
<1>1. /\ main # "exited" /\ UNCHANGED <<slots, returned, answer>> /\ UNCHANGED mainVars
      /\ stopped' = TRUE /\ exit = NoExit
  BY DEF Signal, Stop, IInv, ExitInv
<1>2. \A s : Whole(s)' <=> Whole(s)
  BY <1>1 DEF Whole
<1>3. SlotsInv' /\ ExitInv' /\ OutputInv'
  BY <1>1 DEF IInv, SlotsInv, ExitInv, OutputInv, mainVars
<1>4. AnswerInv' /\ ReportInv'
  BY <1>1, <1>2 DEF IInv, AnswerInv, ReportInv, mainVars
<1>5. ExitCodeTrue'
  BY <1>1 DEF ExitCodeTrue, NoExit, ExitSuccess, ExitTargetFailure, ExitPartialSuccess,
              ExitIOError, ExitCancelled, mainVars
<1> QED BY <1>3, <1>4, <1>5 DEF IInv

\* The look at ctx.Err(): past it the answer is whole, so a signal that comes later
\* takes nothing away.
LEMMA CheckStep == ASSUME IInv, CheckCancelled PROVE IInv'
<1>1. /\ main = "check" /\ UNCHANGED <<vars, args, outputErr, lost, report>>
      /\ report = <<>> /\ exit = NoExit
      /\ \/ stopped /\ main' = "exited" /\ exit' = ExitCancelled
         \/ ~stopped /\ main' = "output" /\ exit' = exit
  BY DEF CheckCancelled, Exit, IInv, ReportInv, ExitInv
<1>2. SlotsInv' /\ \A s : Whole(s)' <=> Whole(s)
  BY <1>1, QuietStep
<1>3. answer' = answer /\ stopped' = stopped
  BY <1>1 DEF vars
<1>4. AnswerInv' /\ ReportInv' /\ ExitInv' /\ OutputInv'
  BY <1>1, <1>2, <1>3 DEF IInv, AnswerInv, ReportInv, ExitInv, OutputInv
<1>5. ExitCodeTrue'
  BY <1>1, <1>3 DEF IInv, OutputInv, ExitCodeTrue, NoExit, ExitSuccess, ExitTargetFailure,
                    ExitPartialSuccess, ExitIOError, ExitCancelled
<1> QED BY <1>2, <1>4, <1>5 DEF IInv

LEMMA OutputStep == ASSUME IInv, Output PROVE IInv'
<1>1. /\ main = "output" /\ main' \in {"csv", "resolve"} /\ UNCHANGED <<vars, args, exit>>
      /\ report' = answer /\ exit = NoExit
      /\ (outputErr' => lost' # {}) /\ (lost' \cap {"json", "csv"} # {} => outputErr')
  BY DEF Output, IInv, ExitInv, OutputInv
<1>2. SlotsInv' /\ \A s : Whole(s)' <=> Whole(s)
  BY <1>1, QuietStep
<1>3. Whole(answer) /\ answer' = answer
  BY <1>1 DEF IInv, AnswerInv, vars
<1>4. OutputInv'
  BY <1>1 DEF OutputInv
<1>5. AnswerInv' /\ ReportInv' /\ ExitInv'
  BY <1>1, <1>2, <1>3 DEF IInv, AnswerInv, ReportInv, ExitInv
<1>6. ExitCodeTrue'
  BY <1>1 DEF ExitCodeTrue, NoExit, ExitSuccess, ExitTargetFailure, ExitPartialSuccess,
              ExitIOError, ExitCancelled
<1> QED BY <1>2, <1>4, <1>5, <1>6 DEF IInv

LEMMA CsvStep == ASSUME IInv, WriteCsv PROVE IInv'
<1>1. /\ main = "csv" /\ UNCHANGED <<vars, args, report>> /\ exit = NoExit
      /\ \/ main' = "exited" /\ exit' = ExitIOError /\ lost' # {}
         \/ /\ main' = "resolve" /\ exit' = exit
            /\ lost' \cap {"json", "csv"} # {} => outputErr'
      /\ outputErr' => lost' # {}
  BY DEF WriteCsv, Exit, IInv, ExitInv, OutputInv, NoExit, ExitIOError
<1>2. SlotsInv' /\ \A s : Whole(s)' <=> Whole(s)
  BY <1>1, QuietStep
<1>3. Whole(answer) /\ answer' = answer
  BY <1>1 DEF IInv, AnswerInv, vars
<1>4. OutputInv'
  BY <1>1 DEF OutputInv
<1>5. AnswerInv' /\ ReportInv' /\ ExitInv'
  BY <1>1, <1>2, <1>3 DEF IInv, AnswerInv, ReportInv, ExitInv
<1>6. ExitCodeTrue'
  BY <1>1 DEF ExitCodeTrue, NoExit, ExitSuccess, ExitTargetFailure, ExitPartialSuccess,
              ExitIOError, ExitCancelled
<1> QED BY <1>2, <1>4, <1>5, <1>6 DEF IInv

\* The counters are taken over a whole answer, so the code they give says what the
\* probes found.
LEMMA ResolveStep == ASSUME IInv, Resolve PROVE IInv'
<1>1. /\ main = "resolve" /\ main' = "exited" /\ exit' = ExitCode
      /\ UNCHANGED <<vars, args, outputErr, lost, report>>
      /\ Whole(answer) /\ SlotsInv /\ (outputErr => lost # {})
      /\ exit = NoExit /\ (lost \cap {"json", "csv"} # {} => outputErr)
  BY DEF Resolve, Exit, IInv, AnswerInv, OutputInv, ExitInv, NoExit, ExitIOError
<1>2. SlotsInv' /\ \A s : Whole(s)' <=> Whole(s)
  BY <1>1, QuietStep
<1>3. answer' = answer /\ slots' = slots /\ stopped' = stopped
  BY <1>1 DEF vars
<1>4. AnswerInv' /\ ReportInv' /\ ExitInv' /\ OutputInv'
  BY <1>1, <1>2, <1>3 DEF IInv, AnswerInv, ReportInv, ExitInv, OutputInv
<1>5. ExitCodeTrue'
  <2>1. /\ FailureCount = 0 <=> \A i \in Targets : Passed(slots[i])
        /\ SuccessCount = 0 <=> \A i \in Targets : ~Passed(slots[i])
        /\ \A i \in Targets : slots[i] # ZeroResult
        /\ Filled = Targets
    BY <1>1, ExitCodeWhole
  <2>2. Filled' = Filled
    BY <1>3 DEF Filled
  <2>3. CASE outputErr
    BY <1>1, <2>3 DEF ExitCode, ExitCodeTrue, ExitSuccess, ExitTargetFailure, ExitPartialSuccess,
                      ExitIOError, ExitCancelled
  <2>4. CASE ~outputErr /\ FailureCount = 0
    BY <1>1, <1>3, <2>1, <2>4 DEF ExitCode, ExitCodeTrue, ExitSuccess, ExitTargetFailure,
                      ExitPartialSuccess, ExitIOError, ExitCancelled
  <2>5. CASE ~outputErr /\ FailureCount # 0 /\ SuccessCount = 0
    <3>1. exit' = ExitTargetFailure
      BY <1>1, <2>5 DEF ExitCode
    <3>2. \A i \in Targets : slots[i] # ZeroResult /\ ~Passed(slots[i])
      BY <2>1, <2>5
    <3>3. (\A i \in Targets : slots[i] # ZeroResult /\ ~Passed(slots[i]))'
      BY <1>3, <3>2
    <3> QED BY <1>1, <2>5, <3>1, <3>3 DEF ExitCodeTrue, ExitSuccess, ExitTargetFailure,
                              ExitPartialSuccess, ExitIOError, ExitCancelled
  <2>6. CASE ~outputErr /\ FailureCount # 0 /\ SuccessCount # 0
    <3>1. exit' = ExitPartialSuccess
      BY <1>1, <2>6 DEF ExitCode
    <3>2. \E i, j \in Targets : Passed(slots[i]) /\ ~Passed(slots[j])
      BY <2>1, <2>6
    <3>3. (\E i, j \in Targets : Passed(slots[i]) /\ ~Passed(slots[j]))'
      BY <1>3, <3>2
    <3> QED BY <1>1, <2>1, <2>2, <2>6, <3>1, <3>3 DEF ExitCodeTrue, ExitSuccess, ExitTargetFailure,
                              ExitPartialSuccess, ExitIOError, ExitCancelled
  <2> QED BY <2>3, <2>4, <2>5, <2>6
<1> QED BY <1>2, <1>4, <1>5 DEF IInv

LEMMA InvStep == IInv /\ [CliNext]_cliVars => IInv'
<1> SUFFICES ASSUME IInv, [CliNext]_cliVars PROVE IInv'
  OBVIOUS
<1>1. CASE Start BY <1>1, StartStep
<1>2. CASE Parse BY <1>2, ParseStep
<1>3. CASE CreateLog BY <1>3, LogStep
<1>4. CASE \E i \in Targets : Probe(i) BY <1>4, ProbeStep
<1>5. CASE BatchEnds BY <1>5, BatchStep
<1>6. CASE Signal BY <1>6, SignalStep
<1>7. CASE CheckCancelled BY <1>7, CheckStep
<1>8. CASE Output BY <1>8, OutputStep
<1>9. CASE WriteCsv BY <1>9, CsvStep
<1>10. CASE Resolve BY <1>10, ResolveStep
<1>11. CASE UNCHANGED cliVars
  <2>1. UNCHANGED <<slots, stopped, returned, answer, args, main, outputErr, lost, report, exit>>
    BY <1>11 DEF cliVars, vars, mainVars
  <2>2. \A s : Whole(s)' <=> Whole(s)
    BY <2>1 DEF Whole
  <2>3. SlotsInv' /\ ExitInv' /\ OutputInv' /\ AnswerInv' /\ ReportInv'
    BY <2>1, <2>2 DEF IInv, SlotsInv, ExitInv, OutputInv, AnswerInv, ReportInv
  <2>4. ExitCodeTrue'
    BY <2>1 DEF IInv, ExitCodeTrue, Filled
  <2> QED BY <2>3, <2>4 DEF IInv
<1> QED BY <1>1, <1>2, <1>3, <1>4, <1>5, <1>6, <1>7, <1>8, <1>9, <1>10, <1>11
        DEF CliNext, MainStep, Exited

LEMMA InvCorrect == CliSpec => []IInv
BY InvInit, InvStep, PTL DEF CliSpec

-----------------------------------------------------------------------------
(* The theorems. *)

\* A reporter never gets the answer of a batch that was cut short (main.go:135-141): what
\* it shows or writes has one result for every target, in input order.
THEOREM ReportTheorem == CliSpec => []ReportIsComplete
<1>1. IInv => ReportIsComplete
  BY DEF IInv, ReportInv, Whole, ReportIsComplete
<1> QED BY <1>1, InvCorrect, PTL

\* The exit code agrees with the slots the probes filled, however many targets there are
\* and wherever a signal or a failed output falls.
THEOREM ExitTheorem == CliSpec => []ExitCodeTrue
<1>1. IInv => ExitCodeTrue
  BY DEF IInv
<1> QED BY <1>1, InvCorrect, PTL
=============================================================================
