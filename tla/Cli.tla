--------------------------------- MODULE Cli ---------------------------------
(***************************************************************************)
(* main (cmd/tlstester/main.go:49-201): from the parsed flags to the exit    *)
(* code, around one batch.                                                 *)
(*                                                                         *)
(* The batch is Batch.tla, which RunDiagnostics.tla implements.  What it      *)
(* finds about a target is the error ExecuteTarget.tla ends with, "none" for  *)
(* a target that passed.  Files and streams are the environment: creating,   *)
(* writing and closing one may fail.  Once main has called NotifyContext a    *)
(* signal cancels the context and does nothing else; one that comes earlier   *)
(* kills the process before any code of main sees it and is left out.         *)
(***************************************************************************)
EXTENDS Batch

ASSUME OutcomesAssumption == Outcomes \subseteq {"none", "tcp", "config", "tls", "http"}

NoExit == -1            \* the process is still running

ExitSuccess        == 0
ExitTargetFailure  == 1
ExitUsageError     == 2
ExitIOError        == 3
ExitConfigError    == 4
ExitPartialSuccess == 5
ExitCancelled      == 130

Args == [mode: {"version", "diagnose", "run"},
         validTargets: BOOLEAN,   \* ParseTargets accepts the target flags
         validConfig: BOOLEAN,    \* CreateTLSConfig accepts -tls and -cipher
         export: BOOLEAN,         \* -export-cert
         log: BOOLEAN, json: BOOLEAN, csv: BOOLEAN]

VARIABLES
  args,        \* the flags
  main,        \* where main is
  outputErr,   \* the variable outputErr holds an error
  lost,        \* history: the outputs that could not be written in full
  report,      \* history: the slice handed to the reporters
  exit         \* the exit code

mainVars == <<args, main, outputErr, lost, report, exit>>
cliVars == <<vars, mainVars>>

CliInit == /\ Init
           /\ args \in Args
           /\ main = "start"
           /\ outputErr = FALSE
           /\ lost = {}
           /\ report = <<>>
           /\ exit = NoExit

-----------------------------------------------------------------------------
(* Up to the batch. *)

Exit(code) == main' = "exited" /\ exit' = code

\* Only the last of its writes can fail it: an error of another one is dropped.
DumpDiagnostics == \/ Exit(ExitSuccess) /\ lost' \in {{}, {"diagnostics"}}
                   \/ Exit(ExitIOError) /\ lost' = {"diagnostics"}

Start == /\ main = "start"
         /\ \/ args.mode = "version" /\ Exit(ExitSuccess) /\ UNCHANGED lost
            \/ args.mode = "diagnose" /\ DumpDiagnostics
            \/ args.mode = "run" /\ main' = "parse" /\ UNCHANGED <<exit, lost>>
         /\ UNCHANGED <<vars, args, outputErr, report>>

Parse == /\ main = "parse"
         /\ IF args.validTargets THEN main' = "log" /\ UNCHANGED exit ELSE Exit(ExitUsageError)
         /\ UNCHANGED <<vars, args, outputErr, lost, report>>

CreateLog == /\ main = "log"
             /\ \/ main' = "batch" /\ UNCHANGED <<exit, lost>>
                \/ args.log /\ Exit(ExitIOError) /\ lost' = {"log"}
             /\ UNCHANGED <<vars, args, outputErr, report>>

-----------------------------------------------------------------------------
(* The batch, and the signal that cancels it. *)

\* What a probe can find under the configuration in use: an invalid one is only
\* noticed by each target, after it was dialed.
Possible == IF args.validConfig THEN Outcomes \ {"config"} ELSE Outcomes \cap {"tcp", "config"}

\* A target's result arrives; a failed certificate export leaves no trace in it.
Probe(i) == /\ main = "batch"
            /\ Deliver(i)
            /\ slots'[i].outcome \in Possible
            /\ \/ UNCHANGED lost
               \/ /\ args.export /\ slots'[i].outcome \notin {"tcp", "config"}
                  /\ lost' = lost \cup {"certificates"}
            /\ UNCHANGED <<args, main, outputErr, report, exit>>

BatchEnds == /\ main = "batch"
             /\ Return
             /\ main' = "check"
             /\ UNCHANGED <<args, outputErr, lost, report, exit>>

Signal == /\ main \notin {"start", "parse", "exited"}
          /\ Stop
          /\ UNCHANGED mainVars

-----------------------------------------------------------------------------
(* After the batch. *)

\* Mutants: no look at ctx.Err(); a wait where the exit should be.
CheckNothing == /\ main = "check"
                /\ main' = "output"
                /\ UNCHANGED <<vars, args, outputErr, lost, report, exit>>

CheckAndWait == /\ main = "check"
                /\ main' = IF stopped THEN "check" ELSE "output"
                /\ UNCHANGED <<vars, args, outputErr, lost, report, exit>>

\* The one look at ctx.Err(), after which a signal is not noticed any more.
CheckCancelled == /\ main = "check"
                  /\ IF stopped THEN Exit(ExitCancelled) ELSE main' = "output" /\ UNCHANGED exit
                  /\ UNCHANGED <<vars, args, outputErr, lost, report>>

\* A JSON write error is kept; the dashboard ignores the ones it meets.
Output == /\ main = "output"
          /\ report' = answer
          /\ \/ UNCHANGED <<outputErr, lost>>
             \/ args.json /\ outputErr' = TRUE /\ lost' = lost \cup {"json"}
             \/ /\ ~args.json
                /\ lost' = lost \cup {"dashboard"} \cup (IF args.log THEN {"log"} ELSE {})
                /\ UNCHANGED outputErr
          /\ main' = IF args.csv THEN "csv" ELSE "resolve"
          /\ UNCHANGED <<vars, args, exit>>

\* Mutant: the error of a write is printed and not kept.
WriteCsvForgets == /\ main = "csv"
                   /\ \/ Exit(ExitIOError) /\ lost' = lost \cup {"csv"}
                      \/ /\ main' = "resolve" /\ UNCHANGED exit
                         /\ lost' \in {lost, lost \cup {"csv"}}
                   /\ UNCHANGED <<vars, args, outputErr, report>>

\* The CSV file is created, written and closed.  The first failure ends main, the
\* second is kept; the third, which may lose what was written, is only printed.
WriteCsv == /\ main = "csv"
            /\ \/ main' = "resolve" /\ UNCHANGED <<outputErr, lost, exit>>
               \/ Exit(ExitIOError) /\ lost' = lost \cup {"csv"} /\ UNCHANGED outputErr
               \/ /\ main' = "resolve" /\ lost' = lost \cup {"csv"} /\ outputErr' = TRUE
                  /\ UNCHANGED exit
               \/ /\ main' = "resolve" /\ lost' = lost \cup {"csvClose"}
                  /\ UNCHANGED <<outputErr, exit>>
            /\ UNCHANGED <<vars, args, report>>

\* A result passes with TCPConnected, TLSHandshakeSuccess and no Error.  The
\* zero value of a slot has neither flag.
Passed(r) == r.outcome = "none"

SuccessCount == Cardinality({k \in DOMAIN answer : Passed(answer[k])})

FailureCount == Cardinality({k \in DOMAIN answer : ~Passed(answer[k])})

ExitCode == IF outputErr THEN ExitIOError
            ELSE IF FailureCount = 0 THEN ExitSuccess
            ELSE IF SuccessCount = 0 THEN ExitTargetFailure
            ELSE ExitPartialSuccess

Resolve == /\ main = "resolve"
           /\ Exit(ExitCode)
           /\ UNCHANGED <<vars, args, outputErr, lost, report>>

-----------------------------------------------------------------------------

MainStep == \/ Start \/ Parse \/ CreateLog
            \/ CheckCancelled \/ Output \/ WriteCsv \/ Resolve

Exited == main = "exited" /\ UNCHANGED cliVars

CliNext == \/ MainStep
           \/ \E i \in Targets : Probe(i)
           \/ BatchEnds
           \/ Signal
           \/ Exited

CliSpec == CliInit /\ [][CliNext]_cliVars

\* main runs on.  That a batch ends, cancelled or not, is not part of it.
CliFairSpec == CliSpec /\ WF_cliVars(MainStep)

-----------------------------------------------------------------------------
(* Properties. *)

\* What is shown and written is one result for every target, in input order: the
\* answer of a batch that was cut short never reaches a reporter.
ReportIsComplete == report # <<>> =>
                      /\ Len(report) = NumTargets
                      /\ \A i \in Targets : report[i] \in ResultOf(i)

\* The exit code of a run tells the truth about what the probes found
\* (README.md:68-74, main.go:12-19): it is the slots the probes filled that
\* decide, not the counters.  A cancelled run says 130 and nothing else.  Code 3
\* means that some output was lost, and JSON or CSV that could not be created or
\* written always gives it (main.go:150-169).
ExitCodeTrue ==
  args.mode = "run" =>
    /\ exit = ExitSuccess => \A i \in Targets : slots[i] # ZeroResult /\ Passed(slots[i])
    /\ exit = ExitTargetFailure => \A i \in Targets : slots[i] # ZeroResult /\ ~Passed(slots[i])
    /\ exit = ExitPartialSuccess => /\ Filled = Targets
                                    /\ \E i, j \in Targets : Passed(slots[i]) /\ ~Passed(slots[j])
    /\ exit = ExitIOError => lost # {}
    /\ exit # NoExit /\ lost \cap {"json", "csv"} # {} => exit = ExitIOError
    /\ exit = ExitCancelled => stopped /\ report = <<>>

\* The cancelled batch returns.  It does as long as every probe ends once it is
\* cancelled (RunDiagnostics.tla, ImplementsBatch), which the probe of a target
\* behind a silent proxy need not (TcpProbe.tla, CancelReturns).
CancelledBatchReturns == WF_cliVars(stopped /\ BatchEnds)

\* Then a batch interrupted before it returned ends the program with 130, whatever
\* it had found and whenever the signal came (main.go:142-145).
InterruptedExits130 ==
  CancelledBatchReturns => ((stopped /\ main = "batch") ~> (exit = ExitCancelled))

\* Every probe ends, and with them the batch.
ProbesEnd == WF_cliVars(BatchEnds) /\ \A i \in Targets : WF_cliVars(Probe(i))

\* Then the program ends, on every path through the outputs and their failures.
ProgramExits == ProbesEnd => <>(main = "exited")

\* "Invalid configuration (TLS version, cipher suite, truststore)" is exit code
\* 4 (main.go:17, README.md:72).
ConfigErrorExits4 == main = "exited" /\ args.mode = "run" /\ args.validTargets
                       /\ ~args.validConfig /\ ~stopped /\ lost = {} => exit = ExitConfigError
=============================================================================
