--------------------------- MODULE MCRunDiagnostics ---------------------------
(* Small instances of the worker pool for TLC: the values are in the pool     *)
(* configurations. What a probe finds is a model value; no action tells two of *)
(* them apart.                                                               *)
EXTENDS RunDiagnostics
=============================================================================
