------------------------------ MODULE MCJobQueue ------------------------------
(* Small instances of JobQueue for TLC: jobs and instances are model values. *)
EXTENDS JobQueue

=============================================================================
