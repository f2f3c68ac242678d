------------------------------ MODULE MCMt1959 ------------------------------
(* The bounds of the runs are given in the .cfg files. *)
EXTENDS Mt1959
=============================================================================
