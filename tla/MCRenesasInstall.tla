-------------------------- MODULE MCRenesasInstall --------------------------
(* The bounds of the runs are given in the .cfg files. *)
EXTENDS RenesasInstall
=============================================================================
