------------------------------ MODULE MCFuseInit ------------------------------
(* FuseInit for model checking: its constants are given in the .cfg files. *)
EXTENDS FuseInit
=============================================================================
