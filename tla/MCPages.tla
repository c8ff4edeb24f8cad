------------------------------- MODULE MCPages -------------------------------
(* The files that app/static has. *)
EXTENDS Pages

MCFiles == Paths \ {"vertical-resources"}
=============================================================================
