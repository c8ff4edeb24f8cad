---------------------------- MODULE MCResources ----------------------------
(***************************************************************************)
(* The three shipped verticals, one of which may never answer, and two     *)
(* overlapping requests, which may name a vertical or a resource that does *)
(* not exist.                                                              *)
(***************************************************************************)
EXTENDS Resources

MCAsked == {"mobility", "internet", "payments"}
MCAskedNames == {"manifest", "rejection-guidance", "logs"}
MCDelaying == {"internet"}
=============================================================================
