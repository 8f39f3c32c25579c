----------------------------- MODULE MCAdmission -----------------------------
(***************************************************************************)
(* A small instance of Admission: fewer permits and connections than       *)
(* requests, and a thread for each.                                        *)
(***************************************************************************)
EXTENDS Admission
=============================================================================
