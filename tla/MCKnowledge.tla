----------------------------- MODULE MCKnowledge -----------------------------
(* A format whose blank files are refused, and one whose are not. *)
EXTENDS Knowledge

MCFormats == {"txt", "pdf"}
=============================================================================
