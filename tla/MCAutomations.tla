--------------------------- MODULE MCAutomations ---------------------------
(* One automation that its user edits, and one beside it in the same pass. *)
EXTENDS Automations

CONSTANTS a1, a2

MCBodies == {[auto |-> a1, cron |-> 1, max |-> 2],
             [auto |-> a2, cron |-> 1, max |-> Null]}
=============================================================================
