----------------------------- MODULE MCServices ------------------------------
(***************************************************************************)
(* The services with one mission of at most two steps and the calls that   *)
(* can conflict on it, and with an artifact that is another user's.        *)
(***************************************************************************)
EXTENDS Services, TLC

CONSTANT foreign

Update(via, status, steps, other) ==
    [op |-> "update", via |-> via, body |-> [status |-> status, steps |-> steps, other |-> other]]

Create(via, status, steps) ==
    [op |-> "create", via |-> via, body |-> [status |-> status, steps |-> steps, other |-> "field"]]

SlotSymmetry == Permutations(Requests) \cup Permutations(ShellCalls)

MCCalls ==
    { Create("rest", "draft", <<>>), Create("tool", "active", <<FALSE, FALSE>>),
      Update("rest", "archived", Null, "none"), Update("tool", "archived", Null, "field"),
      Update("rest", "active", Null, "empty"), Update("tool", Null, <<TRUE, FALSE>>, "none"),
      [op |-> "toggle", via |-> "rest", index |-> 1], [op |-> "toggle", via |-> "tool", index |-> 2],
      [op |-> "complete", via |-> "tool"], [op |-> "delete", via |-> "rest"] }

MCOwner == [i \in Artifacts |-> IF i = foreign THEN "u2" ELSE "u1"]
=============================================================================
