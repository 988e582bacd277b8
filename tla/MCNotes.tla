------------------------------ MODULE MCNotes ------------------------------
(***************************************************************************)
(* Two notes, of which one may be linked from the other by its title, and  *)
(* two audio overviews.                                                    *)
(***************************************************************************)
EXTENDS NotesAndAudio

CONSTANTS n1, n2, u

MCContents == {"", "url", "both"}
MCLinksOf == [c \in MCContents |-> CASE c = "" -> {} [] c = "url" -> {u} [] c = "both" -> {u, n2}]

Create(via, titled, content) ==
    [op |-> "create", via |-> via, titled |-> titled, content |-> content]

Update(via, titled, content, pinned) ==
    [op |-> "update", via |-> via, titled |-> titled, content |-> content, pinned |-> pinned]

MCCalls ==
    { Create("rest", TRUE, "both"), Create("tool", FALSE, "url"),
      Update("rest", Null, "both", Null), Update("rest", FALSE, "", TRUE),
      Update("rest", TRUE, Null, Null), Update("tool", Null, "url", TRUE),
      Update("tool", TRUE, Null, TRUE),
      [op |-> "toggle"], [op |-> "delete"] }
=============================================================================
