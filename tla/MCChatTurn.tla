----------------------------- MODULE MCChatTurn -----------------------------
(***************************************************************************)
(* Two executor threads are interchangeable.  A turn of the WebSocket and  *)
(* a regeneration have the last message but one as their question.         *)
(***************************************************************************)
EXTENDS ChatTurn, TLC

WorkerSymmetry == Permutations(Workers)

MCEndpoints ==
    [m \in MessageIds |-> IF m = MaxMessages - 1 THEN TurnKind ELSE {"chat", "edit"}]
=============================================================================
