----------------------------- MODULE MCAgentRun -----------------------------
(* Threads whose rows are none, a turn without tools, a turn with two equal *)
(* results, and a turn that was interrupted after one.                      *)
EXTENDS AgentRun

CONSTANT found

Turn0(results, reply) == <<Human(0)>> \o results \o reply

MCPasts == {<<>>, Turn0(<<>>, <<AI(0, 1, 0)>>),
            Turn0(<<Tool(0, found), Tool(0, found)>>, <<AI(0, 1, 0)>>),
            Turn0(<<Tool(0, found)>>, <<>>)}

\* The client shows the texts of such a thread, and no tool results.
MCShown == {SelectSeq(p, LAMBDA m : m.kind # "tool") : p \in MCPasts}
=============================================================================
