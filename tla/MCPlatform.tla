----------------------------- MODULE MCPlatform ------------------------------
(***************************************************************************)
(* The platform with two users, two models and few of everything else.     *)
(***************************************************************************)
EXTENDS Platform, TLC

CONSTANTS u1, m1, m2, p1, p2

\* ModelSettings: the rows two users start from, a model of each provider, and
\* a name that is not registered.
Saves(name, params, openai, openrouter) ==
    [model |-> name, params |-> params,
     keys |-> [p \in Providers |-> IF p = "openai" THEN openai ELSE openrouter]]

CallSymmetry == Permutations(Calls)

MCSaved == [u \in Users |-> IF u = u1 THEN Saves("gpt-5", p1, "own", Null)
                            ELSE Saves("gpt-5", p2, "lost", "own")]

MCProviderOf == [m \in Hub |-> IF m = m1 THEN "openai" ELSE "openrouter"]

MCModelOf == [n \in {"gpt-5", "gpt-oss", "gpt-4o-mini"} |->
                 CASE n = "gpt-5" -> m1 [] n = "gpt-oss" -> m2 [] OTHER -> Null]

MCBodies == {[model |-> "gpt-oss"], [model |-> "gpt-4o-mini"]}

\* AgentMemory: both conversations are one user's.
MCOwner == [t \in Conversations |-> u1]

\* Accounts: both identities report the same e-mail.
MCEmailOf == [i \in Identities |-> CHOOSE e \in Emails : TRUE]

\* OsControl: a command that only reads, one that two patterns match, and any
\* other.
MCCommands == {[patterns |-> {}, reads |-> TRUE], [patterns |-> {3, 5}, reads |-> FALSE],
               [patterns |-> {}, reads |-> FALSE]}
=============================================================================
