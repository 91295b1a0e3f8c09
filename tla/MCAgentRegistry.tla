--------------------------- MODULE MCAgentRegistry ---------------------------
(* AgentRegistry for TLC: handlers and ids are interchangeable.             *)
EXTENDS AgentRegistry, TLC

Interchangeable == Permutations(Handlers) \union Permutations(Ids)

=============================================================================
