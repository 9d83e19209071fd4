------------------------------ MODULE MCMcpNotify ------------------------------
(* McpNotify for TLC: the values of its constants are in McpNotify.cfg.      *)
EXTENDS McpNotify

\* Sessions, resources and requests are interchangeable.
Symmetry == Permutations(Clients) \cup Permutations(Uris) \cup Permutations(Requests)
=============================================================================
