---------------------------- MODULE MCMcpResources ----------------------------
(* McpResources for TLC: texts of up to two tokens, well formed or not, and some *)
(* longer ones for what takes more: variables that come twice, values between   *)
(* two literals, names with a dot, calls with more than one item.               *)
EXTENDS McpResources

MCChars == {"a", "b", ".", "/", "{", "}"}
MCNameChars == {"a", "b", "."}

A == <<"{", "a", "}">>
B == <<"{", "b", "}">>
S == <<"/">>

Tokens == {A, B, S, <<"a">>, <<"{">>, <<"}">>}

Longer == {A \o S \o A, A \o S \o B, S \o A \o S \o A, A \o S \o B \o S, S \o A \o <<"a">> \o B,
           A \o <<"}">> \o B, <<"{", ".", "a", "}">>, <<"{", "a", ".", "}">>,
           A \o <<"{", "a">>}

Texts == {<<>>} \cup Tokens \cup {s \o t : s, t \in Tokens} \cup Longer

MCBatches == {<<t>> : t \in Texts} \cup {<<S \o A, A \o B>>, <<S, A \o S>>, <<A \o B, S>>, <<S, A \o B, A \o S>>}

MCValues == SeqOf({"a", "b"}, 2)
MCUris == SeqOf({"a", "b", "/"}, 3) \cup {<<"/", x, "/", y>> : x, y \in {"a", "b"}}
MCResources == {<<"/", "b">>}
=============================================================================
