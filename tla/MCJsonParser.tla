---------------------------- MODULE MCJsonParser -----------------------------
(***************************************************************************)
(* Every short text over the characters of the grammar, and long texts     *)
(* nested two deep.                                                        *)
(***************************************************************************)
EXTENDS JsonParser

\* Texts of up to n characters.
Texts(S, n) == UNION {[1..k -> S] : k \in 0..n}

Key == <<"quote", "1", "quote", ":">>

\* Arrays and objects of one value of V, or of one and another of U.
Nested(V, U) ==
    {<<"[">> \o v \o <<"]">> : v \in V}
    \cup {<<"{">> \o Key \o v \o <<"}">> : v \in V}
    \cup {<<"[">> \o v \o <<",", "space">> \o w \o <<"]">> : v \in V, w \in U}
    \cup {<<"{">> \o Key \o v \o <<",">> \o Key \o w \o <<"}">> : v \in V, w \in U}

Scalars == {<<"-", "1", ".", "1">>, <<"quote", "slash", "n", "quote">>}
Flat == Scalars \cup Nested(Scalars, Scalars)

MCInputs ==
    Texts({"[", "]", "{", "}", ",", "1", "space"}, 4)
    \cup Texts({"{", "}", "quote", ":", "1"}, 4)
    \cup Texts({"-", "1", ".", "e"}, 4)
    \cup Texts({"quote", "slash", "n", "u", "true", "wide"}, 4)
    \cup Flat \cup Nested(Flat, Scalars)
=============================================================================
