------------------------------ MODULE MCDirents ------------------------------
(* Names of up to three words, one hidden, one renamed to a longer one and *)
(* one to a name that more than doubles its record.                        *)
EXTENDS Dirents

Files == {"a", "bb", "ccc", "h", "r", "s"}
Words == [a |-> 0, bb |-> 1, ccc |-> 3, h |-> 1, r |-> 0, s |-> 0]
BodyOf == [n \in Files |-> Words[n]]
Full == {"bb", "h"}
Rename == [n \in Files |-> CASE n = "r" -> "bb" [] n = "s" -> "ccc" [] OTHER -> n]

\* Every order of some of the files.
Listings == UNION {{s \in [1..k -> Files] : IsInjective(s)} : k \in 0..4}
=============================================================================
