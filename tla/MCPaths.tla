------------------------------- MODULE MCPaths -------------------------------
(* Two paths with any content, a loader, a renamed path, a hidden one and a  *)
(* passthrough.                                                             *)
EXTENDS Paths

Used == {"a", "b", "c", "ld", "dev", "h"}

NoFile == [kind |-> "none"]
Junk == [kind |-> "junk"]
Locked == [kind |-> "locked"]
Bytes == [kind |-> "bytes"]
Abs(p) == [kind |-> "abs", to |-> p]
Rel(p) == [kind |-> "rel", to |-> p]
Elf(p) == [kind |-> "elf", interp |-> p]
Script(p, n) == [kind |-> "script", interp |-> p, parts |-> n]

Files == {NoFile, Junk, Locked, Bytes, Elf(""), Elf("ld"), Script("b", 3)}
Trees ==
    {[a |-> x, b |-> y, c |-> NoFile, ld |-> z, dev |-> NoFile, h |-> Junk] :
        x \in {Abs("a"), Abs("b"), Abs("c"), Abs("h"), Rel("b"), Script("a", 1), Script("b", 2)} \union Files,
        y \in {Abs("a"), Abs("dev"), Rel("a"), Rel("ld"), Script("a", 1), Script("ld", 2)} \union Files,
        z \in {NoFile, Elf(""), Abs("dev")}}
Host == [a |-> Elf(""), b |-> Junk, c |-> Elf("ld"), ld |-> Elf(""), dev |-> Elf(""), h |-> Elf("")]
Hiding == {<<"root", "h">>}
Renaming == [t \in {<<"root", "c">>} |-> <<"root", "b">>]
=============================================================================
