----------------------------- MODULE JsonParser ------------------------------
(***************************************************************************)
(* The parser of krsm/examples/json_parser.rs: a grammar written as async  *)
(* functions that wait for a character at an offset, run on the krsm       *)
(* runtime, and the loop run_parser that looks at the pending reasons to   *)
(* decide which future the next character belongs to.  A future is the     *)
(* term still to be matched; what it returns is abstracted to the          *)
(* characters it has taken.  true, false and null are one character each,  *)
(* and "wide" is one of several bytes.                                     *)
(***************************************************************************)
EXTENDS KrsmTable, FiniteSetsExt

CONSTANTS
    Inputs,     \* the texts to parse: sequences of characters
    MaxLength   \* none is longer

ASSUME JsonAssumption == \A s \in Inputs : Len(s) <= MaxLength

VARIABLES
    input,      \* full_str
    index,      \* next character; parser.offset is the same at every poll
    future,     \* the future of parse()
    table,      \* pending_futures of the runtime
    unblock,    \* reason of has_unblock, or 0
    reply,      \* response of has_unblock
    phase,      \* "step": run_async_step is next; "yielded"; "done"
    outcome,    \* result of run_parser
    text        \* what the finished future has taken

vars == <<input, index, future, table, unblock, reply, phase, outcome, text>>

-----------------------------------------------------------------------------
(* JsonParserYieldReason. *)

\* The variants with an offset, in the order of their declaration.
Kinds == <<"[", "]", "{", "}", "stringStart", "stringEnd", ":", ",", ".",
           "true", "false", "null", "slash", "u", "any", "escaped", "exponent",
           "hex", "digit", "sign", "space">>

Stride == MaxLength + 1
EmptyString == Len(Kinds) * Stride + 1

\* The derived Ord: by variant, then by offset.
Reason(kind, offset) ==
    IF kind = "empty" THEN EmptyString
    ELSE ((CHOOSE k \in DOMAIN Kinds : Kinds[k] = kind) - 1) * Stride + offset + 1
KindOf(r) == Kinds[((r - 1) \div Stride) + 1]
OffsetOf(r) == (r - 1) % Stride

\* Does character c satisfy a reason of this kind?
Satisfies(kind, c) ==
    CASE kind \in {"stringStart", "stringEnd"} -> c = "quote"
      [] kind = "any"      -> c \notin {"quote", "slash"}
      [] kind = "escaped"  -> c \in {"quote", "slash", "n"}
      [] kind = "exponent" -> c = "e"
      [] kind = "hex"      -> c \in {"1", "e"}
      [] kind = "digit"    -> c = "1"
      [] kind = "sign"     -> c = "-"
      [] OTHER             -> c = kind

-----------------------------------------------------------------------------
(* The grammar.  W awaits new_pending_future at the offset of the moment   *)
(* (parse_character adds the characters taken since to its first offset,   *)
(* which is the same), Or is futures_lite::future::or, Call an await of    *)
(* another parse function, Seq one await after the other.                  *)

W(kind) == [op |-> "wait", kind |-> kind]
Or(a, b) == [op |-> "or", left |-> a, right |-> b]
Seq2(ts) == [op |-> "seq", got |-> <<>>, terms |-> ts]
Call(name) == [op |-> "call", name |-> name]

ParseValue ==
    Or(Or(Call("object"), Or(Call("array"), Call("string"))),
       Or(Call("number"), Or(Call("boolean"), Call("null"))))
ParseObject == Seq2(<<W("{"), Or(Call("members"), Call("whitespaces")), W("}")>>)
ParseMembers ==
    Seq2(<<Call("member"), Or(Seq2(<<W(","), Call("members")>>), W("empty"))>>)
ParseMember ==
    Seq2(<<Call("whitespaces"), Call("string"), Call("whitespaces"), W(":"),
          Call("element")>>)
ParseArray == Seq2(<<W("["), Or(Call("elements"), Call("whitespaces")), W("]")>>)
ParseElements ==
    Seq2(<<Call("element"), Or(Seq2(<<W(","), Call("elements")>>), W("empty"))>>)
ParseElement == Seq2(<<Call("whitespaces"), Call("value"), Call("whitespaces")>>)
ParseString == Seq2(<<W("stringStart"), Call("characters"), W("stringEnd")>>)
ParseCharacters == Or(Seq2(<<Call("character"), Call("characters")>>), W("empty"))
ParseCharacter ==
    Or(W("any"),
       Or(Seq2(<<W("slash"), W("escaped")>>),
          Seq2(<<W("slash"), W("u"), W("hex"), W("hex"), W("hex"), W("hex")>>)))
ParseNumber == Seq2(<<Call("integer"), Call("fraction"), Call("exponent")>>)
ParseInteger == Seq2(<<Or(W("sign"), W("empty")), Call("digits")>>)
ParseDigits == Seq2(<<W("digit"), Or(Call("digits"), W("empty"))>>)
ParseFraction == Or(Seq2(<<W("."), Call("digits")>>), W("empty"))
ParseExponent == Or(Seq2(<<W("exponent"), Call("digits")>>), W("empty"))
ParseWhitespaces == Or(Seq2(<<W("space"), Call("whitespaces")>>), W("empty"))
ParseBoolean == Or(W("true"), W("false"))
ParseNull == W("null")

Body ==
    [value |-> ParseValue, object |-> ParseObject, members |-> ParseMembers,
     member |-> ParseMember, array |-> ParseArray, elements |-> ParseElements,
     element |-> ParseElement, string |-> ParseString,
     characters |-> ParseCharacters, character |-> ParseCharacter,
     number |-> ParseNumber, integer |-> ParseInteger, digits |-> ParseDigits,
     fraction |-> ParseFraction, exponent |-> ParseExponent,
     whitespaces |-> ParseWhitespaces, boolean |-> ParseBoolean, null |-> ParseNull]

\* What a character contributes to the value: white space returns ().
Taken(kind, c) == IF kind = "space" THEN <<>> ELSE <<c>>

\* What the comments of the parse functions promise: the parts of s from position
\* i on that the term derives, as their end and the value they stand for.
RECURSIVE Derivations(_, _, _)
Derivations(t, s, i) ==
    CASE t.op = "wait" -> IF t.kind = "empty" THEN {[end |-> i, value |-> <<>>]}
                          ELSE IF i < Len(s) /\ Satisfies(t.kind, s[i + 1])
                          THEN {[end |-> i + 1, value |-> Taken(t.kind, s[i + 1])]}
                          ELSE {}
      [] t.op = "or"   -> Derivations(t.left, s, i) \cup Derivations(t.right, s, i)
      [] t.op = "call" -> Derivations(Body[t.name], s, i)
      [] t.op = "seq"  ->
            IF t.terms = <<>> THEN {[end |-> i, value |-> t.got]}
            ELSE UNION {Derivations([t EXCEPT !.terms = Tail(@), !.got = @ \o d.value],
                                    s, d.end) : d \in Derivations(Head(t.terms), s, i)}

\* The values of the whole text.
Values(s) == {d.value : d \in {e \in Derivations(ParseElement, s, 0) : e.end = Len(s)}}

-----------------------------------------------------------------------------
(* One poll.  rt holds what the runtime keeps: its table and the response. *)

\* What a poll comes back with: the rest of the future, or what it has taken.
Pending(t, rt) == [status |-> "pending", rest |-> t, got |-> <<>>, rt |-> rt]
Ready(got, rt) == [status |-> "ready", rest |-> W("empty"), got |-> got, rt |-> rt]
Failed(rt) == [status |-> "failed", rest |-> W("empty"), got |-> <<>>, rt |-> rt]

\* FutureDropGuard of every registered future of a dropped term.
RECURSIVE Dropped(_, _)
Dropped(t, rt) ==
    CASE t.op = "pending" -> [rt EXCEPT !.table = Remove(@, t.reason)]
      [] t.op = "or"      -> Dropped(t.right, Dropped(t.left, rt))
      [] t.op = "seq"     -> Dropped(Head(t.terms), rt)
      [] OTHER            -> rt

\* A registered future takes the response of its reason, and its guard is dropped.
PollPending(r, rt) ==
    IF rt.unblock = r
    THEN Ready(rt.reply, [rt EXCEPT !.table = Remove(@, r), !.unblock = 0])
    ELSE Pending([op |-> "pending", reason |-> r], rt)

PollNew(r, rt) ==
    IF Refuses(rt.table, r) THEN Failed(rt)
    ELSE PollPending(r, [rt EXCEPT !.table = Insert(@, r)])

\* The branch `other` is dropped when the one polled is over.
OrOver(p, other) == [p EXCEPT !.rt = Dropped(other, @)]

\* An await that is over ends its function, on an error or as the last one.
SeqOver(p, got) == [p EXCEPT !.got = got \o @]

\* The one result of a poll, as a set.  or() polls its left branch first.
RECURSIVE Poll(_, _, _)
Poll(t, rt, offset) ==
    CASE t.op = "wait"    -> {PollNew(r, rt) : r \in {Reason(t.kind, offset)}}
      [] t.op = "pending" -> {PollPending(t.reason, rt)}
      [] t.op = "call"    -> Poll(Body[t.name], rt, offset)
      [] t.op = "or" ->
            UNION {IF p.status # "pending" THEN {OrOver(p, t.right)}
                   ELSE {IF q.status # "pending" THEN OrOver(q, p.rest)
                         ELSE Pending(Or(p.rest, q.rest), q.rt) :
                            q \in Poll(t.right, p.rt, offset)} :
                      p \in Poll(t.left, rt, offset)}
      [] t.op = "seq" ->
            UNION {IF p.status = "pending"
                   THEN {Pending([t EXCEPT !.terms[1] = p.rest], p.rt)}
                   ELSE IF p.status = "failed" \/ Len(t.terms) = 1
                   THEN {SeqOver(p, t.got)}
                   ELSE Poll([t EXCEPT !.got = @ \o p.got, !.terms = Tail(@)],
                             p.rt, offset) :
                      p \in Poll(Head(t.terms), rt, offset)}

-----------------------------------------------------------------------------
(* run_parser. *)

Init ==
    /\ input \in Inputs /\ index = 0
    /\ future = ParseElement
    /\ table = [i \in Slots |-> None] /\ unblock = 0 /\ reply = <<>>
    /\ phase = "step" /\ outcome = "none" /\ text = <<>>

\* run_async_step: one poll, after which an untaken response is forgotten.
RunAsyncStep(tab, reason, response) ==
    \E p \in Poll(future, [table |-> tab, unblock |-> reason, reply |-> response],
                 index) :
        /\ future' = p.rest /\ table' = p.rt.table /\ unblock' = 0
        /\ text' = p.got
        /\ phase' = IF p.status = "pending" THEN "yielded" ELSE "done"
        /\ outcome' = IF p.status = "ready" THEN "ok"
                      ELSE IF p.status = "failed" THEN "internal error" ELSE "none"

Step ==
    /\ phase = "step"
    /\ RunAsyncStep(table, unblock, reply)
    /\ UNCHANGED <<input, index, reply>>

\* The reasons of this offset, and EmptyString, survive filter_valid_futures.  As a
\* slip: nothing is filtered.
ValidAll(reasons) == reasons

Valid(reasons) == {r \in reasons : r = EmptyString \/ OffsetOf(r) = index}

\* The reason to unblock: check_pending_reasons goes through the table in
\* descending order, and EmptyString comes last.  As a slip: it comes first.
ChoiceLazy(reasons) ==
    IF EmptyString \in reasons THEN EmptyString
    ELSE Max({r \in reasons : Satisfies(KindOf(r), input[index + 1])} \cup {0})

Choice(reasons) ==
    LET c == input[index + 1]
        normal == {r \in reasons \ {EmptyString} : Satisfies(KindOf(r), c)}
    IN IF normal # {} THEN Max(normal) ELSE EmptyString

\* A step yielded and there is a character left: filter, choose, unblock.
NextCharacter ==
    /\ phase = "yielded" /\ index < Len(input) /\ input[index + 1] # "wide"
    /\ \E t \in {Filter(table, Valid(PendingReasons(table)))} :
       \E r \in {Choice(PendingReasons(t))} :
          IF r \in PendingReasons(t)
          THEN /\ table' = Remove(t, r) /\ unblock' = r
               /\ reply' = IF r = EmptyString THEN <<>>
                         ELSE Taken(KindOf(r), input[index + 1])
               /\ index' = IF r = EmptyString THEN index ELSE index + 1
               /\ phase' = "step" /\ UNCHANGED outcome
          ELSE /\ table' = t /\ phase' = "done" /\ outcome' = "unexpected character"
               /\ UNCHANGED <<unblock, reply, index>>
    /\ UNCHANGED <<input, future, text>>

\* The slice of one byte panics within a character of several.
WideCharacter ==
    /\ phase = "yielded" /\ index < Len(input) /\ input[index + 1] = "wide"
    /\ phase' = "done" /\ outcome' = "panic"
    /\ UNCHANGED <<input, index, future, table, unblock, reply, text>>

\* A step yielded at the end of the text: every EmptyString is given out.
EndOfInput ==
    /\ phase = "yielded" /\ index >= Len(input)
    /\ IF EmptyString \in PendingReasons(table)
       THEN /\ RunAsyncStep(Remove(table, EmptyString), EmptyString, <<>>)
            /\ UNCHANGED <<input, index, reply>>
       ELSE /\ phase' = "done" /\ outcome' = "unexpected end"
            /\ UNCHANGED <<input, index, future, table, unblock, reply, text>>

Over == phase = "done" /\ UNCHANGED vars

Next == Step \/ NextCharacter \/ WideCharacter \/ EndOfInput \/ Over

Spec == Init /\ [][Next]_vars /\ WF_vars(Next)

-----------------------------------------------------------------------------
(* Properties. *)

\* Texts the parser is known to refuse although the grammar derives them: an empty
\* array, an escape with u, whose future never gets the slash it waits for, and a
\* character of several bytes.
Solid(s) == SelectSeq(s, LAMBDA c : c # "space")
Refused(s) ==
    \/ \E i \in 1..(Len(Solid(s)) - 1) :
         SubSeq(Solid(s), i, i + 1) \in {<<"[", "]">>, <<"slash", "u">>}
    \/ \E i \in 1..Len(s) : s[i] = "wide"

\* A text the BNF comments of the parse functions derive is accepted, and the value
\* holds the characters of a derivation, although run_parser commits to one future
\* per character and a response goes to whichever waiter is polled first: no branch
\* that should have won is starved, dropped or forgotten by the table.
Accepts ==
    (phase = "done" /\ Values(input) # {} /\ ~Refused(input)) =>
        outcome = "ok" /\ text \in Values(input)

\* run_parser's call of filter_valid_futures before every character keeps the
\* reasons that wait at once within MAX_PENDING however long and deep the text is:
\* no text ends with TooManyPending, even with 18 slots instead of the example's 1024.
NeverTooMany == outcome # "internal error"

\* Every text is accepted or refused in the end: an EmptyString is never offered
\* for ever to futures that no longer exist, neither in run_parser's main loop,
\* where it consumes no character, nor in the loop at the end of the text.
Terminates == <>(phase = "done")
=============================================================================
