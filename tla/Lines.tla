------------------------------- MODULE Lines -------------------------------
(***************************************************************************)
(* The text a trace line is made of, and what the printing helpers of      *)
(* alice-strace (util.c, syscall.c) may write.                             *)
(*                                                                         *)
(* A text is a sequence of tokens.  A printed number, name or quoted       *)
(* string is one value token ("v", or a tag such as "fd" or "size" where   *)
(* ALICE reads that very field back); the separator ", " is ",", the       *)
(* joiners "|" and " " inside one argument are "|", a "name=" prefix is    *)
(* "=", and brackets stand for themselves.  A C function that prints is    *)
(* the set of the texts it can print, one for every path through it        *)
(* (failed reads of tracee memory included), so calls in sequence are the  *)
(* concatenation of languages and an if or a switch is a union.            *)
(***************************************************************************)
EXTENDS Naturals, Sequences, FiniteSets, SequencesExt

(* Sequencing, and sequencing with ", " in between. *)
A ** B == {x \o y : x \in A, y \in B}
A ++ B == {x \o <<",">> \o y : x \in A, y \in B}

(* Arguments whose forms have nothing to do with each other: every form of *)
(* each of them, though not every combination.                             *)
Args(langs) ==
    LET Joined(texts) == FoldLeft(LAMBDA s, t : s \o <<",">> \o t, Head(texts), Tail(texts))
        Usual(k)      == CHOOSE u \in langs[k] : TRUE
        Varying(k, x) == [i \in 1..Len(langs) |-> IF i = k THEN x ELSE Usual(i)]
    IN  UNION {{Joined(Varying(k, x)) : x \in langs[k]} : k \in 1..Len(langs)}

nothing == {<<>>}
v       == {<<"v">>}
sep     == {<<",">>}
bar     == {<<"|">>}
named   == {<<"=">>}

Opt(A)      == A \cup nothing
Curly(A)    == {<<"{">> \o x \o <<"}">> : x \in A}
Square(A)   == {<<"[">> \o x \o <<"]">> : x \in A}
Paren(A)    == {<<"(">> \o x \o <<")">> : x \in A}
Items(A)    == A \cup {x \o <<",">> \o x : x \in A}    \* one, or several alike
List(A)     == nothing \cup Items(A)
Vals(n)     == {[i \in 1..(2 * n - 1) |-> IF i % 2 = 1 THEN "v" ELSE ","]}

(* A list of items read one at a time: the read of an item may fail, which *)
(* prints "?" in its place and stops.                                      *)
Reading(A)  == Items(A) \cup v \cup (A ++ v)

(***************************************************************************)
(* One decoded call: what the decoder prints on entry (in) and on exit     *)
(* (out) with the outcome err; none is RVAL_NONE; aux is the text of       *)
(* auxstr if the decoder returns RVAL_STR with one (<<>> otherwise); dump  *)
(* is what the call appends to the byte dump on entry: nothing, the        *)
(* number of bytes a tag of the text names, or "abort" for a failed        *)
(* assertion; s0 marks texts printed only under -s 0 (alice-record).       *)
(***************************************************************************)
Call(E, Ok, Fail) ==
    [in : E, out : Ok, err : {FALSE}, none : {FALSE}, aux : nothing,
     dump : {"none"}, s0 : {FALSE}]
    \cup
    [in : E, out : Fail, err : {TRUE}, none : {FALSE}, aux : nothing,
     dump : {"none"}, s0 : {FALSE}]

Both(E, X)      == Call(E, X, X)
Entry(E)        == Call(E, nothing, nothing)
Exit(Ok, Fail)  == Call(nothing, Ok, Fail)

(* Successful calls whose result is explained by one of the texts A. *)
Explained(A, C) ==
    {IF c.err THEN c ELSE [c EXCEPT !.aux = a] : c \in C, a \in A}
NoValue(C)      == {[c EXCEPT !.none = TRUE] : c \in C}
Dumping(d, C)   == {[c EXCEPT !.dump = d] : c \in C}
UnderS0(C)      == {[c EXCEPT !.s0 = TRUE] : c \in C}
Succeeding(C)   == {c \in C : ~c.err}
(* More text printed on entry after what C prints. *)
ThenIn(C, T)    == {[c EXCEPT !.in = @ \o t] : c \in C, t \in T}

-----------------------------------------------------------------------------
(* The shape of an argument list.                                          *)

Open  == {"{", "[", "("}
Close == [o \in Open |-> CASE o = "{" -> "}" [] o = "[" -> "]" [] o = "(" -> ")"]

(* Reading a text left to right: the open brackets, and whether a value    *)
(* must come next, may come next, or has just been read.  A value may be   *)
(* the name of a function of what follows in parentheses.                  *)
Step(st, t) ==
    CASE st.at = "bad" -> st
      [] t \in Open /\ (st.at # "after" \/ t = "(") ->
            [open |-> Append(st.open, t), at |-> "start"]
      [] t \in {"}", "]", ")"} ->
            IF st.open # <<>> /\ Close[Last(st.open)] = t /\ st.at # "need"
            THEN [open |-> Front(st.open), at |-> "after"]
            ELSE [st EXCEPT !.at = "bad"]
      [] t \in {",", "|"} ->
            [st EXCEPT !.at = IF @ = "after" THEN "need" ELSE "bad"]
      [] t = "=" ->
            [st EXCEPT !.at = IF @ \in {"start", "need"} THEN "need" ELSE "bad"]
      [] t \in Open -> [st EXCEPT !.at = "bad"]
      [] OTHER ->
            [st EXCEPT !.at = IF @ \in {"start", "need"} THEN "after" ELSE "bad"]

Read(text) == FoldLeft(Step, [open |-> <<>>, at |-> "start"], text)

(* A list of arguments: every bracket closed by its own, a separator       *)
(* between any two values and none elsewhere.                              *)
WellFormed(text) ==
    LET end == Read(text)
    IN  end.open = <<>> /\ end.at \in {"start", "after"}

(* parse_line splits the argument text at every comma, brackets or not.    *)
Commas(text)   == {i \in 1..Len(text) : text[i] = ","}
FieldCount(text) == Cardinality(Commas(text)) + 1
Field(text, k) ==
    LET cut(n) == CHOOSE i \in Commas(text) : Cardinality({j \in Commas(text) : j <= i}) = n
        from == IF k = 1 THEN 1 ELSE cut(k - 1) + 1
        to   == IF k = FieldCount(text) THEN Len(text) ELSE cut(k) - 1
    IN  SubSeq(text, from, to)

-----------------------------------------------------------------------------
(* The helpers of util.c.                                                  *)

(* A table of flags is told apart only by whether its first entry has the  *)
(* value 0: printflags names that entry when no flag is set.               *)
HasZero == TRUE
NoZero  == FALSE

printxval == v

(* The names of the set flags; without a zero entry, "0" for no flags,     *)
(* or nothing at all when the caller gives no default text.                *)
printflags(xlat, dflt) ==
    v \cup (v ** bar ** v) \cup (IF ~xlat /\ ~dflt THEN nothing ELSE {})

sprintflags(prefix) == prefix ** (v \cup (v ** bar ** v))
addflags   == Opt(bar ** v)
printllval == v
printnum   == v \cup Square(v)
printnum_int == v \cup Square(v)
printfd    == {<<"fd">>}
printuid   == v
printpathn == {<<"path">>}
printpath  == printpathn
printstr   == v

(* The helpers of syscall.c: n raw arguments. *)
printargs(n)    == Entry(IF n = 0 THEN nothing ELSE Vals(n))
printargs_lu(n) == printargs(n)
printargs_ld(n) == printargs(n)
=============================================================================
