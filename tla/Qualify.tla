------------------------------ MODULE Qualify ------------------------------
(***************************************************************************)
(* The option -e: qualify and its helpers (syscall.c) keep one bit vector  *)
(* per personality, indexed alike by call numbers, signals and             *)
(* descriptors, which grows when an option names a number beyond its end.  *)
(***************************************************************************)
EXTENDS Integers, Sequences, FiniteSets, SequencesExt

CONSTANTS MIN_QUALS,    \* the entries allocated at first
          MaxDesc,      \* 32767: the largest descriptor that may be named
          MaxOptions    \* bound: options in a command line

VARIABLE quals
(* quals.vec[p] is the vector of personality p, a sequence of sets of      *)
(* bits; quals.given (not in the code) remembers the last option of a bit, *)
(* quals.wide the length of the vectors when it was given.                 *)

Pers == 0..1
Bits == {"TRACE", "SIGNAL", "READ"}
nsyscalls == <<2, 3>>
MAX_NSYSCALLS == 3
MAX_SIGNO == 3

ASSUME QualifyAssumption ==
    /\ MIN_QUALS \in Nat /\ MIN_QUALS >= MAX_NSYSCALLS /\ MIN_QUALS >= MAX_SIGNO
    /\ MaxDesc \in Nat /\ MaxDesc >= MIN_QUALS /\ MaxOptions \in Nat

(* The names and classes of the calls of the two tables: a name need not   *)
(* have the same number in both.                                           *)
sys_name  == <<<<"open", "getpid">>, <<"getpid", "open", "close">>>>
sys_class == <<<<"file", "">>, <<"", "file", "desc">>>>
lookup_class == {"file", "desc"}
signames == <<"HUP", "INT", "QUIT">>

-----------------------------------------------------------------------------
reallocate_qual(vec, n) ==
    [p \in Pers |-> vec[p] \o [i \in 1..(n - Len(vec[p])) |-> {}]]

(* Mutant: the entry for the last number is not allocated for. *)
qualify_one_short(vec, n, bit, neg, ps) ==
    IF Len(vec[0]) <= n THEN reallocate_qual(vec, n)
    ELSE [p \in Pers |-> IF p \in ps
                         THEN [vec[p] EXCEPT ![n + 1] = IF neg THEN @ \ {bit} ELSE @ \cup {bit}]
                         ELSE vec[p]]
qualify_one(vec, n, bit, neg, ps) ==
    LET v == IF Len(vec[0]) <= n THEN reallocate_qual(vec, n + 1) ELSE vec
    IN  [p \in Pers |-> IF p \in ps
                        THEN [v[p] EXCEPT ![n + 1] = IF neg THEN @ \ {bit} ELSE @ \cup {bit}]
                        ELSE v[p]]
qualify_many(vec, ns, bit, neg, ps) ==
    FoldSet(LAMBDA n, w : qualify_one(w, n, bit, neg, ps), vec, ns)

(* What an item selects in each personality; refused for one that is not   *)
(* valid.  A number is of all personalities, a name of those that have it, *)
(* under the number it has there.                                          *)
Number(n) == [number |-> n, name |-> ""]
Name(s)   == [number |-> -1, name |-> s]
refused   == [p \in Pers |-> {-1}]
everywhere(n) == [p \in Pers |-> {n}]
qual_syscall(s) ==
    IF s.number >= 0 THEN IF s.number < MAX_NSYSCALLS THEN everywhere(s.number) ELSE refused
    ELSE LET ns == [p \in Pers |-> {i - 1 : i \in {j \in 1..nsyscalls[p + 1] : sys_name[p + 1][j] = s.name}}]
         IN  IF \A p \in Pers : ns[p] = {} THEN refused ELSE ns
qual_class(s) ==
    [p \in Pers |-> {i - 1 : i \in {j \in 1..nsyscalls[p + 1] : sys_class[p + 1][j] = s.name}}]
qual_signal(s) ==
    IF s.number >= 0 THEN IF s.number <= MAX_SIGNO THEN everywhere(s.number) ELSE refused
    ELSE IF \E i \in 1..Len(signames) : signames[i] = s.name
    THEN everywhere(CHOOSE i \in 1..Len(signames) : signames[i] = s.name) ELSE refused
qual_desc(s) ==
    IF s.number \in 0..MaxDesc THEN everywhere(s.number) ELSE refused

Selected(bit, s) ==
    CASE bit = "TRACE" -> IF s.name \in lookup_class THEN qual_class(s) ELSE qual_syscall(s)
      [] bit = "SIGNAL" -> qual_signal(s)
      [] bit = "READ" -> qual_desc(s)

(* One option: "all" (neg for "none" and "!all"), or a list of items, with *)
(* "!" (neg) or without.  A list first sets all the bits to the opposite.  *)
qualify(bit, neg, items) ==
    LET width == Len(quals.vec[0])
        every == 0..width - 1
    IN  /\ quals.pc = "options" /\ quals.n < MaxOptions
        /\ IF \E i \in 1..Len(items) : Selected(bit, items[i]) = refused
           THEN quals' = [quals EXCEPT !.pc = "die"]
           ELSE quals' = [quals EXCEPT
                   !.n = @ + 1,
                   !.vec = FoldLeft(LAMBDA w, s : LET sel == Selected(bit, s)
                                                  IN  qualify_many(qualify_many(w, sel[0], bit, neg, {0}),
                                                                   sel[1], bit, neg, {1}),
                                    qualify_many(@, every, bit, ~neg, Pers), items),
                   !.given[bit] = [neg |-> neg, items |-> items], !.wide[bit] = width]
qualify_all(bit, neg) ==
    /\ quals.pc = "options" /\ quals.n < MaxOptions
    /\ quals' = [quals EXCEPT
          !.n = @ + 1,
          !.vec = qualify_many(@, 0..Len(quals.vec[0]) - 1, bit, neg, Pers),
          !.given[bit] = [neg |-> ~neg, items |-> <<>>], !.wide[bit] = Len(quals.vec[0])]

-----------------------------------------------------------------------------
Fresh == [p \in Pers |-> [i \in 1..MIN_QUALS |-> {}]]
QualsAtRest ==
    quals = [pc |-> "none", n |-> 0, vec |-> Fresh,
             given |-> [b \in Bits |-> [neg |-> FALSE, items |-> <<>>]],
             wide |-> [b \in Bits |-> 0]]
(* init begins with trace=all and signal=all. *)
QualsInit ==
    quals = [pc |-> "options", n |-> 0,
             vec |-> [p \in Pers |-> [i \in 1..MIN_QUALS |-> {"TRACE", "SIGNAL"}]],
             given |-> [b \in Bits |-> [neg |-> b # "READ", items |-> <<>>]],
             wide |-> [b \in Bits |-> MIN_QUALS]]

QualItems == [TRACE |-> {Name("open"), Name("close"), Name("file"), Name("lseek"), Number(0), Number(MAX_NSYSCALLS)},
              SIGNAL |-> {Name("INT"), Number(MAX_SIGNO)},
              READ |-> {Number(1), Number(MIN_QUALS), Number(MaxDesc)}]
QualsNext ==
    /\ quals.pc = "options" /\ quals.n < MaxOptions
    /\ \/ \E bit \in Bits, neg \in BOOLEAN : \E s, t \in QualItems[bit] : qualify(bit, neg, <<s, t>>)
       \/ \E bit \in Bits, neg \in BOOLEAN : qualify_all(bit, neg)

QualsSpec == QualsInit /\ [][QualsNext]_quals

-----------------------------------------------------------------------------
(* Whatever options came before and however the vectors have grown since,  *)
(* a bit is set for exactly the numbers that the last option of its kind   *)
(* says, in the personalities it says; but "all", "none" and "!" reach no  *)
(* further than the vectors did when the option was given: a descriptor    *)
(* beyond is not dumped with -e read=all.                                  *)
QualifiedExactly ==
    quals.pc = "options" =>
        \A b \in Bits, p \in Pers : \A i \in 1..Len(quals.vec[p]) :
            LET g == quals.given[b]
                named == \E k \in 1..Len(g.items) : i - 1 \in Selected(b, g.items[k])[p]
            IN  b \in quals.vec[p][i] <=>
                    IF i <= quals.wide[b] THEN (named # g.neg) ELSE (named /\ ~g.neg)
=============================================================================
