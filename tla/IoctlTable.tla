---------------------------- MODULE IoctlTable ----------------------------
(***************************************************************************)
(* The names printed for an ioctl command: the table that ioctlsort makes  *)
(* when alice-strace is built, and ioctl_lookup and ioctl_next_match       *)
(* (ioctl.c), which find a command in it.                                  *)
(***************************************************************************)
EXTENDS Integers, Sequences, FiniteSets, SequencesExt

CONSTANTS Codes,       \* the number and type bits of commands
          Sizes,       \* their direction and size bits
          IoctlNames,  \* naturals: the order of the names
          MaxEntries   \* bound: definitions in the headers

ASSUME IoctlAssumption == Codes \cup Sizes \cup IoctlNames \subseteq Nat /\ MaxEntries \in Nat

VARIABLE ioc

(* A definition, and what is left of its code in the table. *)
Masked(d) == [code |-> d.code, name |-> d.name]

(* ioctlsort: by code and name, each pair once. *)
compare(a, b) == a.code < b.code \/ (a.code = b.code /\ a.name <= b.name)
ioctlsort_unsorted(defs) == [i \in 1..Len(defs) |-> Masked(defs[i])]     \* Mutant
ioctlsort(defs) == SetToSortSeq({Masked(defs[i]) : i \in 1..Len(defs)}, compare)

(* bsearch stops at any of the entries of a code; the index is 0 if there  *)
(* is none.  From there back to the first of them.                         *)
bsearch(code, table) ==
    LET found == {i \in 1..Len(table) : table[i].code = code}
    IN  IF found = {} THEN {0} ELSE found
ioctl_lookup(hit, table) ==
    IF hit = 0 THEN 0
    ELSE CHOOSE i \in 1..hit :
            /\ \A j \in i..hit : table[j].code = table[hit].code
            /\ i > 1 => table[i - 1].code # table[hit].code
ioctl_next_match(i, table) ==
    IF i + 1 <= Len(table) /\ table[i + 1].code = table[i].code THEN i + 1 ELSE 0

-----------------------------------------------------------------------------
(* A table is made of the definitions found in the headers. *)
Define(d) ==
    /\ ioc.pc = "headers" /\ Len(ioc.defs) < MaxEntries
    /\ ioc' = [ioc EXCEPT !.defs = Append(@, d)]
Build ==
    /\ ioc.pc = "headers"
    /\ ioc' = [ioc EXCEPT !.pc = "built", !.table = ioctlsort(ioc.defs)]

(* sys_ioctl: the first name, then " or " and the next as long as there    *)
(* is one; the number if there is none.                                    *)
LookUp(code, size) ==
    /\ ioc.pc = "built"
    /\ \E hit \in bsearch(code, ioc.table) :
          LET iop == ioctl_lookup(hit, ioc.table)
          IN  ioc' = [ioc EXCEPT !.pc = IF iop = 0 THEN "printed" ELSE "names", !.at = iop,
                                 !.code = code, !.size = size,
                                 !.names = IF iop = 0 THEN <<>> ELSE <<ioc.table[iop].name>>]
NextName ==
    LET iop == ioctl_next_match(ioc.at, ioc.table)
    IN  /\ ioc.pc = "names"
        /\ ioc' = IF iop = 0 THEN [ioc EXCEPT !.pc = "printed"]
                  ELSE [ioc EXCEPT !.at = iop, !.names = Append(@, ioc.table[iop].name)]

NoIoctl   == ioc = [pc |-> "none"]
IoctlInit == ioc = [pc |-> "headers", defs |-> <<>>, table |-> <<>>, at |-> 0, code |-> 0, size |-> 0,
                    names |-> <<>>]
IoctlNext ==
    \/ \E d \in [code : Codes, size : Sizes, name : IoctlNames] : Define(d)
    \/ Build
    \/ \E code \in Codes, size \in Sizes : LookUp(code, size)
    \/ ioc.pc = "names" /\ NextName

IoctlSpec == IoctlInit /\ [][IoctlNext]_ioc

-----------------------------------------------------------------------------
(* Whichever entry the search stops at, all the names the headers give to  *)
(* the number and type of the command are printed, each once, although the *)
(* headers may define one twice and the size of the argument is not looked *)
(* at.                                                                     *)
AllNamesOnce ==
    ioc.pc = "printed" =>
        /\ {ioc.names[i] : i \in 1..Len(ioc.names)} =
               {ioc.defs[i].name : i \in {j \in 1..Len(ioc.defs) : ioc.defs[j].code = ioc.code}}
        /\ \A i, j \in 1..Len(ioc.names) : ioc.names[i] = ioc.names[j] => i = j
=============================================================================
