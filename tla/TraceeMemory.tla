---------------------------- MODULE TraceeMemory ----------------------------
(***************************************************************************)
(* Reading the memory of a stopped task: umoven and umovestr (util.c), by  *)
(* process_vm_readv in one or several chunks, or word by word with         *)
(* PTRACE_PEEKDATA on kernels without it.  The task is stopped, but the    *)
(* threads it shares its memory with are not: pages may go while a read is *)
(* under way, and the task itself may be killed.                           *)
(*                                                                         *)
(* A byte is told apart only by whether it is NUL.  What was copied is the *)
(* sequence of the addresses it was copied from.                           *)
(***************************************************************************)
EXTENDS Integers, Sequences, FiniteSets

CONSTANTS PAGE,     \* 4096: the size of a page
          CHUNK,    \* 256: the most umovestr asks for at once
          WORD,     \* sizeof(long)
          Pages,    \* bound: pages of the task that may be mapped
          MaxLen    \* bound: bytes asked for

ASSUME MemoryAssumption ==
    /\ {PAGE, CHUNK, WORD, Pages, MaxLen} \subseteq Nat \ {0}
    /\ CHUNK <= PAGE /\ PAGE % WORD = 0

VARIABLES
    mem,    \* the task: its NUL bytes, its mapped pages, whether it lives
    copy    \* the function at work and its local variables

memvars == <<mem, copy>>

Top == Pages * PAGE                 \* the addresses a 32-bit task can use
NoCopy == [op |-> "none"]
EFAULT == -1
ENOSYS == -2

Mapped(a) == a < Top /\ (a \div PAGE) \in mem.mapped
Nul(a)    == a \in mem.nul
Bytes(a, n) == [i \in 1..n |-> a + i - 1]
Lesser(x, y) == IF x < y THEN x ELSE y

-----------------------------------------------------------------------------
(* The kernel: the number of bytes copied, or an error.  A request that    *)
(* runs into an unmapped page ends short or, as its manual page has it,    *)
(* fails as a whole.                                                       *)
process_vm_readv(a, n) ==
    IF ~mem.readv THEN {ENOSYS}
    ELSE IF ~mem.alive THEN {EFAULT}
    ELSE IF \A b \in a..a + n - 1 : Mapped(b) THEN {n}
    ELSE LET first == CHOOSE b \in a..a + n - 1 : ~Mapped(b) /\ \A c \in a..b - 1 : Mapped(c)
         IN  {EFAULT} \cup ({first - a} \ {0})

PEEKDATA(a) == mem.alive /\ Mapped(a)

-----------------------------------------------------------------------------
(* Both functions drop the upper half of an address of a 32-bit task.      *)
Start(op, addr, high, len) ==
    /\ copy = NoCopy
    /\ LET a == IF mem.wordsize = 4 THEN addr ELSE addr + high * Top
       IN  copy' = [op |-> op, pc |-> IF mem.unsupported THEN "head" ELSE "readv",
                    addr |-> a, remote |-> a, len |-> len, got |-> <<>>, ret |-> 0,
                    addr0 |-> a, len0 |-> len, mapped0 |-> mem.mapped]
    /\ UNCHANGED mem

Done(r) == [copy EXCEPT !.pc = "done", !.ret = r]
Copied(c, from, n) == [c EXCEPT !.got = @ \o Bytes(from, n), !.len = @ - n]

(* process_vm_readv_not_supported is set once and for all. *)
Unsupported ==
    /\ mem' = [mem EXCEPT !.unsupported = TRUE]
    /\ copy' = [copy EXCEPT !.pc = "head"]

(* umoven: one request; anything but all of it is a failure. *)
all_read_partly(r) == r > 0          \* Mutant: a short read will do
all_read(r) == r = copy.len
UmovenReadv ==
    /\ copy.op = "umoven" /\ copy.pc = "readv"
    /\ \E r \in process_vm_readv(copy.addr, copy.len) :
          \/ r = ENOSYS /\ Unsupported
          \/ /\ all_read(r)
             /\ copy' = [Copied(copy, copy.addr, r) EXCEPT !.pc = "done", !.ret = 0]
             /\ UNCHANGED mem
          \/ r # ENOSYS /\ ~all_read(r) /\ copy' = Done(-1) /\ UNCHANGED mem

(* Mutant: the chunk runs on into the next page. *)
chunk_len_uncut(addr, len) == Lesser(len, CHUNK)
(* The size of a chunk of umovestr.  The part beyond the end of the page   *)
(* is cut off, but it is worked out from the address of the whole string,  *)
(* which the loop does not move on.                                        *)
chunk_len(addr, len) ==
    LET whole == Lesser(len, CHUNK)
        end_in_page == (addr + whole) % PAGE
    IN  IF whole > end_in_page THEN whole - end_in_page ELSE whole

UmovestrReadv ==
    /\ copy.op = "umovestr" /\ copy.pc = "readv"
    /\ IF copy.len = 0 THEN copy' = Done(0) /\ UNCHANGED mem
       ELSE \E r \in process_vm_readv(copy.remote, chunk_len(copy.addr, copy.len)) :
          \/ r = ENOSYS /\ Unsupported
          \/ /\ r > 0
             /\ LET c == [Copied(copy, copy.remote, r) EXCEPT !.remote = @ + r]
                IN  copy' = IF \E b \in copy.remote..copy.remote + r - 1 : Nul(b)
                            THEN [c EXCEPT !.pc = "done", !.ret = 1] ELSE c
             /\ UNCHANGED mem
          \/ r \in {0, EFAULT} /\ copy' = Done(-1) /\ UNCHANGED mem

(* Word by word.  The first word may begin before the address; umovestr    *)
(* looks for a NUL from there to the end of the word, wherever the request *)
(* ends.                                                                   *)
Residue == copy.addr % WORD
(* Every error of PTRACE_PEEKDATA ends the copy; they differ in what is    *)
(* said to the user.                                                       *)
HeadFails == ~PEEKDATA(copy.addr - Residue)
WordFails == ~PEEKDATA(copy.addr)
PeekHead ==
    /\ copy.op # "none" /\ copy.pc = "head"
    /\ LET word == copy.addr - Residue
           m    == Lesser(WORD - Residue, copy.len)
           c    == [Copied(copy, copy.addr, m) EXCEPT !.addr = word + WORD, !.pc = "words"]
       IN  copy' = IF Residue = 0 THEN [copy EXCEPT !.pc = "words"]
                   ELSE IF HeadFails THEN Done(-1)
                   ELSE IF copy.op = "umovestr" /\ \E b \in copy.addr..word + WORD - 1 : Nul(b)
                   THEN [c EXCEPT !.pc = "done", !.ret = 1]
                   ELSE c
    /\ UNCHANGED mem

word_part_all(len) == WORD           \* Mutant: the last word is copied whole
word_part(len) == Lesser(WORD, len)
PeekWord ==
    /\ copy.op # "none" /\ copy.pc = "words"
    /\ LET m == word_part(copy.len)
           c == [Copied(copy, copy.addr, m) EXCEPT !.addr = @ + WORD]
       IN  copy' = IF copy.len = 0 THEN Done(0)
                   ELSE IF WordFails THEN Done(-1)
                   ELSE IF copy.op = "umovestr" /\ \E b \in copy.addr..copy.addr + WORD - 1 : Nul(b)
                   THEN [c EXCEPT !.pc = "done", !.ret = 1]
                   ELSE c
    /\ UNCHANGED mem

(* A thread unmaps a page; the task is killed. *)
Unmap(p) == /\ copy # NoCopy /\ p \in mem.mapped
            /\ mem' = [mem EXCEPT !.mapped = @ \ {p}]
            /\ UNCHANGED copy
Killed   == /\ copy # NoCopy /\ mem.alive
            /\ mem' = [mem EXCEPT !.alive = FALSE]
            /\ UNCHANGED copy

(* The next read, of the same task or another. *)
Again == copy # NoCopy /\ copy.pc = "done" /\ mem.alive /\ copy' = NoCopy /\ UNCHANGED mem

-----------------------------------------------------------------------------
NoMemory == /\ mem = [nul |-> {}, mapped |-> {}, alive |-> FALSE, readv |-> FALSE,
                      unsupported |-> FALSE, wordsize |-> 8]
            /\ copy = NoCopy

MemoryInit ==
    /\ mem \in [nul : {{}} \cup {{a} : a \in 0..Top - 1}, mapped : SUBSET (0..Pages - 1),
                alive : {TRUE}, readv : BOOLEAN, unsupported : {FALSE}, wordsize : {4, 8}]
    /\ copy = NoCopy

MemoryNext ==
    \/ mem.alive /\ \E op \in {"umoven", "umovestr"}, a \in 0..Top - 1, high \in {0, 1}, n \in 0..MaxLen :
          Start(op, a, high, n)
    \/ UmovenReadv \/ UmovestrReadv
    \/ PeekHead \/ PeekWord
    \/ \E p \in mem.mapped : Unmap(p)
    \/ Killed
    \/ Again

MemorySpec == MemoryInit /\ [][MemoryNext]_memvars

-----------------------------------------------------------------------------
Returned == copy # NoCopy /\ copy.pc = "done"

(* What is in the buffer is a prefix of what was asked for, never more     *)
(* than len bytes (the comment of umovestr: "we never write past           *)
(* laddr[len-1]"); all of it after umoven returned 0, and after umovestr   *)
(* did.  Whatever happened meanwhile, nothing came from an unmapped page.  *)
CopySound ==
    copy # NoCopy =>
        /\ Len(copy.got) <= copy.len0
        /\ copy.got = Bytes(copy.addr0, Len(copy.got))
        /\ \A i \in 1..Len(copy.got) : (copy.got[i] \div PAGE) \in copy.mapped0
        /\ Returned /\ copy.ret = 0 => Len(copy.got) = copy.len0

(* When no page went meanwhile: umoven fails exactly if a byte asked for   *)
(* is not mapped.                                                          *)
Undisturbed == mem.alive /\ mem.mapped = copy.mapped0
Asked == copy.addr0..copy.addr0 + copy.len0 - 1
UmovenExact ==
    Returned /\ copy.op = "umoven" /\ Undisturbed =>
        \/ copy.ret = 0 /\ \A b \in Asked : Mapped(b)
        \/ copy.ret = -1 /\ \E b \in Asked : ~Mapped(b)
        \/ copy.ret = -1 /\ copy.len0 = 0 /\ mem.unsupported    \* an unaligned address is peeked at

(* umovestr finds a NUL exactly if there is one among the bytes asked for  *)
(* before any unmapped one, with two exceptions.  Word by word it reports  *)
(* one that lies behind them in the last word; and a string longer than a  *)
(* chunk may be given up at a NUL in a mapped page, because only the first *)
(* chunk is kept from crossing into the next.                              *)
Ends == {b \in Asked : Nul(b) /\ \A c \in copy.addr0..b : Mapped(c)}
UmovestrExact ==
    Returned /\ copy.op = "umovestr" /\ Undisturbed =>
        CASE copy.ret = 1 ->
                \/ Ends # {}
                \/ /\ mem.unsupported
                   /\ \E b \in copy.addr0..copy.addr0 + copy.len0 + WORD - 1 :
                         Nul(b) /\ \A c \in copy.addr0..b : c \div WORD # b \div WORD => Mapped(c)
          [] copy.ret = 0 -> Ends = {} /\ \A b \in Asked : Mapped(b)
          [] copy.ret = -1 ->
                \/ Ends = {} /\ \E b \in Asked : ~Mapped(b)
                \/ ~mem.unsupported /\ copy.got # <<>>
                \/ mem.unsupported /\ copy.len0 = 0

(* umoven and umovestr copy what they say they did and nothing else, by    *)
(* either way of reading, while pages go and tasks are killed.             *)
CopyExact == CopySound /\ UmovenExact /\ UmovestrExact
=============================================================================
