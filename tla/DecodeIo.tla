------------------------------ MODULE DecodeIo ------------------------------
(* What the decoders of io.c print, and what they append to the byte dump, *)
(* and what those of mem.c print: see Lines for the form.  (sys_ioctl is   *)
(* in DecodeDevices.)                                                      *)
EXTENDS DecodeFile

-----------------------------------------------------------------------------
(* io.c *)

splice_flags == NoZero

buf    == printstr
size   == {<<"size">>}
offset == {<<"offset">>}
total  == {<<"total">>}
count  == {<<"count">>}

(* Mutant: no separator after the descriptor. *)
sys_read_joined == Call(printfd, buf ++ v, v ++ v)
sys_read == Call(printfd ** sep, buf ++ v, v ++ v)

(* dump_bytes copies the buffer when the call is entered; it asserts that  *)
(* the buffer is readable.                                                 *)
dump_bytes(printed, rest, d) ==
    Dumping(d, Entry(printed ++ rest)) \cup Dumping("abort", Entry(printed))

(* Mutants: the position before the size; the bytes not copied. *)
sys_pwrite_swapped  == dump_bytes(printfd ++ buf, offset ++ size, "size")
sys_pwrite_undumped == Entry(printfd ++ buf ++ size ++ offset)
sys_write  == dump_bytes(printfd ++ buf, size, "size")
sys_pwrite == dump_bytes(printfd ++ buf, size ++ offset, "size")

(* An array of no elements, one that cannot be an array, and one whose     *)
(* first element (under -s 0) or whose k-th (otherwise) is elided.         *)
iov_s0 == Square(nothing) \cup Square(v)
tprint_iov_upto ==
    v \cup iov_s0 \cup Square(Items(Curly(Vals(2)))) \cup Square(Curly(Vals(2)) ++ v)
      \cup (Square(v) ** bar ** v) \cup (Square(Curly(Vals(2)) ++ v) ** bar ** v)
tprint_iov == tprint_iov_upto

(* Every element is dumped, or an assertion fails. *)
dump_iov(rest) ==
    UnderS0(dump_bytes(printfd ++ iov_s0, rest, "total"))
    \cup dump_bytes(printfd ++ tprint_iov, rest, "total")

sys_readv   == Call(printfd ** sep, tprint_iov ++ v, v ++ v)
sys_writev  == dump_iov(count ++ total)
sys_pread   == Call(printfd ** sep, buf ++ v ++ printllval, v ++ v ++ printllval)
sys_preadv  == Call(printfd ** sep, tprint_iov ++ v ++ printllval, v ++ v)
sys_pwritev == dump_iov(count ++ offset ++ total)

print_off_t    == v \cup Square(v)
sys_sendfile   == Entry(printfd ++ printfd ++ print_off_t ++ v)
print_loff_t   == v \cup Square(v)
sys_sendfile64 == Entry(printfd ++ printfd ++ print_loff_t ++ v)

sys_tee      == Entry(printfd ++ printfd ++ v ++ printflags(splice_flags, TRUE))
sys_splice   == Entry(printfd ++ print_loff_t ++ printfd ++ print_loff_t ++ v
                      ++ printflags(splice_flags, TRUE))
sys_vmsplice == Entry(printfd ++ tprint_iov ++ v ++ printflags(splice_flags, TRUE))

-----------------------------------------------------------------------------
(* mem.c *)

mmap_prot        == HasZero
mremap_flags     == NoZero
mlockall_flags   == NoZero
mctl_sync        == NoZero
mbindflags       == NoZero
mempolicyflags   == NoZero
move_pages_flags == NoZero

addr == {<<"addr">>}
len  == {<<"len">>}

sys_brk == Entry(v)

print_mmap ==
    Entry(addr ++ len ++ printflags(mmap_prot, TRUE) ++ (printxval ** addflags)
          ++ printfd ++ {<<"offset">>})

(* The arguments are in the tracee's memory: nothing if it is unreadable. *)
sys_old_mmap   == print_mmap \cup Entry(nothing)
sys_mmap       == print_mmap
sys_mmap_pgoff == print_mmap

sys_munmap   == Entry(addr ++ len)
sys_mprotect == Entry(addr ++ len ++ printflags(mmap_prot, TRUE))
sys_mremap   ==
    Entry(addr ++ len ++ v ++ (printflags(mremap_flags, TRUE) ** Opt(sep ** v)))
sys_madvise  == Entry(addr ++ len ++ printxval)
sys_mlockall == Entry(printflags(mlockall_flags, TRUE))
sys_msync    == Entry(addr ++ len ++ printflags(mctl_sync, TRUE))
sys_mincore  == Call((addr ++ len) ** sep, v \cup Square(nothing \cup v), v)
sys_remap_file_pages ==
    Entry(addr ++ len ++ printflags(mmap_prot, TRUE) ++ v ++ (printxval ** addflags))

(* Its own separator first, the words of the mask, the address after the   *)
(* list if a word could not be read.                                       *)
get_nodes ==
    (sep ** (v \cup Curly(List(v)) \cup (Curly(Items(v)) ** bar ** v))) ++ v

sys_mbind         == Entry(((addr ++ len ++ printxval) ** get_nodes)
                           ++ printflags(mbindflags, TRUE))
sys_set_mempolicy == Entry(printxval ** get_nodes)
sys_get_mempolicy ==
    LET X == (v ** get_nodes) ++ v ++ printflags(mempolicyflags, TRUE)
    IN  Exit(X, X)

(* A separator is printed before each of the two masks and again by        *)
(* get_nodes itself.                                                       *)
sys_migrate_pages == Entry((v ** sep) ** get_nodes ** sep ** get_nodes)

sys_move_pages ==
    LET array == v \cup Curly(nothing \cup Reading(v))
    IN  Both((Vals(2) ++ array ++ array) ** sep,
             array ++ printflags(move_pages_flags, TRUE))
=============================================================================
