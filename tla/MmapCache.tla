----------------------------- MODULE MmapCache -----------------------------
(***************************************************************************)
(* The option -k: the cache of /proc/<pid>/maps that stack traces are      *)
(* resolved with (alloc_mmap_cache, delete_mmap_cache,                     *)
(* print_normalized_addr in syscall.c).  Every tcb has a cache of its own, *)
(* also where threads share one memory.                                    *)
(***************************************************************************)
EXTENDS Integers, Sequences, FiniteSets, SequencesExt

CONSTANTS Sharers,      \* threads that share one memory
          TopAddr,      \* bound: addresses 0..TopAddr-1
          MaxRegions,   \* bound: lines of /proc/<pid>/maps
          Capacity,     \* 10: the entries malloc'ed at first
          MaxChanges    \* bound: calls that may change the memory

ASSUME MmapCacheAssumption == {TopAddr, MaxRegions, Capacity, MaxChanges} \subseteq Nat \ {0}

VARIABLE maps
(* maps.layout is the memory, maps.cache the cache of each thread, maps.found *)
(* the last lookup; maps.stale (not in the code) tells whether the memory has *)
(* changed since a thread filled its cache.                                   *)

NotFound == [by |-> CHOOSE t \in Sharers : TRUE, addr |-> -1, entry |-> {}]
Regions == {r \in [start : 0..TopAddr - 1, end : 1..TopAddr, file : {"lib", "none"}] :
               r.start < r.end}
Ascending(s) == \A i \in 1..Len(s) - 1 : s[i].end <= s[i + 1].start
Layouts == {s \in UNION {[1..n -> Regions] : n \in 0..MaxRegions} : Ascending(s)}

NULL == [entries |-> <<>>, size |-> -1, room |-> 0, garbage |-> CHOOSE r \in Regions : TRUE]

(* What may be found in the entry that is not initialized: something that  *)
(* matches every address, or none.                                         *)
Garbage == {r \in Regions : r.end - r.start = TopAddr /\ r.file = "lib"}
           \cup {[start |-> 0, end |-> 0, file |-> "none"]}

-----------------------------------------------------------------------------
(* Memory without a file behind it ("[heap]", or nothing) is left out.     *)
(* The array is doubled when it is full, so it always has one entry more   *)
(* than is used; that one is not initialized.                              *)
Room(size) == CHOOSE c \in Capacity..2 * (size + Capacity) :
                 /\ \E k \in 0..size : c = Capacity * 2 ^ k
                 /\ c > size /\ (c = Capacity \/ c \div 2 <= size)
alloc_mmap_cache(layout, garbage) ==
    LET kept == SelectSeq(layout, LAMBDA r : r.file # "none")
    IN  [entries |-> kept, size |-> Len(kept), room |-> Room(Len(kept)), garbage |-> garbage]

(* Mutant: the bounds close in on each other one step too far. *)
print_normalized_addr_skips(c, addr) ==
    LET entry(i) == IF i < c.size THEN c.entries[i + 1] ELSE c.garbage
        search[lower \in -1..c.size + 1, upper \in -1..c.size] ==
            IF lower >= upper THEN {}
            ELSE LET mid == (lower + upper) \div 2
                     cur == entry(mid)
                 IN  IF cur.start <= addr /\ addr < cur.end THEN {cur}
                     ELSE IF addr < cur.start THEN search[lower, mid - 1]
                     ELSE search[mid + 1, upper]
    IN  search[0, c.size]
(* The entry addr is printed with, if one is found.  The search begins     *)
(* with the entry behind the last.                                         *)
print_normalized_addr(c, addr) ==
    LET entry(i) == IF i < c.size THEN c.entries[i + 1] ELSE c.garbage
        search[lower \in -1..c.size + 1, upper \in -1..c.size] ==
            IF lower > upper THEN {}
            ELSE LET mid == (lower + upper) \div 2
                     cur == entry(mid)
                 IN  IF cur.start <= addr /\ addr < cur.end THEN {cur}
                     ELSE IF lower = upper THEN {}
                     ELSE IF addr < cur.start THEN search[lower, mid - 1]
                     ELSE search[mid + 1, upper]
    IN  search[0, c.size]

(* A stack trace of thread t with the address addr in it. *)
StackTrace(t, addr, garbage) ==
    LET c == IF maps.cache[t] = NULL THEN alloc_mmap_cache(maps.layout, garbage) ELSE maps.cache[t]
    IN  maps' = [maps EXCEPT !.cache[t] = c,
                             !.found = [by |-> t, addr |-> addr, entry |-> print_normalized_addr(c, addr)]]

(* The calls whose decoder deletes the cache at the end of the call, and   *)
(* those that change the memory and do not (mmap2 and mmap are decoded by  *)
(* sys_mmap_pgoff and sys_old_mmap in a 32-bit program).                   *)
deletes == {"mmap", "munmap", "mprotect", "execve"}
keeps   == {"mremap", "mmap2", "old_mmap"}
delete_mmap_cache_never(c) == c     \* Mutant: forgotten
delete_mmap_cache(c) == NULL

(* Thread t makes such a call; decoded is whether its end is decoded, and  *)
(* not filtered out, printed raw or dropped by -z.                         *)
MapCall(t, call, decoded, layout) ==
    LET deleted == call \in deletes /\ decoded
    IN  maps' = [maps EXCEPT
            !.changes = @ + 1,
            !.layout = layout,
            !.cache[t] = IF deleted THEN delete_mmap_cache(@) ELSE @,
            !.stale = [u \in Sharers |->
                IF u = t /\ deleted THEN FALSE
                ELSE @[u] \/ (maps.cache[u] # NULL /\ layout # maps.layout)],
            !.found = NotFound]

-----------------------------------------------------------------------------
MapsAtRest(on) ==
    maps = [on |-> on, layout |-> <<>>, cache |-> [t \in Sharers |-> NULL],
            stale |-> [t \in Sharers |-> FALSE], changes |-> 0, found |-> NotFound]
MapsInit == MapsAtRest(TRUE)
MapsNext ==
    /\ maps.on
    /\ \/ \E t \in Sharers, addr \in 0..TopAddr - 1 :
             \E garbage \in (IF maps.cache[t] = NULL THEN Garbage ELSE {NULL.garbage}) :
                StackTrace(t, addr, garbage)
       \/ /\ maps.changes < MaxChanges
          /\ \E t \in Sharers, call \in {"munmap", "mremap"}, decoded \in BOOLEAN, layout \in Layouts :
                (call \in keeps => decoded) /\ MapCall(t, call, decoded, layout)

MapsSpec == MapsInit /\ [][MapsNext]_maps

-----------------------------------------------------------------------------
(* An address is printed with the file that is mapped there now and with   *)
(* no other, except when the memory has changed behind the cache: by       *)
(* another thread, by a call whose end was not decoded, or by one of the   *)
(* calls that forget to delete it.  An address with no file may also match *)
(* the uninitialized entry behind the last, which is inside the array.     *)
StackResolved ==
    maps.found # NotFound /\ ~maps.stale[maps.found.by] =>
        LET cache == maps.cache[maps.found.by]
            here  == {r \in Range(maps.layout) : /\ r.file # "none"
                                                 /\ r.start <= maps.found.addr /\ maps.found.addr < r.end}
        IN  /\ cache.size < cache.room
            /\ \/ maps.found.entry = here
               \/ here = {} /\ maps.found.entry = {cache.garbage}
=============================================================================
