----------------------------- MODULE Memregions -----------------------------
(***************************************************************************)
(* The shared mappings of files that the parser follows, to know what a    *)
(* store to memory or an msync means for a file (MemregionTracker, and     *)
(* mmap, munmap, msync, mwrite, mremap and execve in __get_micro_op of     *)
(* _aliceparsesyscalls.py), beside the mappings the kernel has.  Files are *)
(* watched, mappings of files shared and writable; everything else that is *)
(* mapped is Other.                                                        *)
(***************************************************************************)
EXTENDS Integers, FiniteSets

CONSTANTS TopAddress,   \* addresses are 0..TopAddress
          PageStarts,   \* the first addresses of pages, and TopAddress + 1
          Inodes,       \* the files that are mapped
          MaxOffset,    \* bound: the largest offset of a mapping
          MaxMapCalls   \* bound: calls of a trace

ASSUME MemregionsAssumption ==
    /\ TopAddress \in Nat /\ MaxOffset \in Nat /\ MaxMapCalls \in Nat
    /\ PageStarts \subseteq Nat

VARIABLES kernel,       \* what every address is mapped to
          regions,      \* memregion_map, a set since it is keyed by addr_start
          moved_onto,   \* not in the code: addresses that mremap has mapped anew
          last_call,    \* the last call, its range and its operations
          parsing,      \* "on", or why the parser has ended
          map_calls

map_vars == <<kernel, regions, moved_onto, last_call, parsing, map_calls>>

Addresses == 0..TopAddress
Free      == [kind |-> "free", inode |-> 0, off |-> 0]
Other     == [kind |-> "other", inode |-> 0, off |-> 0]
File(i, o) == [kind |-> "file", inode |-> i, off |-> o]

(* What is mapped at address a of a mapping of m that begins at s. *)
Mapping(m, s, a) == IF m.kind = "file" THEN File(m.inode, m.off + (a - s)) ELSE m
Mappings == {Other} \cup {File(i, o) : i \in Inodes, o \in 0..MaxOffset}

(* last is the end of the page that e is in: the kernel maps whole pages.  *)
PageEnd(e, last) ==
    /\ e <= last /\ last + 1 \in PageStarts
    /\ \A p \in PageStarts : ~(e < p /\ p <= last)

-----------------------------------------------------------------------------
(* Ranges include both ends. *)
find_overlap_open(r, s, e) == r.addr_start < e /\ s < r.addr_end               \* Mutant
find_overlap(r, s, e)      == r.addr_start <= e /\ s <= r.addr_end

Tracked(a) == \E r \in regions : a \in r.addr_start..r.addr_end

(* What is left of a region in front of s.  What lies behind the range is  *)
(* not kept: no region that overlaps a range starts after its end.         *)
head(r, s)     == [r EXCEPT !.addr_end = s - 1]
remove_overlaps_bare(rs, s, e) == {r \in rs : ~find_overlap(r, s, e)}          \* Mutant
remove_overlaps(rs, s, e) ==
    {r \in rs : ~find_overlap(r, s, e)}
    \cup {head(r, s) : r \in {r \in rs : find_overlap(r, s, e) /\ r.addr_start < s}}
remove_whole(rs, s, e) == {r \in rs : ~find_overlap(r, s, e)}

(* The part of a region in the range, where it is in its file, and how far *)
(* into the range it starts.                                               *)
clipped_kept(r, s, e) ==                                   \* Mutant: the offset of the region
    LET start == IF r.addr_start < s THEN s ELSE r.addr_start
        end   == IF r.addr_end > e THEN e ELSE r.addr_end
    IN  [inode |-> r.inode, offset |-> r.offset, count |-> end - start + 1, skip |-> start - s]
clipped(r, s, e) ==
    LET start == IF r.addr_start < s THEN s ELSE r.addr_start
        end   == IF r.addr_end > e THEN e ELSE r.addr_end
    IN  [inode |-> r.inode, offset |-> (start - r.addr_start) + r.offset,
         count |-> end - start + 1, skip |-> start - s]
resolve_range(rs, s, e) == {clipped(r, s, e) : r \in {r \in rs : find_overlap(r, s, e)}}

-----------------------------------------------------------------------------
RegionCall(op, s, e, ops) == [op |-> op, s |-> s, e |-> e, ops |-> ops]
NoRegionCall == RegionCall("none", 0, 0, {})
NextCall == parsing = "on" /\ map_calls < MaxMapCalls /\ map_calls' = map_calls + 1

kept_insert(s, e, m, fixed) ==          \* Mutant: regions are not removed for one to insert
    IF fixed /\ m.kind # "file" THEN remove_overlaps(regions, s, e) ELSE regions
kept(s, e, m, fixed) == IF fixed THEN remove_overlaps(regions, s, e) ELSE regions
inserted(s, e, m) == [addr_start |-> s, addr_end |-> e, inode |-> m.inode, offset |-> m.off]

(* A mapping at s..e.  Without MAP_FIXED the kernel takes addresses that   *)
(* are free.  fits: the file is no longer than what is mapped of it.       *)
(* recorded: the stores of the task were recorded (there is a file mtrace  *)
(* of it), or ignore_mmap is set.                                          *)
mmap(s, e, last, m, fixed, fits, recorded) ==
    /\ NextCall
    /\ PageEnd(e, last)
    /\ fixed \/ \A a \in s..last : kernel[a] = Free
    /\ kernel' = [a \in Addresses |-> IF a \in s..last THEN Mapping(m, s, a) ELSE kernel[a]]
    /\ parsing' = IF m.kind # "file" THEN "on"
                  ELSE IF ~fits THEN "longer"
                  ELSE IF ~recorded THEN "unrecorded"
                  ELSE IF \E r \in kept(s, e, m, fixed) : find_overlap(r, s, e) THEN "overlap" ELSE "on"
    /\ regions' = IF m.kind = "file" /\ parsing' = "on" THEN kept(s, e, m, fixed) \cup {inserted(s, e, m)}
                  ELSE kept(s, e, m, fixed)
    /\ last_call' = RegionCall("mmap", s, e, {})
    /\ UNCHANGED moved_onto

(* The handler of a failed mmap returns None, which is no list. *)
mmap_fails ==
    /\ NextCall
    /\ parsing' = "none"
    /\ last_call' = RegionCall("mmap", 0, 0, {})
    /\ UNCHANGED <<kernel, regions, moved_onto>>

munmap(s, e, last) ==
    /\ NextCall
    /\ PageEnd(e, last)
    /\ kernel' = [a \in Addresses |-> IF a \in s..last THEN Free ELSE kernel[a]]
    /\ regions' = remove_whole(regions, s, e)
    /\ last_call' = RegionCall("munmap", s, e, {})
    /\ UNCHANGED <<moved_onto, parsing>>

(* msync, and a store recorded as mwrite: of memory that is mapped. *)
resolved(op, s, e) ==
    /\ NextCall
    /\ \A a \in s..e : kernel[a] # Free
    /\ last_call' = RegionCall(op, s, e, resolve_range(regions, s, e))
    /\ UNCHANGED <<kernel, regions, moved_onto, parsing>>
msync(s, e)  == resolved("msync", s, e)
mwrite(s, e) == resolved("mwrite", s, e)

(* A mapping is moved, of the same length, onto whatever is at t with      *)
(* MREMAP_FIXED.  Only where it was is looked at.                          *)
mremap(s, e, t) ==
    /\ NextCall
    /\ \A a \in s..e : kernel[a] # Free
    /\ (s..e) \cap (t..t + (e - s)) = {}
    /\ kernel' = [a \in Addresses |-> IF a \in s..e THEN Free
                                      ELSE IF a \in t..t + (e - s) THEN kernel[s + (a - t)]
                                      ELSE kernel[a]]
    /\ moved_onto' = moved_onto \cup {a \in t..t + (e - s) : Tracked(a)}
    /\ parsing' = IF resolve_range(regions, s, e) = {} THEN "on" ELSE "mremap"
    /\ last_call' = RegionCall("mremap", s, e, {})
    /\ UNCHANGED regions

(* Whether it succeeded is not looked at. *)
execve_unmaps(failed) ==
    /\ NextCall
    /\ kernel' = IF failed THEN kernel ELSE [a \in Addresses |-> Free]
    /\ regions' = {}
    /\ last_call' = RegionCall("execve", 0, 0, {})
    /\ UNCHANGED <<moved_onto, parsing>>

RegionsAtRest ==
    /\ kernel = <<>> /\ regions = {} /\ moved_onto = {}
    /\ last_call = NoRegionCall /\ parsing = "off" /\ map_calls = 0
RegionsInit ==
    /\ kernel = [a \in Addresses |-> Free] /\ regions = {} /\ moved_onto = {}
    /\ last_call = NoRegionCall /\ parsing = "on" /\ map_calls = 0

(* Mappings begin with a page. *)
Starts == PageStarts \cap Addresses
RegionsNext ==
    \/ \E s \in Starts : \E e, last \in s..TopAddress : \E m \in Mappings, fixed, fits, recorded \in BOOLEAN :
          mmap(s, e, last, m, fixed, fits, recorded)
    \/ mmap_fails
    \/ \E s \in Starts : \E e, last \in s..TopAddress : munmap(s, e, last)
    \/ \E s \in Addresses : \E e \in s..TopAddress : msync(s, e) \/ mwrite(s, e)
    \/ \E s, t \in Starts : \E e \in s..TopAddress :
          e + 1 \in PageStarts /\ t + (e - s) <= TopAddress /\ mremap(s, e, t)
    \/ \E failed \in BOOLEAN : execve_unmaps(failed)

RegionsSpec == RegionsInit /\ [][RegionsNext]_map_vars

-----------------------------------------------------------------------------
(* While the parser runs, every address it follows is mapped in the kernel *)
(* to the byte of the file that it believes, whatever was mapped over it   *)
(* or unmapped around it, in lengths that are no multiple of a page;       *)
(* except where mremap has put another mapping.                            *)
TrackedIsMapped ==
    parsing = "on" =>
        \A r \in regions : \A a \in (r.addr_start..r.addr_end) \ moved_onto :
            kernel[a] = File(r.inode, r.offset + (a - r.addr_start))

(* The assertion in insert that a new mapping overlaps none that is        *)
(* followed fails at most after an mremap onto one of them.                *)
InsertFits == parsing = "overlap" => moved_onto # {}

(* The operations of a store or an msync name, for each address of its     *)
(* range that is followed, the byte of the file mapped there, and no other *)
(* bytes.                                                                  *)
MappedWritesRight ==
    parsing = "on" /\ last_call.op \in {"msync", "mwrite"} =>
        LET s == last_call.s
        IN  /\ \A op \in last_call.ops : \A i \in 0..op.count - 1 :
                  LET a == s + op.skip + i
                  IN  /\ a \in s..last_call.e
                      /\ a \in moved_onto \/ kernel[a] = File(op.inode, op.offset + i)
            /\ \A a \in s..last_call.e : Tracked(a) =>
                  \E op \in last_call.ops : a \in s + op.skip..s + op.skip + (op.count - 1)

(* The address is still followed, as the same byte. *)
StillFollowed(r, a) ==
    \E q \in regions' : /\ a \in q.addr_start..q.addr_end /\ q.inode = r.inode
                        /\ q.offset - q.addr_start = r.offset - r.addr_start
CutOff(r, a) ==
    \/ last_call'.op = "munmap" /\ find_overlap(r, last_call'.s, last_call'.e)
    \/ last_call'.op = "mmap" /\ last_call'.s <= a /\ find_overlap(r, last_call'.s, last_call'.e)
    \/ last_call'.op = "execve"
ForgetStep ==
    parsing' = "on" =>
        \A r \in regions : \A a \in r.addr_start..r.addr_end : StillFollowed(r, a) \/ CutOff(r, a)

(* An address is followed until it is mapped anew or no more, or the       *)
(* region it is in is cut: by munmap anywhere, by a mapping over a part in *)
(* front of it, or by an execve, even one that fails.                      *)
ForgottenWhenCut == [][ForgetStep]_map_vars

(* The regions are mapped as the parser believes, can be inserted, and are *)
(* resolved to the right bytes of the right files.                         *)
RegionsRight == TrackedIsMapped /\ InsertFits /\ MappedWritesRight
=============================================================================
