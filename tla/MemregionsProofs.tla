-------------------------- MODULE MemregionsProofs --------------------------
(***************************************************************************)
(* Proofs about Memregions: for any addresses, pages, files and lengths,   *)
(* what the parser follows is what the kernel has mapped, the assertion in *)
(* insert holds, and the operations of a store name the right bytes.       *)
(***************************************************************************)
EXTENDS Memregions, TLAPS

Regions ==
    {r \in [addr_start : PageStarts \cap Addresses, addr_end : Addresses, inode : Inodes, offset : Nat] :
        r.addr_start <= r.addr_end}

(* The types that the proofs need. *)
RegionsType ==
    /\ kernel = [a \in Addresses |-> kernel[a]]
    /\ regions \subseteq Regions

(* Every address followed is mapped as believed: TrackedIsMapped alone is  *)
(* not inductive, since that a mapping which ends inside a page spares the *)
(* regions behind it depends on where regions begin.                       *)
RegionsInv == RegionsType /\ TrackedIsMapped /\ InsertFits

(* remove_overlaps leaves parts of regions, none of which is in the range. *)
LEMMA RemoveOverlaps ==
    ASSUME NEW rs, rs \subseteq Regions, NEW s \in Addresses, NEW e \in Addresses, s <= e,
           NEW q \in remove_overlaps(rs, s, e)
    PROVE  /\ q \in Regions
           /\ ~find_overlap(q, s, e)
           /\ \E r \in rs : /\ q.addr_start = r.addr_start /\ q.inode = r.inode /\ q.offset = r.offset
                            /\ q.addr_end <= r.addr_end
<1>1. CASE q \in rs /\ ~find_overlap(q, s, e)
  <2>1. q.addr_end <= q.addr_end
    BY <1>1 DEF Regions, Addresses
  <2> QED  BY <1>1, <2>1
<1>2. CASE \E r \in rs : find_overlap(r, s, e) /\ r.addr_start < s /\ q = head(r, s)
  <2>1. PICK r \in rs : find_overlap(r, s, e) /\ r.addr_start < s /\ q = head(r, s)
    BY <1>2
  <2>2. r \in Regions
    BY <2>1
  <2>3. q = [addr_start |-> r.addr_start, addr_end |-> s - 1, inode |-> r.inode, offset |-> r.offset]
    BY <2>1, <2>2 DEF head, Regions
  <2>4. s - 1 \in Addresses /\ s - 1 <= r.addr_end
    BY <2>1, <2>2, MemregionsAssumption DEF Regions, Addresses, find_overlap
  <2>5. q \in Regions
    BY <2>1, <2>2, <2>3, <2>4 DEF Regions, Addresses
  <2>6. ~find_overlap(q, s, e)
    BY <2>3, <2>2 DEF find_overlap, Regions, Addresses
  <2> QED  BY <2>2, <2>3, <2>4, <2>5, <2>6
<1> QED  BY <1>1, <1>2 DEF remove_overlaps

(* A region that has no address in a range that was mapped has none in the *)
(* rest of its last page.                                                  *)
LEMMA PagesSpareRegions ==
    ASSUME NEW r \in Regions, NEW s \in Addresses, NEW e \in Addresses, NEW last \in Addresses, s <= e,
           PageEnd(e, last), ~find_overlap(r, s, e), NEW a \in r.addr_start..r.addr_end
    PROVE  a \notin s..last
BY MemregionsAssumption DEF Regions, Addresses, PageEnd, find_overlap

LEMMA RegionsInvInit == RegionsInit => RegionsInv
BY DEF RegionsInit, RegionsInv, RegionsType, TrackedIsMapped, InsertFits

LEMMA MmapKeeps ==
    ASSUME RegionsInv,
           NEW s \in Starts, NEW e \in s..TopAddress, NEW last \in s..TopAddress,
           NEW m \in Mappings, NEW fixed \in BOOLEAN, NEW fits \in BOOLEAN, NEW recorded \in BOOLEAN,
           mmap(s, e, last, m, fixed, fits, recorded)
    PROVE  RegionsInv'
<1> DEFINE K == kept(s, e, m, fixed)
<1>0. s \in Addresses /\ e \in Addresses /\ last \in Addresses /\ s <= e /\ PageEnd(e, last)
  BY MemregionsAssumption DEF Starts, Addresses, mmap
<1>1. \A q \in K : /\ q \in Regions
                   /\ \E r \in regions : /\ q.addr_start = r.addr_start /\ q.inode = r.inode
                                         /\ q.offset = r.offset /\ q.addr_end <= r.addr_end
                   /\ fixed => ~find_overlap(q, s, e)
  <2> SUFFICES ASSUME NEW q \in K
               PROVE  /\ q \in Regions
                      /\ \E r \in regions : /\ q.addr_start = r.addr_start /\ q.inode = r.inode
                                            /\ q.offset = r.offset /\ q.addr_end <= r.addr_end
                      /\ fixed => ~find_overlap(q, s, e)
    OBVIOUS
  <2>1. regions \subseteq Regions
    BY DEF RegionsInv, RegionsType
  <2>2. CASE fixed
    BY <1>0, <2>1, <2>2, RemoveOverlaps DEF kept
  <2>3. CASE ~fixed
    <3>1. q \in regions /\ q \in Regions
      BY <2>1, <2>3 DEF kept
    <3>2. q.addr_end <= q.addr_end
      BY <3>1, MemregionsAssumption DEF Regions, Addresses
    <3> QED  BY <2>3, <3>1, <3>2
  <2> QED  BY <2>2, <2>3
<1>2. parsing = "on"
  BY DEF mmap, NextCall
<1>3. \A q \in K : \A a \in (q.addr_start..q.addr_end) \ moved_onto :
          kernel[a] = File(q.inode, q.offset + (a - q.addr_start))
  <2> SUFFICES ASSUME NEW q \in K, NEW a \in (q.addr_start..q.addr_end) \ moved_onto
               PROVE  kernel[a] = File(q.inode, q.offset + (a - q.addr_start))
    OBVIOUS
  <2>1. PICK r \in regions : /\ q.addr_start = r.addr_start /\ q.inode = r.inode
                             /\ q.offset = r.offset /\ q.addr_end <= r.addr_end
    BY <1>1
  <2>2. q \in Regions /\ r \in Regions
    BY <1>1 DEF RegionsInv, RegionsType
  <2>3. a \in (r.addr_start..r.addr_end) \ moved_onto
    BY <2>1, <2>2, MemregionsAssumption DEF Regions, Addresses
  <2>4. kernel[a] = File(r.inode, r.offset + (a - r.addr_start))
    BY <1>2, <2>3 DEF RegionsInv, TrackedIsMapped
  <2> QED  BY <2>1, <2>4
<1>4. \A q \in K : ~find_overlap(q, s, e) =>
          \A a \in (q.addr_start..q.addr_end) \ moved_onto :
              kernel'[a] = File(q.inode, q.offset + (a - q.addr_start))
  <2> SUFFICES ASSUME NEW q \in K, ~find_overlap(q, s, e),
                      NEW a \in (q.addr_start..q.addr_end) \ moved_onto
               PROVE  kernel'[a] = File(q.inode, q.offset + (a - q.addr_start))
    OBVIOUS
  <2>1. a \notin s..last
    BY <1>0, <1>1, PagesSpareRegions
  <2>2. a \in Addresses
    BY <1>1, MemregionsAssumption DEF Regions, Addresses
  <2>3. kernel'[a] = kernel[a]
    BY <2>1, <2>2 DEF mmap
  <2> QED  BY <1>3, <2>3
<1>5. ~fixed => \A q \in K : find_overlap(q, s, e) => moved_onto # {}
  <2> SUFFICES ASSUME ~fixed, NEW q \in K, find_overlap(q, s, e)
               PROVE  moved_onto # {}
    OBVIOUS
  <2>1. q \in Regions
    BY <1>1
  <2>2. PICK a \in q.addr_start..q.addr_end : a \in s..last
    <3>1. CASE q.addr_start <= s
      BY <1>0, <2>1, <3>1, MemregionsAssumption DEF Regions, Addresses, find_overlap, PageEnd
    <3>2. CASE s <= q.addr_start
      BY <1>0, <2>1, <3>2, MemregionsAssumption DEF Regions, Addresses, find_overlap, PageEnd
    <3> QED  BY <1>0, <2>1, <3>1, <3>2, MemregionsAssumption DEF Regions, Addresses
  <2>3. kernel[a] = Free
    BY <2>2 DEF mmap
  <2>4. kernel[a] # File(q.inode, q.offset + (a - q.addr_start))
    BY <2>3 DEF Free, File
  <2> QED  BY <1>3, <2>2, <2>4
<1>6. kernel' = [a \in Addresses |-> kernel'[a]]
  BY DEF mmap
<1>7. CASE m.kind = "file" /\ parsing' = "on"
  <2>1. \A q \in K : ~find_overlap(q, s, e)
    BY <1>7 DEF mmap
  <2>2. m.inode \in Inodes /\ m.off \in Nat
    BY <1>7, MemregionsAssumption DEF Mappings, Other, File
  <2>3. inserted(s, e, m) \in Regions
    BY <1>0, <2>2 DEF inserted, Regions, Starts
  <2>4. regions' = K \cup {inserted(s, e, m)}
    BY <1>7 DEF mmap
  <2>5. \A a \in s..e : kernel'[a] = File(m.inode, m.off + (a - s))
    BY <1>0, <1>7, MemregionsAssumption DEF mmap, Mapping, Addresses, PageEnd
  <2>6. \A q \in regions' : \A a \in (q.addr_start..q.addr_end) \ moved_onto' :
            kernel'[a] = File(q.inode, q.offset + (a - q.addr_start))
    <3>1. moved_onto' = moved_onto
      BY DEF mmap
    <3>2. \A q \in K : \A a \in (q.addr_start..q.addr_end) \ moved_onto' :
              kernel'[a] = File(q.inode, q.offset + (a - q.addr_start))
      BY <1>4, <2>1, <3>1
    <3>3. \A a \in inserted(s, e, m).addr_start..inserted(s, e, m).addr_end :
              kernel'[a] = File(inserted(s, e, m).inode,
                                inserted(s, e, m).offset + (a - inserted(s, e, m).addr_start))
      BY <2>5 DEF inserted
    <3> QED  BY <2>4, <3>2, <3>3
  <2>7. regions' \subseteq Regions
    BY <1>1, <2>3, <2>4
  <2> QED  BY <1>6, <1>7, <2>6, <2>7 DEF RegionsInv, RegionsType, TrackedIsMapped, InsertFits
<1>8. CASE m.kind # "file"
  <2>1. regions' = K /\ parsing' = "on"
    BY <1>8 DEF mmap
  <2>2. \A q \in K : ~find_overlap(q, s, e) \/ (q.addr_start..q.addr_end) \ moved_onto = {}
                     \/ \A a \in (q.addr_start..q.addr_end) \ moved_onto : a \notin s..last
    <3> SUFFICES ASSUME NEW q \in K, find_overlap(q, s, e),
                        NEW a \in (q.addr_start..q.addr_end) \ moved_onto, a \in s..last
                 PROVE  FALSE
      OBVIOUS
    <3>1. ~fixed
      BY <1>1
    <3>2. kernel[a] = Free
      BY <3>1 DEF mmap
    <3>3. Free # File(q.inode, q.offset + (a - q.addr_start))
      BY DEF Free, File
    <3> QED  BY <1>3, <3>2, <3>3
  <2>3. \A q \in K : \A a \in (q.addr_start..q.addr_end) \ moved_onto :
            kernel'[a] = File(q.inode, q.offset + (a - q.addr_start))
    <3> SUFFICES ASSUME NEW q \in K, NEW a \in (q.addr_start..q.addr_end) \ moved_onto,
                        find_overlap(q, s, e)
                 PROVE  kernel'[a] = File(q.inode, q.offset + (a - q.addr_start))
      BY <1>4
    <3>1. a \notin s..last
      BY <2>2
    <3>2. a \in Addresses
      BY <1>1, MemregionsAssumption DEF Regions, Addresses
    <3> QED  BY <1>3, <3>1, <3>2 DEF mmap
  <2> QED  BY <1>1, <1>6, <2>1, <2>3 DEF RegionsInv, RegionsType, TrackedIsMapped, InsertFits, mmap
<1>9. CASE m.kind = "file" /\ parsing' # "on"
  <2>1. regions' = K
    BY <1>9 DEF mmap
  <2>2. parsing' = "overlap" => moved_onto # {}
    BY <1>1, <1>5, <1>9 DEF mmap
  <2> QED  BY <1>1, <1>6, <1>9, <2>1, <2>2 DEF RegionsInv, RegionsType, TrackedIsMapped, InsertFits, mmap
<1> QED  BY <1>7, <1>8, <1>9

LEMMA MunmapKeeps ==
    ASSUME RegionsInv, NEW s \in Starts, NEW e \in s..TopAddress, NEW last \in s..TopAddress,
           munmap(s, e, last)
    PROVE  RegionsInv'
<1>1. s \in Addresses /\ e \in Addresses /\ last \in Addresses /\ s <= e /\ PageEnd(e, last)
  BY MemregionsAssumption DEF Starts, Addresses, munmap
<1>2. parsing = "on" /\ parsing' = "on" /\ moved_onto' = moved_onto
  BY DEF munmap, NextCall
<1>3. ASSUME NEW r \in regions', NEW a \in (r.addr_start..r.addr_end) \ moved_onto
      PROVE  kernel'[a] = File(r.inode, r.offset + (a - r.addr_start))
  <2>1. r \in regions /\ r \in Regions /\ ~find_overlap(r, s, e)
    BY <1>3 DEF munmap, remove_whole, RegionsInv, RegionsType
  <2>2. a \notin s..last
    BY <1>1, <1>3, <2>1, PagesSpareRegions
  <2>3. a \in Addresses
    BY <1>3, <2>1, MemregionsAssumption DEF Regions, Addresses
  <2>4. kernel'[a] = kernel[a]
    BY <2>2, <2>3 DEF munmap
  <2> QED  BY <1>2, <1>3, <2>1, <2>4 DEF RegionsInv, TrackedIsMapped
<1>4. kernel' = [a \in Addresses |-> kernel'[a]] /\ regions' \subseteq Regions
  BY DEF munmap, remove_whole, RegionsInv, RegionsType
<1> QED  BY <1>2, <1>3, <1>4 DEF RegionsInv, RegionsType, TrackedIsMapped, InsertFits

LEMMA MremapKeeps ==
    ASSUME RegionsInv, NEW s \in Starts, NEW t \in Starts, NEW e \in s..TopAddress, mremap(s, e, t)
    PROVE  RegionsInv'
<1>1. parsing = "on" /\ regions' = regions /\ parsing' # "overlap"
  BY DEF mremap, NextCall
<1>2. ASSUME parsing' = "on", NEW r \in regions, NEW a \in (r.addr_start..r.addr_end) \ moved_onto'
      PROVE  kernel'[a] = File(r.inode, r.offset + (a - r.addr_start))
  <2>1. r \in Regions
    BY DEF RegionsInv, RegionsType
  <2>2. ~find_overlap(r, s, e)
    BY <1>2 DEF mremap, resolve_range
  <2>3. a \notin s..e
    BY <1>2, <2>1, <2>2, MemregionsAssumption DEF Regions, Addresses, find_overlap, Starts
  <2>4. Tracked(a)
    BY <1>2 DEF Tracked
  <2>5. a \notin t..t + (e - s) /\ a \notin moved_onto
    BY <1>2, <2>4 DEF mremap
  <2>6. a \in Addresses
    BY <1>2, <2>1, MemregionsAssumption DEF Regions, Addresses
  <2>7. kernel'[a] = kernel[a]
    BY <2>3, <2>5, <2>6 DEF mremap
  <2> QED  BY <1>1, <1>2, <2>5, <2>7 DEF RegionsInv, TrackedIsMapped
<1>3. kernel' = [a \in Addresses |-> kernel'[a]]
  BY DEF mremap
<1> QED  BY <1>1, <1>2, <1>3 DEF RegionsInv, RegionsType, TrackedIsMapped, InsertFits

LEMMA RegionsInvNext == RegionsInv /\ [RegionsNext]_map_vars => RegionsInv'
<1> SUFFICES ASSUME RegionsInv, [RegionsNext]_map_vars PROVE RegionsInv'
  OBVIOUS
<1>1. ASSUME NEW s \in Starts, NEW e \in s..TopAddress, NEW last \in s..TopAddress,
             NEW m \in Mappings, NEW fixed \in BOOLEAN, NEW fits \in BOOLEAN, NEW recorded \in BOOLEAN,
             mmap(s, e, last, m, fixed, fits, recorded)
      PROVE  RegionsInv'
  BY <1>1, MmapKeeps
<1>2. CASE mmap_fails
  BY <1>2 DEF mmap_fails, RegionsInv, RegionsType, TrackedIsMapped, InsertFits
<1>3. ASSUME NEW s \in Starts, NEW e \in s..TopAddress, NEW last \in s..TopAddress, munmap(s, e, last)
      PROVE  RegionsInv'
  BY <1>3, MunmapKeeps
<1>4. ASSUME NEW s \in Addresses, NEW e \in s..TopAddress, msync(s, e) \/ mwrite(s, e)
      PROVE  RegionsInv'
  BY <1>4, Zenon DEF msync, mwrite, resolved, RegionsInv, RegionsType, TrackedIsMapped, InsertFits
<1>5. ASSUME NEW s \in Starts, NEW t \in Starts, NEW e \in s..TopAddress, mremap(s, e, t)
      PROVE  RegionsInv'
  BY <1>5, MremapKeeps
<1>6. ASSUME NEW failed \in BOOLEAN, execve_unmaps(failed)
      PROVE  RegionsInv'
  BY <1>6 DEF execve_unmaps, NextCall, RegionsInv, RegionsType, TrackedIsMapped, InsertFits
<1>7. CASE UNCHANGED map_vars
  BY <1>7 DEF map_vars, RegionsInv, RegionsType, TrackedIsMapped, InsertFits
<1> QED  BY <1>1, <1>2, <1>3, <1>4, <1>5, <1>6, <1>7 DEF RegionsNext

(* Whatever is mapped, unmapped and moved, in any number of calls, files   *)
(* and pages: while the parser runs an address it follows is mapped to the *)
(* byte of the file it believes, unless mremap put another mapping there.  *)
THEOREM TrackedIsMappedAlways == RegionsSpec => []TrackedIsMapped
<1>1. RegionsInv => TrackedIsMapped
  BY DEF RegionsInv
<1> QED  BY <1>1, RegionsInvInit, RegionsInvNext, PTL DEF RegionsSpec

(* The assertion of insert only ever fails after an mremap onto a mapping  *)
(* that is followed.                                                       *)
THEOREM InsertFitsAlways == RegionsSpec => []InsertFits
<1>1. RegionsInv => InsertFits
  BY DEF RegionsInv
<1> QED  BY <1>1, RegionsInvInit, RegionsInvNext, PTL DEF RegionsSpec

-----------------------------------------------------------------------------
(* resolve_range of memory that is followed as it is mapped. *)
LEMMA ResolveRight ==
    ASSUME RegionsInv, parsing = "on", NEW s \in Addresses, NEW e \in s..TopAddress,
           NEW op \in resolve_range(regions, s, e), NEW i \in 0..op.count - 1
    PROVE  /\ s + op.skip + i \in s..e
           /\ s + op.skip + i \in moved_onto \/ kernel[s + op.skip + i] = File(op.inode, op.offset + i)
<1>1. PICK r \in regions : find_overlap(r, s, e) /\ op = clipped(r, s, e)
  BY DEF resolve_range
<1>2. r \in Regions
  BY DEF RegionsInv, RegionsType
<1> DEFINE start == IF r.addr_start < s THEN s ELSE r.addr_start
           end   == IF r.addr_end > e THEN e ELSE r.addr_end
<1>3. /\ op.inode = r.inode /\ op.offset = (start - r.addr_start) + r.offset
      /\ op.count = end - start + 1 /\ op.skip = start - s
  BY <1>1 DEF clipped
<1>4. start \in Int /\ end \in Int /\ s \in Int /\ e \in Int /\ r.addr_start \in Int /\ r.offset \in Int
  BY <1>2, MemregionsAssumption DEF Regions, Addresses
<1>5. i \in Int /\ 0 <= i /\ i <= end - start
  BY <1>3, <1>4
<1>6. s + op.skip + i = start + i /\ op.offset + i = r.offset + ((start + i) - r.addr_start)
  BY <1>3, <1>4, <1>5
<1>7. start + i \in s..e /\ start + i \in r.addr_start..r.addr_end
  BY <1>2, <1>4, <1>5, MemregionsAssumption DEF Regions, Addresses
<1>8. start + i \in moved_onto \/ kernel[start + i] = File(r.inode, r.offset + ((start + i) - r.addr_start))
  BY <1>7 DEF RegionsInv, TrackedIsMapped
<1> QED  BY <1>3, <1>6, <1>7, <1>8

LEMMA ResolveAll ==
    ASSUME RegionsInv, NEW s \in Addresses, NEW e \in s..TopAddress, NEW a \in s..e, Tracked(a)
    PROVE  \E op \in resolve_range(regions, s, e) :
               a \in s + op.skip..s + op.skip + (op.count - 1)
<1>1. PICK r \in regions : a \in r.addr_start..r.addr_end
  BY DEF Tracked
<1>2. r \in Regions
  BY DEF RegionsInv, RegionsType
<1>3. find_overlap(r, s, e)
  BY <1>1, <1>2, MemregionsAssumption DEF Regions, Addresses, find_overlap
<1>4. clipped(r, s, e) \in resolve_range(regions, s, e)
  BY <1>1, <1>3 DEF resolve_range
<1>5. a \in s + clipped(r, s, e).skip..s + clipped(r, s, e).skip + (clipped(r, s, e).count - 1)
  BY <1>1, <1>2, MemregionsAssumption DEF Regions, Addresses, clipped
<1> QED  BY <1>4, <1>5

(* The operations made of a store or an msync name exactly the bytes of    *)
(* files that the addresses it reaches are mapped to, as far as they are   *)
(* followed.                                                               *)
THEOREM MappedWritesRightAlways == RegionsSpec => []MappedWritesRight
<1>1. RegionsInit => MappedWritesRight
  BY DEF RegionsInit, MappedWritesRight, NoRegionCall, RegionCall
<1>2. RegionsInv /\ MappedWritesRight /\ [RegionsNext]_map_vars => MappedWritesRight'
  <2> SUFFICES ASSUME RegionsInv, MappedWritesRight, [RegionsNext]_map_vars
               PROVE  MappedWritesRight'
    OBVIOUS
  <2>1. ASSUME NEW s \in Addresses, NEW e \in s..TopAddress, msync(s, e) \/ mwrite(s, e)
        PROVE  MappedWritesRight'
    <3>1. /\ parsing = "on" /\ kernel' = kernel /\ regions' = regions /\ moved_onto' = moved_onto
          /\ last_call'.s = s /\ last_call'.e = e /\ last_call'.ops = resolve_range(regions, s, e)
      BY <2>1 DEF msync, mwrite, resolved, NextCall, RegionCall
    <3>2. \A a \in s..e : Tracked(a) =>
              \E op \in resolve_range(regions, s, e) : a \in s + op.skip..s + op.skip + (op.count - 1)
      BY <2>1, ResolveAll
    <3>3. \A op \in resolve_range(regions, s, e) : \A i \in 0..op.count - 1 :
              /\ s + op.skip + i \in s..e
              /\ s + op.skip + i \in moved_onto \/ kernel[s + op.skip + i] = File(op.inode, op.offset + i)
      BY <2>1, <3>1, ResolveRight
    <3>4. \A a : Tracked(a)' <=> Tracked(a)
      BY <3>1 DEF Tracked
    <3> QED  BY <3>1, <3>2, <3>3, <3>4 DEF MappedWritesRight
  <2>2. CASE last_call'.op \notin {"msync", "mwrite"}
    BY <2>2 DEF MappedWritesRight
  <2>3. CASE UNCHANGED map_vars
    BY <2>3 DEF map_vars, MappedWritesRight, Tracked
  <2>4. ASSUME NEW s \in Starts, NEW e \in s..TopAddress, NEW last \in s..TopAddress,
               NEW m \in Mappings, NEW fixed \in BOOLEAN, NEW fits \in BOOLEAN, NEW recorded \in BOOLEAN,
               mmap(s, e, last, m, fixed, fits, recorded)
        PROVE  last_call'.op \notin {"msync", "mwrite"}
    BY <2>4 DEF mmap, RegionCall
  <2>5. CASE mmap_fails
    BY <2>2, <2>5 DEF mmap_fails, RegionCall
  <2>6. ASSUME NEW s \in Starts, NEW e \in s..TopAddress, NEW last \in s..TopAddress, munmap(s, e, last)
        PROVE  last_call'.op \notin {"msync", "mwrite"}
    BY <2>6 DEF munmap, RegionCall
  <2>7. ASSUME NEW s \in Starts, NEW t \in Starts, NEW e \in s..TopAddress, mremap(s, e, t)
        PROVE  last_call'.op \notin {"msync", "mwrite"}
    BY <2>7 DEF mremap, RegionCall
  <2>8. ASSUME NEW failed \in BOOLEAN, execve_unmaps(failed)
        PROVE  last_call'.op \notin {"msync", "mwrite"}
    BY <2>8 DEF execve_unmaps, RegionCall
  <2> QED  BY <2>1, <2>2, <2>3, <2>4, <2>5, <2>6, <2>7, <2>8 DEF RegionsNext
<1> QED  BY <1>1, <1>2, RegionsInvInit, RegionsInvNext, PTL DEF RegionsSpec

(* For every address space and every sequence of calls, all three: what    *)
(* the parser resolves a mapped write to is right.                         *)
THEOREM RegionsRightAlways == RegionsSpec => []RegionsRight
BY TrackedIsMappedAlways, InsertFitsAlways, MappedWritesRightAlways, PTL DEF RegionsRight

-----------------------------------------------------------------------------
(* An address is only forgotten when it is mapped anew or no more, or the  *)
(* region it is in is cut by munmap, by a mapping in front of it, or by an *)
(* execve.                                                                 *)
THEOREM ForgottenWhenCutAlways == RegionsSpec => ForgottenWhenCut
<1>1. RegionsInv /\ [RegionsNext]_map_vars => [ForgetStep]_map_vars
  <2> SUFFICES ASSUME RegionsInv, RegionsNext, parsing' = "on",
                      NEW r \in regions, NEW a \in r.addr_start..r.addr_end
               PROVE  StillFollowed(r, a) \/ CutOff(r, a)
    BY DEF ForgetStep
  <2>0. r \in Regions
    BY DEF RegionsInv, RegionsType
  <2>1. ASSUME NEW s \in Starts, NEW e \in s..TopAddress, NEW last \in s..TopAddress,
               NEW m \in Mappings, NEW fixed \in BOOLEAN, NEW fits \in BOOLEAN, NEW recorded \in BOOLEAN,
               mmap(s, e, last, m, fixed, fits, recorded)
        PROVE  StillFollowed(r, a) \/ CutOff(r, a)
    <3>1. kept(s, e, m, fixed) \subseteq regions'
      BY <2>1 DEF mmap
    <3>2. last_call'.op = "mmap" /\ last_call'.s = s /\ last_call'.e = e
      BY <2>1 DEF mmap, RegionCall
    <3>3. CASE ~fixed \/ ~find_overlap(r, s, e)
      <4>1. r \in regions'
        BY <3>1, <3>3 DEF kept, remove_overlaps
      <4> QED  BY <4>1 DEF StillFollowed
    <3>4. CASE find_overlap(r, s, e) /\ s <= a
      BY <3>2, <3>4 DEF CutOff
    <3>5. CASE fixed /\ find_overlap(r, s, e) /\ ~(s <= a)
      <4>1. s \in Int /\ a \in Int /\ r.addr_start \in Int /\ r.addr_start < s /\ a <= s - 1
        BY <2>0, <3>5, MemregionsAssumption DEF Regions, Addresses, Starts
      <4>2. head(r, s) \in regions'
        BY <3>1, <3>5, <4>1 DEF kept, remove_overlaps
      <4>3. head(r, s) = [addr_start |-> r.addr_start, addr_end |-> s - 1, inode |-> r.inode,
                          offset |-> r.offset]
        BY <2>0 DEF head, Regions
      <4>4. a \in r.addr_start..s - 1
        BY <4>1
      <4> QED  BY <4>2, <4>3, <4>4 DEF StillFollowed
    <3> QED  BY <3>3, <3>4, <3>5
  <2>2. CASE mmap_fails
    BY <2>2 DEF mmap_fails
  <2>3. ASSUME NEW s \in Starts, NEW e \in s..TopAddress, NEW last \in s..TopAddress, munmap(s, e, last)
        PROVE  StillFollowed(r, a) \/ CutOff(r, a)
    BY <2>3 DEF munmap, remove_whole, RegionCall, StillFollowed, CutOff
  <2>4. ASSUME NEW s \in Addresses, NEW e \in s..TopAddress, msync(s, e) \/ mwrite(s, e)
        PROVE  StillFollowed(r, a)
    BY <2>4 DEF msync, mwrite, resolved, StillFollowed
  <2>5. ASSUME NEW s \in Starts, NEW t \in Starts, NEW e \in s..TopAddress, mremap(s, e, t)
        PROVE  StillFollowed(r, a)
    BY <2>5 DEF mremap, StillFollowed
  <2>6. ASSUME NEW failed \in BOOLEAN, execve_unmaps(failed)
        PROVE  CutOff(r, a)
    BY <2>6 DEF execve_unmaps, RegionCall, CutOff
  <2> QED  BY <2>1, <2>2, <2>3, <2>4, <2>5, <2>6 DEF RegionsNext
<1> QED  BY <1>1, RegionsInvInit, RegionsInvNext, PTL DEF RegionsSpec, ForgottenWhenCut
=============================================================================
