------------------------ MODULE ExplorerThreadProofs ------------------------
(***************************************************************************)
(* TLAPS proofs about Explorer, for every set of traces, every list of     *)
(* split modes and every number of threads: the inductive invariant, and   *)
(* that the threads, the first round and the second keep it.               *)
(* (ExplorerProofs goes on with the third round and has the theorems.)     *)
(***************************************************************************)
EXTENDS Explorer, FiniteSetTheorems, TLAPS

\* A set of numbers that has an element has a least one.
LEMMA SomeLeast ==
  ASSUME NEW S \in SUBSET Nat, S # {}
  PROVE  \E x \in S : \A y \in S : x <= y
<1> DEFINE R == {ss \in Nat \X Nat : ss[1] < ss[2]}
<1>1. IsWellFoundedOn(OpToRel(<, Nat), Nat)
  BY NatLessThanWellFounded, Zenon
<1>2. OpToRel(<, Nat) = R
  BY Zenon DEF OpToRel
<1> HIDE DEF R
<1>3. IsWellFoundedOn(R, Nat)
  BY <1>1, <1>2, Zenon
<1>4. PICK x \in S : \A y \in S : ~(<<y, x>> \in R)
  BY <1>3, WFMin, Zenon
<1>5. ASSUME NEW y \in S PROVE x <= y
  <2>1. <<y, x>> \in Nat \X Nat /\ <<y, x>>[1] = y /\ <<y, x>>[2] = x
    BY Zenon
  <2>2. ~(y < x)
    BY <1>4, <2>1, Zenon DEF R
  <2> QED
    BY <2>2
<1> QED
  BY <1>5, Zenon

-----------------------------------------------------------------------------
(* The inductive invariant                                                 *)

Mops == 0 .. mops_len - 1
DopsLen(m, x) == dops_len(suites[m], x)
DopsIn(m, x) == {<<x, y>> : y \in 0 .. DopsLen(m, x) - 1}

\* What set_fs has computed, as far as the rounds rely on it.
SuitesInv ==
  /\ trace \in Trace
  /\ \A m \in DOMAIN Mode, x \in Mops :
       DopsLen(m, x) \in Nat /\ (trace[x + 1].op = "stdout" => DopsLen(m, x) = 1)

\* What the ordering round omits for micro operation x.
Lost(x) == IF trace[x + 1].op = "stdout" THEN {} ELSE DopsIn(1, x)

Omittable(x) == x \in Mops /\ DopsLen(1, x) # 0 /\ ~InPatch(x)
EndsOrdering(y) == y \in Mops /\ DopsLen(1, y) # 0 /\ y \notin atomic_patch_middle
Cuttable(m, x, y) == x \in Mops /\ ~InPatch(x) /\ y \in 0 .. DopsLen(m, x) - 2

AcrossPc == {"across", "across_put", "across_scan"}
OrderingPc == {"ordering", "ordering_j", "ordering_put", "ordering_report"}
AtomicityPc == {"atomicity", "atomicity_put", "atomicity_k", "atomicity_kput", "atomicity_include"}
Puts == {"across_put", "ordering_put", "atomicity_put", "atomicity_kput"}
Reads == {"across_scan", "ordering_report", "atomicity_report", "done"}

\* The crash state that has been built and is to be handed to the threads.
Current ==
  CASE pc = "across_put" -> <<"across", i>>
    [] pc = "ordering_put" -> <<"ordering", i, j>>
    [] pc = "atomicity_put" -> <<"atomicity", mode, i, j>>
    [] pc = "atomicity_kput" -> <<"atomicity", mode, i, j, k>>
    [] OTHER -> NoKey

\* Where the main thread is, and what is omitted there.
PosInv ==
  /\ pc \in {"set_fs", "abort", "atomicity_set_fs", "atomicity_report", "done"}
            \cup AcrossPc \cup OrderingPc \cup AtomicityPc
  /\ mode \in DOMAIN Mode /\ j \in Nat /\ k \in Nat
  /\ micro_end \in Mops /\ disk_end \in Int
  /\ atomic_patch_middle \subseteq Mops
  /\ pc = "set_fs" => mode = 1 /\ omitted = {} /\ i = 0
  /\ pc \in AcrossPc \cup OrderingPc =>
       /\ mode = 1
       /\ saved = [omitted |-> {}, mode |-> 1, micro_end |-> mops_len - 1,
                   disk_end |-> DopsLen(1, mops_len - 1) - 1]
  /\ pc \in AcrossPc \cup {"ordering", "atomicity_set_fs", "atomicity", "atomicity_put", "atomicity_k",
                           "atomicity_report", "done"} => omitted = {}
  /\ pc \in {"across", "across_scan", "ordering", "ordering_report", "atomicity"} => i \in 0 .. mops_len
  /\ pc \in {"ordering_j", "ordering_put"} => omitted = Lost(i) /\ Omittable(i) /\ j \in i + 1 .. mops_len
  /\ pc = "ordering_report" => omitted = {}
  /\ pc = "across_put" => i \in Mops
  /\ pc = "ordering_put" => EndsOrdering(j) /\ LegalState(Current)
  /\ pc \in {"atomicity_set_fs", "atomicity_report", "done"} => i \in 1 .. Len(Mode) + 1
  /\ pc \in {"atomicity_put", "atomicity_k", "atomicity_kput", "atomicity_include"} =>
       Cuttable(mode, i, j) /\ micro_end = i /\ disk_end = j
  /\ pc = "atomicity_put" => k = 0
  /\ pc = "atomicity_k" => k <= j
  /\ pc \in {"atomicity_kput", "atomicity_include"} => k < j /\ omitted = {<<i, k>>}
  /\ pc \in {"atomicity_put", "atomicity_kput"} => LegalState(Current)
  /\ pc = "abort" => i \in 0 .. mops_len + Len(Mode) + 1

\* The crash states handed to the threads in this round so far.
AcrossKeys(x) == {<<"across", y>> : y \in 0 .. x - 1}

OrderingKeys(x, y) ==
  {key \in ToCheck.ordering_report : LegalState(key) /\ (key[2] < x \/ (key[2] = x /\ key[3] < y))}

Precedes(key, m, x, y, z) ==
  \/ key[2] < m
  \/ key[2] = m /\ key[3] < x
  \/ key[2] = m /\ key[3] = x /\ key[4] < y
  \/ key[2] = m /\ key[3] = x /\ key[4] = y /\ z >= 0 /\ (Len(key) = 5 => key[5] < z)

CutKeys(m, x, y, z) == {key \in ToCheck.atomicity_report : LegalState(key) /\ Precedes(key, m, x, y, z)}

Handed ==
  CASE pc = "set_fs" -> {}
    [] pc \in {"across", "across_put"} -> AcrossKeys(i)
    [] pc = "across_scan" -> AcrossKeys(mops_len)
    [] pc = "ordering" -> OrderingKeys(i, 0)
    [] pc \in {"ordering_j", "ordering_put"} -> OrderingKeys(i, j)
    [] pc = "ordering_report" -> OrderingKeys(mops_len, 0)
    [] pc = "atomicity_set_fs" -> CutKeys(i, 0, 0, -1)
    [] pc \in {"atomicity", "atomicity_put"} -> CutKeys(mode, i, j, -1)
    [] pc \in {"atomicity_k", "atomicity_kput"} -> CutKeys(mode, i, j, k)
    [] pc = "atomicity_include" -> CutKeys(mode, i, j, k + 1)
    [] OTHER -> CutKeys(Len(Mode) + 1, 0, 0, -1)

Queued == {queue[q] : q \in DOMAIN queue}
With(S) == {task[w] : w \in {v \in Worker : at[v] \in S}}
Pending == Queued \cup With({"check", "dead"})

\* A crash state is handed out once and is in one place at a time, and those
\* handed out are those with a verdict or on the way to one.
FlightInv ==
  /\ queue \in Seq(Queued)
  /\ at \in [Worker -> {"get", "check", "rm", "done", "dead"}]
  /\ task = [w \in Worker |-> task[w]]
  /\ \A p, q \in DOMAIN queue : queue[p] = queue[q] => p = q
  /\ \A w \in Worker : at[w] \in {"check", "dead"} => task[w] \notin Queued
  /\ \A w, v \in Worker : at[w] \in {"check", "dead", "rm"} /\ at[v] \in {"check", "dead", "rm"} /\ task[w] = task[v]
       => w = v
  /\ DOMAIN outputs \cap Pending = {}
  /\ \A w \in Worker : at[w] = "rm" => task[w] \in DOMAIN outputs
  /\ pc # "abort" => Handed = DOMAIN outputs \cup Pending

\* unfinished counts the tasks that task_done was not called for; the main
\* thread reads outputs when there are none.
Busy == {w \in Worker : at[w] # "get"}
CountInv ==
  /\ unfinished = Len(queue) + Cardinality(Busy)
  /\ pc \in Reads \cup {"set_fs"} => unfinished = 0

\* The directories on disk are those of the states in flight.
Built == IF pc \in Puts THEN {Current} ELSE {}
DirInv ==
  /\ dirs = [d \in DOMAIN dirs |-> dirs[d]]
  /\ DirsAsMeant
  /\ DOMAIN dirs \subseteq Pending \cup With({"rm"}) \cup Built
  /\ \A key \in Pending \cup Built : key \in DOMAIN dirs \/ Meant(key).ops = {}

IInv == SuitesInv /\ PosInv /\ FlightInv /\ CountInv /\ DirInv /\ good \cap bad = {}

-----------------------------------------------------------------------------
(* Crash states and their keys                                             *)

\* The disk operations of the micro operations up to x.
PrefixOf(m, x) == UNION {DopsIn(m, y) : y \in 0 .. x}
CutOf(m, x, y) == PrefixOf(m, x - 1) \cup {<<x, z>> : z \in 0 .. y}

\* The range of a Replayer that ends with the last disk operation of x.
LEMMA UpToFull ==
  ASSUME NEW m, NEW x \in Nat
  PROVE  UpTo(suites[m], x, DopsLen(m, x) - 1) = PrefixOf(m, x)
  BY DEF UpTo, PrefixOf, DopsIn, DopsLen

\* The range of a Replayer that ends with disk operation y of x.
LEMMA UpToCut ==
  ASSUME NEW m, NEW x \in Nat, NEW y \in Nat
  PROVE  UpTo(suites[m], x, y) = CutOf(m, x, y)
<1> DEFINE Of(u) == {<<u, v>> : v \in 0 .. (IF u = x THEN y ELSE DopsLen(m, u) - 1)}
<1>1. UpTo(suites[m], x, y) = UNION {Of(u) : u \in 0 .. x}
  BY Zenon DEF UpTo, DopsLen
<1>2. 0 .. x = 0 .. x - 1 \cup {x}
  OBVIOUS
<1>3. \A u \in 0 .. x - 1 : Of(u) = DopsIn(m, u)
  BY DEF DopsIn
<1>4. Of(x) = {<<x, z>> : z \in 0 .. y}
  BY Zenon
<1> HIDE DEF Of
<1> QED
  BY <1>1, <1>2, <1>3, <1>4 DEF CutOf, PrefixOf

\* What the keys of the three rounds stand for.
LEMMA MeantOf ==
  /\ \A x : Meant(<<"across", x>>) = [mode |-> 1, ops |-> PrefixOf(1, x)]
  /\ \A x, y : Meant(<<"ordering", x, y>>) = [mode |-> 1, ops |-> PrefixOf(1, y) \ Lost(x)]
  /\ \A m, x, y : Meant(<<"atomicity", m, x, y>>) = [mode |-> m, ops |-> CutOf(m, x, y)]
  /\ \A m, x, y, z :
       Meant(<<"atomicity", m, x, y, z>>) = [mode |-> m, ops |-> CutOf(m, x, y) \ {<<x, z>>}]
  BY DEF Meant, PrefixOf, CutOf, DopsIn, DopsLen, Lost

LEMMA FirstMode == 1 \in DOMAIN Mode /\ DOMAIN Mode = 1 .. Len(Mode) /\ Len(Mode) \in Nat \ {0}
  BY ExplorerAssumption

LEMMA InPrefix ==
  ASSUME NEW m, NEW x \in Int, NEW d
  PROVE  d \in PrefixOf(m, x) <=> \E u \in 0 .. x : d \in DopsIn(m, u)
  BY Zenon DEF PrefixOf

LEMMA InDops ==
  ASSUME NEW m, NEW x, NEW d
  PROVE  d \in DopsIn(m, x) <=> \E y \in 0 .. DopsLen(m, x) - 1 : d = <<x, y>>
  BY Zenon DEF DopsIn

\* The part of LegalState about the sync system call.
SyncWhole(m, ops) ==
  \A x \in Mops : trace[x + 1].op = "sync" =>
    \/ DopsIn(m, x) \subseteq ops
    \/ DopsIn(m, x) \cap ops = {} /\ \A d \in ops : d[1] < x

LEMMA LegalStateOf ==
  ASSUME NEW key
  PROVE  LegalState(key) <=>
           /\ SyncWhole(Meant(key).mode, Meant(key).ops)
           /\ test_combo_validity(suites[Meant(key).mode], Meant(key).ops)
  BY Zenon DEF LegalState, SyncWhole, DopsIn, DopsLen, Mops

\* is_legal, as the ordering round calls it, says of a state that its key is
\* that of a legal one.
LEMMA LegalOrdering ==
  ASSUME SuitesInv, NEW a, NEW b, Omittable(a), EndsOrdering(b), a < b
  PROVE  is_legal(trace, suites[1], b, DopsLen(1, b) - 1, Lost(a)) <=> LegalState(<<"ordering", a, b>>)
<1> DEFINE ops == PrefixOf(1, b) \ Lost(a)
<1>1. a \in Mops /\ b \in Mops /\ a \in Nat /\ b \in Nat
      /\ DopsLen(1, a) \in Nat \ {0} /\ DopsLen(1, b) \in Nat \ {0}
  BY FirstMode DEF SuitesInv, Omittable, EndsOrdering, Mops
<1>2. is_legal(trace, suites[1], b, DopsLen(1, b) - 1, Lost(a)) <=>
        /\ \A d \in PrefixOf(1, b) \cap Lost(a) : trace[d[1] + 1].op # "sync"
        /\ test_combo_validity(suites[1], ops)
  <2>1. ~(DopsLen(1, b) - 1 < DopsLen(1, b) - 1)
    BY <1>1
  <2> QED
    BY <2>1, UpToFull, <1>1, Zenon DEF is_legal, DopsLen
<1>3. LegalState(<<"ordering", a, b>>) <=>
        SyncWhole(1, ops) /\ test_combo_validity(suites[1], ops)
  <2>1. Meant(<<"ordering", a, b>>) = [mode |-> 1, ops |-> ops]
    BY MeantOf, Zenon
  <2>2. Meant(<<"ordering", a, b>>).mode = 1 /\ Meant(<<"ordering", a, b>>).ops = ops
    BY <2>1
  <2> QED
    BY <2>2, LegalStateOf, Zenon
<1>4. (\A d \in PrefixOf(1, b) \cap Lost(a) : trace[d[1] + 1].op # "sync") <=> trace[a + 1].op # "sync"
  <2>1. <<a, 0>> \in DopsIn(1, a)
    BY <1>1, InDops
  <2>2. trace[a + 1].op = "sync" => <<a, 0>> \in PrefixOf(1, b) \cap Lost(a)
    BY <2>1, <1>1, InPrefix DEF Lost
  <2>3. \A d \in Lost(a) : d[1] = a
    BY InDops DEF Lost
  <2> QED
    BY <2>2, <2>3, Zenon
<1>5. SyncWhole(1, ops) <=> trace[a + 1].op # "sync"
  <2>1. ASSUME trace[a + 1].op = "sync", SyncWhole(1, ops)
        PROVE  FALSE
    <3>1. <<a, 0>> \in DopsIn(1, a) /\ <<b, 0>> \in DopsIn(1, b)
      BY <1>1, InDops
    <3>2. Lost(a) = DopsIn(1, a)
      BY <2>1, Zenon DEF Lost
    <3>3. <<a, 0>> \notin ops
      BY <3>1, <3>2, Zenon
    <3>4. <<b, 0>> \in ops
      BY <3>1, <3>2, <1>1, InDops, InPrefix
    <3>5. <<b, 0>>[1] < a
      BY <2>1, <3>1, <3>3, <3>4, <1>1, Zenon DEF SyncWhole
    <3> QED
      BY <3>5, <1>1
  <2>2. ASSUME trace[a + 1].op # "sync", NEW x \in Mops, trace[x + 1].op = "sync"
        PROVE  \/ DopsIn(1, x) \subseteq ops
               \/ DopsIn(1, x) \cap ops = {} /\ \A d \in ops : d[1] < x
    <3>1. x # a /\ x \in Nat
      BY <2>2 DEF Mops
    <3>2. \A d \in Lost(a) : d[1] = a
      BY InDops DEF Lost
    <3>3. \A u : \A d \in DopsIn(1, u) : d[1] = u
      BY InDops
    <3>4. CASE x <= b
      BY <3>1, <3>2, <3>3, <3>4, <1>1, InPrefix
    <3>5. CASE x > b
      BY <3>1, <3>3, <3>5, <1>1, InPrefix
    <3> QED
      BY <3>1, <3>4, <3>5, <1>1
  <2> QED
    BY <2>1, <2>2, Zenon DEF SyncWhole
<1> QED
  BY <1>2, <1>3, <1>4, <1>5, Zenon

\* is_legal, as the atomicity round calls it: for a cut, and for a cut without
\* one of its disk operations.
LEMMA LegalCut ==
  ASSUME SuitesInv, NEW m \in DOMAIN Mode, NEW a, NEW b, Cuttable(m, a, b),
         NEW om, om = {} \/ \E z \in 0 .. b - 1 : om = {<<a, z>>},
         NEW key, Meant(key) = [mode |-> m, ops |-> CutOf(m, a, b) \ om]
  PROVE  is_legal(trace, suites[m], a, b, om) <=> LegalState(key)
<1> DEFINE ops == CutOf(m, a, b) \ om
<1>1. a \in Mops /\ a \in Nat /\ b \in Nat /\ DopsLen(m, a) \in Nat /\ b < DopsLen(m, a) - 1
  BY DEF SuitesInv, Cuttable, Mops
<1>2. \A d \in om : d[1] = a
  OBVIOUS
<1>3. is_legal(trace, suites[m], a, b, om) <=>
        trace[a + 1].op # "sync" /\ test_combo_validity(suites[m], ops)
  <2>1. UpTo(suites[m], a, b) = CutOf(m, a, b)
    BY UpToCut, <1>1, Zenon
  <2>2. b < dops_len(suites[m], a) - 1
    BY <1>1, Zenon DEF DopsLen
  <2>3. trace[a + 1].op # "sync" => \A d \in CutOf(m, a, b) \cap om : trace[d[1] + 1].op # "sync"
    BY <1>2, Zenon
  <2> QED
    BY <2>1, <2>2, <2>3, Zenon DEF is_legal
<1>4. LegalState(key) <=> SyncWhole(m, ops) /\ test_combo_validity(suites[m], ops)
  <2>1. Meant(key).mode = m /\ Meant(key).ops = ops
    OBVIOUS
  <2> QED
    BY <2>1, LegalStateOf, Zenon
<1>5. SyncWhole(m, ops) <=> trace[a + 1].op # "sync"
  <2>1. ASSUME trace[a + 1].op = "sync", SyncWhole(m, ops)
        PROVE  FALSE
    <3>1. <<a, b>> \in DopsIn(m, a) /\ <<a, b + 1>> \in DopsIn(m, a)
      BY <1>1, InDops
    <3>2. <<a, b>> \in ops
      BY <1>1 DEF CutOf
    <3>3. <<a, b + 1>> \notin ops
      BY <1>1, InPrefix, InDops DEF CutOf
    <3> QED
      BY <2>1, <3>1, <3>2, <3>3, <1>1, Zenon DEF SyncWhole
  <2>2. ASSUME trace[a + 1].op # "sync", NEW x \in Mops, trace[x + 1].op = "sync"
        PROVE  \/ DopsIn(m, x) \subseteq ops
               \/ DopsIn(m, x) \cap ops = {} /\ \A d \in ops : d[1] < x
    <3>1. x # a /\ x \in Nat
      BY <2>2 DEF Mops
    <3>2. \A u : \A d \in DopsIn(m, u) : d[1] = u
      BY InDops
    <3>3. \A d \in {<<a, z>> : z \in 0 .. b} : d[1] = a
      OBVIOUS
    <3>4. CASE x < a
      BY <3>1, <3>2, <3>4, <1>1, <1>2, InPrefix DEF CutOf
    <3>5. CASE x > a
      BY <3>1, <3>2, <3>3, <3>5, <1>1, InPrefix DEF CutOf
    <3> QED
      BY <3>1, <3>4, <3>5, <1>1
  <2> QED
    BY <2>1, <2>2, Zenon DEF SyncWhole
<1> QED
  BY <1>3, <1>4, <1>5, Zenon

-----------------------------------------------------------------------------
(* The keys of a round                                                     *)

LEMMA OrderingKey ==
  ASSUME NEW key
  PROVE  key \in ToCheck.ordering_report <=>
           \E x, y \in Mops : key = <<"ordering", x, y>> /\ x < y /\ Omittable(x) /\ EndsOrdering(y)
<1> DEFINE Pair == {p \in Mops \X Mops : p[1] < p[2] /\ Omittable(p[1]) /\ EndsOrdering(p[2])}
<1>1. ToCheck.ordering_report = {<<"ordering", p[1], p[2]>> : p \in Pair}
  <2>1. Pair = {p \in (0 .. mops_len - 1) \X (0 .. mops_len - 1) :
                  /\ p[1] < p[2] /\ dops_len(suites[1], p[1]) # 0 /\ dops_len(suites[1], p[2]) # 0
                  /\ ~InPatch(p[1]) /\ p[2] \notin atomic_patch_middle}
    BY Zenon DEF Omittable, EndsOrdering, Mops, DopsLen
  <2> QED
    BY <2>1, Zenon DEF ToCheck
<1>2. \A x, y \in Mops : x < y /\ Omittable(x) /\ EndsOrdering(y) =>
        <<x, y>> \in Pair /\ <<x, y>>[1] = x /\ <<x, y>>[2] = y
  BY Zenon
<1>3. ASSUME NEW x \in Mops, NEW y \in Mops, key = <<"ordering", x, y>>,
             x < y, Omittable(x), EndsOrdering(y)
      PROVE  key \in ToCheck.ordering_report
  <2> DEFINE q == <<x, y>>
  <2>1. q \in Pair
    BY <1>2, <1>3, Zenon
  <2>2. key = <<"ordering", q[1], q[2]>>
    BY <1>3, Zenon
  <2> HIDE DEF Pair, q
  <2> QED
    BY <1>1, <2>1, <2>2, Zenon
<1>4. ASSUME key \in ToCheck.ordering_report
      PROVE  \E x, y \in Mops : key = <<"ordering", x, y>> /\ x < y /\ Omittable(x) /\ EndsOrdering(y)
  <2>1. PICK p \in Pair : key = <<"ordering", p[1], p[2]>>
    BY <1>1, <1>4, Zenon
  <2> QED
    BY <2>1, Zenon
<1> QED
  BY <1>3, <1>4, Zenon

LEMMA CutKey ==
  ASSUME NEW key
  PROVE  key \in ToCheck.atomicity_report <=>
           \E m \in DOMAIN Mode, x \in Mops : \E y \in 0 .. DopsLen(m, x) - 2 :
             /\ Cuttable(m, x, y)
             /\ \/ key = <<"atomicity", m, x, y>>
                \/ \E z \in 0 .. y - 1 : key = <<"atomicity", m, x, y, z>>
  BY DEF ToCheck, Cuttable, Mops, DopsLen

-----------------------------------------------------------------------------
(* What depends on the trace alone, and what on the main thread            *)

LEMMA SameInput ==
  ASSUME UNCHANGED input
  PROVE  /\ mops_len' = mops_len /\ Mops' = Mops
         /\ \A m, x : DopsLen(m, x)' = DopsLen(m, x)
         /\ \A m, x : DopsIn(m, x)' = DopsIn(m, x)
         /\ \A x : Lost(x)' = Lost(x)
         /\ \A key : Meant(key)' = Meant(key)
         /\ \A key : LegalState(key)' <=> LegalState(key)
         /\ SuitesInv => SuitesInv'
<1>1. trace' = trace /\ suites' = suites
  BY Zenon DEF input
<1>2. mops_len' = mops_len /\ Mops' = Mops
  BY <1>1, Zenon DEF mops_len, Mops
<1>3. \A m, x : DopsLen(m, x)' = DopsLen(m, x)
  BY <1>1, Zenon DEF DopsLen
<1>4. \A m, x : DopsIn(m, x)' = DopsIn(m, x)
  BY <1>3, Zenon DEF DopsIn
<1>5. \A x : Lost(x)' = Lost(x)
  BY <1>1, <1>4, Zenon DEF Lost
<1>6. \A key : Meant(key)' = Meant(key)
  BY <1>1 DEF Meant
<1>7. \A key : LegalState(key)' <=> LegalState(key)
  BY <1>1, <1>2, <1>6, Zenon DEF LegalState
<1>8. SuitesInv => SuitesInv'
  BY <1>1, <1>2, <1>3, Zenon DEF SuitesInv
<1> QED
  BY <1>2, <1>3, <1>4, <1>5, <1>6, <1>7, <1>8, Zenon

\* The patches are those of the first round from its end on.
LEMMA SamePatches ==
  ASSUME UNCHANGED input, atomic_patch_middle' = atomic_patch_middle
  PROVE  /\ ToCheck' = ToCheck
         /\ \A x : InPatch(x)' <=> InPatch(x)
         /\ \A x : Omittable(x)' <=> Omittable(x)
         /\ \A x : EndsOrdering(x)' <=> EndsOrdering(x)
         /\ \A m, x, y : Cuttable(m, x, y)' <=> Cuttable(m, x, y)
         /\ \A x, y : OrderingKeys(x, y)' = OrderingKeys(x, y)
         /\ \A m, x, y, z : CutKeys(m, x, y, z)' = CutKeys(m, x, y, z)
<1>1. trace' = trace /\ suites' = suites /\ mops_len' = mops_len
  BY Zenon DEF input, mops_len
<1>2. \A x : InPatch(x)' <=> InPatch(x)
  BY Zenon DEF InPatch
<1>3. ToCheck' = ToCheck
  BY <1>1 DEF ToCheck, InPatch
<1>4. \A x : Omittable(x)' <=> Omittable(x)
  BY <1>2, SameInput, Zenon DEF Omittable
<1>5. \A x : EndsOrdering(x)' <=> EndsOrdering(x)
  BY SameInput, Zenon DEF EndsOrdering
<1>6. \A m, x, y : Cuttable(m, x, y)' <=> Cuttable(m, x, y)
  BY <1>2, SameInput, Zenon DEF Cuttable
<1>7. \A x, y : OrderingKeys(x, y)' = OrderingKeys(x, y)
  BY <1>3, SameInput, Zenon DEF OrderingKeys
<1>8. \A m, x, y, z : CutKeys(m, x, y, z)' = CutKeys(m, x, y, z)
  BY <1>3, SameInput DEF CutKeys, Precedes
<1> QED
  BY <1>2, <1>3, <1>4, <1>5, <1>6, <1>7, <1>8, Zenon

LEMMA SameMain ==
  ASSUME UNCHANGED main
  PROVE  /\ UNCHANGED input /\ pc' = pc
         /\ PosInv => PosInv'
         /\ Handed' = Handed /\ Built' = Built
<1>1. /\ UNCHANGED input /\ atomic_patch_middle' = atomic_patch_middle
      /\ pc' = pc /\ i' = i /\ j' = j /\ k' = k /\ mode' = mode /\ micro_end' = micro_end
      /\ disk_end' = disk_end /\ omitted' = omitted /\ saved' = saved
  BY Zenon DEF main, replayer, findings
<1>2. Current' = Current
  BY <1>1, Zenon DEF Current
<1>3. PosInv => PosInv'
  BY <1>1, <1>2, SameInput, SamePatches DEF PosInv
<1>4. Handed' = Handed
  BY <1>1, SameInput, SamePatches, Zenon DEF Handed, AcrossKeys
<1>5. Built' = Built
  BY <1>1, <1>2, Zenon DEF Built
<1> QED
  BY <1>1, <1>3, <1>4, <1>5, Zenon

-----------------------------------------------------------------------------
(* The threads                                                             *)

\* A sequence is one over any set that has its elements.
LEMMA SeqOver ==
  ASSUME NEW S, NEW T, NEW s \in Seq(S), \A q \in 1 .. Len(s) : s[q] \in T
  PROVE  s \in Seq(T)
  OBVIOUS

LEMMA TailOf ==
  ASSUME NEW S, NEW s \in Seq(S), s # <<>>
  PROVE  /\ Tail(s) \in Seq(S) /\ Len(Tail(s)) = Len(s) - 1 /\ Len(s) \in Nat \ {0}
         /\ DOMAIN Tail(s) = 1 .. Len(s) - 1 /\ DOMAIN s = 1 .. Len(s)
         /\ \A q \in 1 .. Len(s) - 1 : Tail(s)[q] = s[q + 1]
         /\ Head(s) = s[1]
  OBVIOUS

LEMMA BusyFinite == IsFiniteSet(Busy) /\ Cardinality(Busy) \in Nat
  BY ExplorerAssumption, FS_Subset, FS_CardinalityType, Zenon DEF Busy

LEMMA GetStep ==
  ASSUME FlightInv, CountInv, DirInv, NEW w \in Worker, Get(w)
  PROVE  FlightInv' /\ CountInv' /\ DirInv'
<1> DEFINE key == Head(queue)
<1>0. /\ at[w] = "get" /\ queue # <<>> /\ queue \in Seq(Queued)
      /\ at' = [at EXCEPT ![w] = "check"] /\ task' = [task EXCEPT ![w] = key]
      /\ queue' = Tail(queue) /\ outputs' = outputs /\ dirs' = dirs /\ unfinished' = unfinished
      /\ UNCHANGED main
  BY Zenon DEF Get, FlightInv
<1>m. /\ pc' = pc /\ Handed' = Handed /\ Built' = Built /\ \A e : Meant(e)' = Meant(e)
  BY <1>0, SameMain, SameInput, Zenon
<1>1. /\ at \in [Worker -> {"get", "check", "rm", "done", "dead"}]
      /\ task = [v \in Worker |-> task[v]]
      /\ at' \in [Worker -> {"get", "check", "rm", "done", "dead"}]
      /\ task' = [v \in Worker |-> task'[v]]
      /\ at'[w] = "check" /\ task'[w] = key
      /\ \A v \in Worker \ {w} : at'[v] = at[v] /\ task'[v] = task[v]
  BY <1>0, Zenon DEF FlightInv
<1>2. /\ Len(queue) \in Nat \ {0} /\ DOMAIN queue = 1 .. Len(queue)
      /\ DOMAIN queue' = 1 .. Len(queue) - 1 /\ Len(queue') = Len(queue) - 1
      /\ \A q \in 1 .. Len(queue) - 1 : queue'[q] = queue[q + 1]
      /\ key = queue[1] /\ queue' \in Seq(Queued)
  BY <1>0, TailOf, Zenon
<1>3. \A p, q \in DOMAIN queue : queue[p] = queue[q] => p = q
  BY Zenon DEF FlightInv
<1> HIDE DEF key
<1>4. key \notin Queued' /\ Queued = Queued' \cup {key} /\ key \in Queued
  <2>1. \A q \in DOMAIN queue' : queue'[q] # key /\ queue'[q] \in Queued
    <3> SUFFICES ASSUME NEW q \in DOMAIN queue'
                 PROVE  queue'[q] # key /\ queue'[q] \in Queued
      BY Zenon
    <3>1. q \in 1 .. Len(queue) - 1 /\ q + 1 \in DOMAIN queue /\ q + 1 # 1 /\ 1 \in DOMAIN queue
      BY <1>2
    <3>2. queue'[q] = queue[q + 1]
      BY <1>2, <3>1, Zenon
    <3>3. queue[q + 1] # queue[1]
      BY <1>3, <3>1, Zenon
    <3> QED
      BY <1>2, <3>1, <3>2, <3>3, Zenon DEF Queued
  <2>2. \A q \in DOMAIN queue : queue[q] = key \/ queue[q] \in Queued'
    <3>1. \A q \in 1 .. Len(queue) : q = 1 \/ (q - 1 \in 1 .. Len(queue) - 1 /\ (q - 1) + 1 = q)
      BY <1>2
    <3>2. \A q \in 1 .. Len(queue) : q = 1 \/ queue[q] = queue'[q - 1]
      BY <1>2, <3>1, Zenon
    <3> QED
      BY <1>2, <3>1, <3>2, Zenon DEF Queued
  <2> QED
    BY <1>2, <2>1, <2>2 DEF Queued
<1>5. With({"check", "dead"})' = With({"check", "dead"}) \cup {key} /\ With({"rm"})' = With({"rm"})
  <2>1. \A v \in Worker : at[v] \in {"check", "dead"} =>
          v # w /\ at'[v] \in {"check", "dead"} /\ task'[v] = task[v]
    BY <1>0, <1>1, Zenon
  <2>2. \A v \in Worker : at'[v] \in {"check", "dead"} =>
          v = w \/ (at[v] \in {"check", "dead"} /\ task'[v] = task[v])
    BY <1>0, <1>1, Zenon
  <2>3. \A v \in Worker : at[v] \in {"rm"} <=> at'[v] \in {"rm"}
    BY <1>0, <1>1, Zenon
  <2>4. \A v \in Worker : at[v] \in {"rm"} => task'[v] = task[v]
    BY <1>0, <1>1, Zenon
  <2>5. With({"check", "dead"})' = With({"check", "dead"}) \cup {key}
    BY <1>1, <2>1, <2>2 DEF With
  <2> QED
    BY <2>3, <2>4, <2>5 DEF With
<1>6. Pending' = Pending
  BY <1>4, <1>5, Zenon DEF Pending
<1>7. FlightInv'
  <2>1. queue' \in Seq(Queued')
    BY <1>2, SeqOver, Zenon DEF Queued
  <2>2. \A p, q \in DOMAIN queue' : queue'[p] = queue'[q] => p = q
    BY <1>2, <1>3
  <2>3. \A v \in Worker : at'[v] \in {"check", "dead"} => task'[v] \notin Queued'
    BY <1>1, <1>4, Zenon DEF FlightInv
  <2>4. \A v \in Worker : at[v] = "rm" => task[v] \in DOMAIN outputs /\ task[v] # key
    BY <1>4, Zenon DEF FlightInv, Pending
  <2>5. \A u, v \in Worker : at'[u] \in {"check", "dead", "rm"} /\ at'[v] \in {"check", "dead", "rm"}
            /\ task'[u] = task'[v] => u = v
    BY <1>1, <1>4, <2>4 DEF FlightInv
  <2>6. \A v \in Worker : at'[v] = "rm" => task'[v] \in DOMAIN outputs'
    BY <1>0, <1>1, <2>4, Zenon
  <2>7. DOMAIN outputs' \cap Pending' = {} /\ (pc' # "abort" => Handed' = DOMAIN outputs' \cup Pending')
    BY <1>0, <1>m, <1>6, Zenon DEF FlightInv
  <2> QED
    BY <1>1, <2>1, <2>2, <2>3, <2>5, <2>6, <2>7, Zenon DEF FlightInv
<1>8. CountInv'
  <2>1. Busy' = Busy \cup {w} /\ w \notin Busy
    BY <1>0, <1>1 DEF Busy
  <2>2. Cardinality(Busy') = Cardinality(Busy) + 1
    BY <2>1, BusyFinite, FS_AddElement, Zenon
  <2> QED
    BY <1>0, <1>m, <1>2, <2>2, BusyFinite DEF CountInv
<1>9. DirInv'
  BY <1>0, <1>m, <1>5, <1>6, Zenon DEF DirInv, DirsAsMeant
<1> QED
  BY <1>7, <1>8, <1>9, Zenon

\* A state that has been built has not been handed out before.
LEMMA CurrentIsNew ==
  ASSUME SuitesInv, PosInv, pc \in Puts
  PROVE  Current \notin Handed
<1>0. mops_len \in Nat /\ mode \in Int /\ j \in Int /\ k \in Int
  BY ExplorerAssumption, FirstMode DEF PosInv, SuitesInv, mops_len
<1>1. CASE pc = "across_put"
  <2>1. Current = <<"across", i>> /\ Handed = AcrossKeys(i) /\ i \in Int
    BY <1>0, <1>1 DEF Current, Handed, PosInv, Mops
  <2> QED
    BY <2>1 DEF AcrossKeys
<1>2. CASE pc = "ordering_put"
  <2>1. Current = <<"ordering", i, j>> /\ Handed = OrderingKeys(i, j) /\ i \in Int
    BY <1>0, <1>2 DEF Current, Handed, PosInv, Omittable, Mops
  <2> QED
    BY <1>0, <2>1 DEF OrderingKeys
<1>3. CASE pc = "atomicity_put"
  <2>1. Current = <<"atomicity", mode, i, j>> /\ Handed = CutKeys(mode, i, j, -1) /\ i \in Int
    BY <1>0, <1>3 DEF Current, Handed, PosInv, Cuttable, Mops
  <2> QED
    BY <1>0, <2>1 DEF CutKeys, Precedes
<1>4. CASE pc = "atomicity_kput"
  <2>1. Current = <<"atomicity", mode, i, j, k>> /\ Handed = CutKeys(mode, i, j, k) /\ i \in Int
    BY <1>0, <1>4 DEF Current, Handed, PosInv, Cuttable, Mops
  <2> QED
    BY <1>0, <2>1 DEF CutKeys, Precedes
<1> QED
  BY <1>1, <1>2, <1>3, <1>4, Zenon DEF Puts

LEMMA CheckStep ==
  ASSUME FlightInv, CountInv, DirInv, good \cap bad = {}, NEW w \in Worker, Check(w)
  PROVE  FlightInv' /\ CountInv' /\ DirInv' /\ (good \cap bad = {})'
<1> DEFINE key == task[w]
<1>0. /\ at[w] = "check" /\ at' = [at EXCEPT ![w] = "rm"] /\ task' = task /\ queue' = queue
      /\ dirs' = dirs /\ unfinished' = unfinished /\ DOMAIN outputs' = DOMAIN outputs \cup {key}
      /\ UNCHANGED main
  BY Zenon DEF Check
<1>m. /\ pc' = pc /\ Handed' = Handed /\ Built' = Built /\ \A e : Meant(e)' = Meant(e)
  BY <1>0, SameMain, SameInput, Zenon
<1>1. /\ at \in [Worker -> {"get", "check", "rm", "done", "dead"}]
      /\ at' \in [Worker -> {"get", "check", "rm", "done", "dead"}]
      /\ at'[w] = "rm" /\ \A v \in Worker \ {w} : at'[v] = at[v]
  BY <1>0, Zenon DEF FlightInv
<1>2. Queued' = Queued
  BY <1>0, Zenon DEF Queued
<1>3. key \notin Queued /\ \A v \in Worker \ {w} : at[v] \in {"check", "dead"} => task[v] # key
  BY <1>0, Zenon DEF FlightInv
<1> HIDE DEF key
<1>4. With({"check", "dead"}) = With({"check", "dead"})' \cup {key} /\ key \notin With({"check", "dead"})'
  <2>1. \A v \in Worker : at'[v] \in {"check", "dead"} <=> at[v] \in {"check", "dead"} /\ v # w
    BY <1>1, Zenon
  <2> QED
    BY <1>0, <1>3, <2>1, Zenon DEF With, key
<1>5. With({"rm"})' = With({"rm"}) \cup {key}
  <2>1. \A v \in Worker : at'[v] \in {"rm"} <=> at[v] \in {"rm"} \/ v = w
    BY <1>1, Zenon
  <2> QED
    BY <1>0, <2>1, Zenon DEF With, key
<1>6. Pending = Pending' \cup {key} /\ key \notin Pending'
  BY <1>2, <1>3, <1>4, Zenon DEF Pending
<1>7. FlightInv'
  <2>1. queue' \in Seq(Queued') /\ task' = [v \in Worker |-> task'[v]]
        /\ \A p, q \in DOMAIN queue' : queue'[p] = queue'[q] => p = q
    BY <1>0, <1>2, Zenon DEF FlightInv
  <2>2. \A v \in Worker : at'[v] \in {"check", "dead"} => task'[v] \notin Queued'
    BY <1>0, <1>1, <1>2, Zenon DEF FlightInv
  <2>3. \A u, v \in Worker : at'[u] \in {"check", "dead", "rm"} /\ at'[v] \in {"check", "dead", "rm"}
            /\ task'[u] = task'[v] => u = v
    BY <1>0, <1>1 DEF FlightInv
  <2>4. \A v \in Worker : at'[v] = "rm" => task'[v] \in DOMAIN outputs'
    BY <1>0, <1>1, Zenon DEF FlightInv, key
  <2>5. DOMAIN outputs' \cap Pending' = {} /\ (pc' # "abort" => Handed' = DOMAIN outputs' \cup Pending')
    BY <1>0, <1>m, <1>6 DEF FlightInv
  <2> QED
    BY <1>1, <2>1, <2>2, <2>3, <2>4, <2>5, Zenon DEF FlightInv
<1>8. CountInv'
  <2>1. Busy' = Busy
    BY <1>0, <1>1, Zenon DEF Busy
  <2> QED
    BY <1>0, <1>m, <2>1, Zenon DEF CountInv
<1>9. DirInv'
  BY <1>0, <1>m, <1>5, <1>6, Zenon DEF DirInv, DirsAsMeant
<1>10. (good \cap bad = {})'
  BY DEF Check
<1> QED
  BY <1>7, <1>8, <1>9, <1>10, Zenon

LEMMA CheckRaisesStep ==
  ASSUME FlightInv, CountInv, DirInv, NEW w \in Worker, CheckRaises(w)
  PROVE  FlightInv' /\ CountInv' /\ DirInv'
<1>0. /\ at[w] = "check" /\ at' = [at EXCEPT ![w] = "dead"] /\ task' = task
      /\ queue' = queue /\ outputs' = outputs /\ dirs' = dirs /\ unfinished' = unfinished
      /\ UNCHANGED main
  BY Zenon DEF CheckRaises, shared
<1>m. /\ pc' = pc /\ Handed' = Handed /\ Built' = Built /\ \A e : Meant(e)' = Meant(e)
  BY <1>0, SameMain, SameInput, Zenon
<1>1. /\ at' \in [Worker -> {"get", "check", "rm", "done", "dead"}]
      /\ \A v \in Worker : at'[v] \in {"check", "dead"} <=> at[v] \in {"check", "dead"}
      /\ \A v \in Worker : at'[v] = "rm" <=> at[v] = "rm"
      /\ \A v \in Worker : at'[v] = "get" <=> at[v] = "get"
  BY <1>0, Zenon DEF FlightInv
<1>2. Queued' = Queued /\ Busy' = Busy
  BY <1>0, <1>1, Zenon DEF Queued, Busy
<1>3. With({"check", "dead"})' = With({"check", "dead"}) /\ With({"rm"})' = With({"rm"})
  BY <1>0, <1>1 DEF With
<1>4. Pending' = Pending
  BY <1>2, <1>3, Zenon DEF Pending
<1>5. FlightInv'
  BY <1>0, <1>m, <1>1, <1>2, <1>4 DEF FlightInv
<1>6. CountInv'
  BY <1>0, <1>m, <1>2, Zenon DEF CountInv
<1>7. DirInv'
  BY <1>0, <1>m, <1>3, <1>4, Zenon DEF DirInv, DirsAsMeant
<1> QED
  BY <1>5, <1>6, <1>7, Zenon

LEMMA RemoveDirStep ==
  ASSUME SuitesInv, PosInv, FlightInv, CountInv, DirInv, NEW w \in Worker, RemoveDir(w)
  PROVE  FlightInv' /\ CountInv' /\ DirInv'
<1> DEFINE key == task[w]
<1>0. /\ at[w] = "rm" /\ at' = [at EXCEPT ![w] = "done"] /\ task' = task
      /\ queue' = queue /\ outputs' = outputs /\ unfinished' = unfinished
      /\ dirs' = [d \in DOMAIN dirs \ {key} |-> dirs[d]]
      /\ UNCHANGED main
  BY Zenon DEF RemoveDir
<1>m. /\ pc' = pc /\ Handed' = Handed /\ Built' = Built /\ \A e : Meant(e)' = Meant(e)
  BY <1>0, SameMain, SameInput, Zenon
<1>1. /\ at' \in [Worker -> {"get", "check", "rm", "done", "dead"}]
      /\ \A v \in Worker : at'[v] \in {"check", "dead"} <=> at[v] \in {"check", "dead"}
      /\ \A v \in Worker : at'[v] = "rm" <=> at[v] = "rm" /\ v # w
      /\ \A v \in Worker : at'[v] = "get" <=> at[v] = "get"
  BY <1>0, Zenon DEF FlightInv
<1>2. Queued' = Queued /\ Busy' = Busy
  BY <1>0, <1>1 DEF Queued, Busy
<1>3. key \in DOMAIN outputs
  BY <1>0, Zenon DEF FlightInv
<1> HIDE DEF key
<1>4. With({"check", "dead"})' = With({"check", "dead"}) /\ With({"rm"}) \subseteq With({"rm"})' \cup {key}
  BY <1>0, <1>1 DEF With, key
<1>5. Pending' = Pending /\ key \notin Pending
  BY <1>2, <1>3, <1>4, Zenon DEF Pending, FlightInv
<1>6. key \notin Built
  <2>1. CASE pc \in Puts
    <3>1. pc # "abort" /\ Current \notin Handed
      BY <2>1, CurrentIsNew, Zenon DEF Puts
    <3> QED
      BY <1>3, <3>1 DEF Built, FlightInv
  <2> QED
    BY <2>1, Zenon DEF Built
<1>7. FlightInv'
  BY <1>0, <1>m, <1>1, <1>2, <1>5 DEF FlightInv
<1>8. CountInv'
  BY <1>0, <1>m, <1>2, Zenon DEF CountInv
<1>9. DirInv'
  BY <1>0, <1>m, <1>4, <1>5, <1>6, Zenon DEF DirInv, DirsAsMeant
<1> QED
  BY <1>7, <1>8, <1>9, Zenon

LEMMA TaskDoneStep ==
  ASSUME FlightInv, CountInv, DirInv, NEW w \in Worker, task_done(w)
  PROVE  FlightInv' /\ CountInv' /\ DirInv'
<1>0. /\ at[w] = "done" /\ at' = [at EXCEPT ![w] = "get"] /\ task' = [task EXCEPT ![w] = NoKey]
      /\ queue' = queue /\ outputs' = outputs /\ unfinished' = unfinished - 1 /\ dirs' = dirs
      /\ UNCHANGED main
  BY Zenon DEF task_done
<1>m. /\ pc' = pc /\ Handed' = Handed /\ Built' = Built /\ \A e : Meant(e)' = Meant(e)
  BY <1>0, SameMain, SameInput, Zenon
<1>1. /\ at' \in [Worker -> {"get", "check", "rm", "done", "dead"}]
      /\ task' = [v \in Worker |-> task'[v]]
      /\ \A v \in Worker : at'[v] \in {"check", "dead"} <=> at[v] \in {"check", "dead"}
      /\ \A v \in Worker : at'[v] = "rm" <=> at[v] = "rm"
      /\ \A v \in Worker : at'[v] = "get" <=> at[v] = "get" \/ v = w
      /\ \A v \in Worker : at[v] \in {"check", "dead", "rm"} => task'[v] = task[v]
  BY <1>0, Zenon DEF FlightInv
<1>2. Queued' = Queued /\ Busy = Busy' \cup {w} /\ w \in Busy /\ Busy' = Busy \ {w}
  BY <1>0, <1>1 DEF Queued, Busy
<1>3. With({"check", "dead"})' = With({"check", "dead"}) /\ With({"rm"})' = With({"rm"})
  BY <1>1 DEF With
<1>4. Pending' = Pending
  BY <1>2, <1>3, Zenon DEF Pending
<1>5. FlightInv'
  BY <1>0, <1>m, <1>1, <1>2, <1>4 DEF FlightInv
<1>6. CountInv'
  <2>1. Cardinality(Busy') = Cardinality(Busy) - 1
    BY <1>2, BusyFinite, FS_RemoveElement, Zenon
  <2>2. Cardinality(Busy) # 0
    BY <1>2, BusyFinite, FS_EmptySet, Zenon
  <2>3. Len(queue) \in Nat
    BY DEF FlightInv
  <2> QED
    BY <1>0, <1>m, <2>1, <2>2, <2>3, BusyFinite DEF CountInv
<1>7. DirInv'
  BY <1>0, <1>m, <1>3, <1>4, Zenon DEF DirInv, DirsAsMeant
<1> QED
  BY <1>5, <1>6, <1>7, Zenon

LEMMA ThreadStep ==
  ASSUME IInv, NEW w \in Worker, Thread(w)
  PROVE  IInv'
<1>1. UNCHANGED main
  BY Zenon DEF Thread, Get, Check, CheckRaises, RemoveDir, task_done
<1>2. SuitesInv' /\ PosInv'
  BY <1>1, SameMain, SameInput, Zenon DEF IInv
<1>3. FlightInv' /\ CountInv' /\ DirInv'
  BY GetStep, CheckStep, CheckRaisesStep, RemoveDirStep, TaskDoneStep, Zenon DEF IInv, Thread
<1>4. (good \cap bad = {})'
  <2>1. CASE Check(w)
    BY <2>1, CheckStep, Zenon DEF IInv
  <2>2. CASE good' = good /\ bad' = bad
    BY <2>2, Zenon DEF IInv
  <2> QED
    BY <2>1, <2>2, Zenon DEF Thread, Get, CheckRaises, RemoveDir, task_done
<1> QED
  BY <1>2, <1>3, <1>4, Zenon DEF IInv

-----------------------------------------------------------------------------
(* The main thread and what it shares with the others                      *)

LEMMA SameFlight ==
  ASSUME UNCHANGED checker, queue' = queue
  PROVE  /\ Queued' = Queued /\ Pending' = Pending /\ Busy' = Busy /\ With({"rm"})' = With({"rm"})
         /\ at' = at /\ task' = task /\ good' = good /\ bad' = bad
  BY Zenon DEF checker, Queued, Pending, With, Busy

\* A step of the main thread alone.
LEMMA QuietStep ==
  ASSUME FlightInv, CountInv, DirInv, UNCHANGED <<input, checker, shared>>,
         pc # "abort", pc' = "abort" \/ Handed' = Handed, Built = {}, Built' = {},
         pc' \in Reads \cup {"set_fs"} => unfinished = 0
  PROVE  FlightInv' /\ CountInv' /\ DirInv'
<1>1. queue' = queue /\ outputs' = outputs /\ dirs' = dirs /\ unfinished' = unfinished /\ UNCHANGED checker
      /\ \A e : Meant(e)' = Meant(e)
  BY SameInput, Zenon DEF shared
<1> QED
  BY <1>1, SameFlight, Zenon DEF FlightInv, CountInv, DirInv, DirsAsMeant

\* A crash directory is built.
LEMMA BuildStep ==
  ASSUME FlightInv, CountInv, DirInv, UNCHANGED <<input, checker, queue, unfinished, outputs>>,
         pc # "abort", pc' \in Puts, Handed' = Handed, Built = {},
         NEW m, NEW e, NEW om,
         construct_crashed_dir(Current', m, e, om),
         CrashState(m, e, om) = Meant(Current')
  PROVE  FlightInv' /\ CountInv' /\ DirInv'
<1> DEFINE key == Current'
<1>1. queue' = queue /\ outputs' = outputs /\ unfinished' = unfinished /\ UNCHANGED checker
      /\ \A x : Meant(x)' = Meant(x)
  BY SameInput, Zenon
<1>2. pc' # "abort" /\ pc' \notin Reads \cup {"set_fs"} /\ Built' = {key}
  BY Zenon DEF Puts, Reads, Built
<1>3. FlightInv' /\ CountInv'
  BY <1>1, <1>2, SameFlight, Zenon DEF FlightInv, CountInv
<1>4. DirInv'
  <2> DEFINE range == UpTo(suite, m, e)
  <2>1. dirs' = IF range = {} THEN dirs
                ELSE [d \in DOMAIN dirs \cup {key} |-> IF d = key THEN Meant(key) ELSE dirs[d]]
    BY Zenon DEF construct_crashed_dir
  <2>2. Meant(key).ops = range \ om
    <3>1. Meant(key) = [mode |-> mode, ops |-> range \ om]
      BY Zenon DEF CrashState
    <3> HIDE DEF key
    <3> QED
      BY <3>1
  <2> HIDE DEF key, range
  <2> QED
    BY <1>1, <1>2, <2>1, <2>2, SameFlight, Zenon DEF DirInv, DirsAsMeant
<1> QED
  BY <1>3, <1>4, Zenon

LEMMA AppendTo ==
  ASSUME NEW S, NEW s \in Seq(S), NEW x
  PROVE  /\ Append(s, x) \in Seq(S \cup {x}) /\ Len(Append(s, x)) = Len(s) + 1 /\ Len(s) \in Nat
         /\ DOMAIN Append(s, x) = 1 .. Len(s) + 1 /\ DOMAIN s = 1 .. Len(s)
         /\ \A q \in 1 .. Len(s) : Append(s, x)[q] = s[q]
         /\ Append(s, x)[Len(s) + 1] = x
<1>1. s \in Seq(S \cup {x})
  OBVIOUS
<1> QED
  BY <1>1

\* check_later.
LEMMA PutStep ==
  ASSUME SuitesInv, PosInv, FlightInv, CountInv, DirInv, UNCHANGED <<input, checker, outputs, dirs>>,
         pc \in Puts, check_later(Current), Handed' = Handed \cup {Current},
         pc' \notin {"abort", "set_fs"} \cup Reads \cup Puts
  PROVE  FlightInv' /\ CountInv' /\ DirInv'
<1> DEFINE key == Current
<1>0. queue' = Append(queue, key) /\ outputs' = outputs /\ dirs' = dirs /\ unfinished' = unfinished + 1
      /\ queue \in Seq(Queued) /\ UNCHANGED checker /\ \A x : Meant(x)' = Meant(x)
  BY SameInput, Zenon DEF check_later, FlightInv
<1>1. /\ Len(queue) \in Nat /\ DOMAIN queue = 1 .. Len(queue)
      /\ DOMAIN queue' = 1 .. Len(queue) + 1 /\ Len(queue') = Len(queue) + 1
      /\ \A q \in 1 .. Len(queue) : queue'[q] = queue[q]
      /\ queue'[Len(queue) + 1] = key /\ queue' \in Seq(Queued \cup {key})
  BY <1>0, AppendTo
<1>2. pc # "abort" /\ Built = {key} /\ Built' = {}
  BY Zenon DEF Built, Puts
<1>3. key \notin Handed /\ Handed = DOMAIN outputs \cup Pending
  BY CurrentIsNew, <1>2, Zenon DEF FlightInv
<1>c. Handed' = Handed \cup {key}
  BY Zenon
<1> HIDE DEF key
<1>4. Queued' = Queued \cup {key}
  <2>1. \A q \in 1 .. Len(queue) : q \in 1 .. Len(queue) + 1
    BY <1>1
  <2>2. Len(queue) + 1 \in 1 .. Len(queue) + 1
    BY <1>1
  <2>3. \A q \in 1 .. Len(queue) + 1 : q \in 1 .. Len(queue) \/ q = Len(queue) + 1
    BY <1>1
  <2> QED
    BY <1>1, <2>1, <2>2, <2>3, Zenon DEF Queued
<1>5. With({"check", "dead"})' = With({"check", "dead"}) /\ With({"rm"})' = With({"rm"}) /\ Busy' = Busy
      /\ at' = at /\ task' = task
  BY <1>0, Zenon DEF checker, With, Busy
<1>6. Pending' = Pending \cup {key}
  BY <1>4, <1>5, Zenon DEF Pending
<1>7. FlightInv'
  <2>1. queue' \in Seq(Queued')
    BY <1>1, <1>4, Zenon
  <2>2. \A q \in 1 .. Len(queue) : queue[q] # key
    BY <1>1, <1>3, Zenon DEF Pending, Queued
  <2>3. \A p, q \in DOMAIN queue' : queue'[p] = queue'[q] => p = q
    <3>1. \A q \in 1 .. Len(queue) + 1 : q \in 1 .. Len(queue) \/ q = Len(queue) + 1
      BY <1>1
    <3> QED
      BY <1>1, <2>2, <3>1, Zenon DEF FlightInv
  <2>4. \A v \in Worker : at'[v] \in {"check", "dead"} => task'[v] \notin Queued'
    <3>1. \A v \in Worker : at[v] \in {"check", "dead"} => task[v] \in Pending
      BY Zenon DEF Pending, With
    <3> QED
      BY <1>3, <1>4, <1>5, <3>1, Zenon DEF FlightInv
  <2>5. DOMAIN outputs' \cap Pending' = {} /\ Handed' = DOMAIN outputs' \cup Pending'
    BY <1>0, <1>3, <1>6, <1>c DEF FlightInv
  <2> QED
    BY <1>0, <1>5, <2>1, <2>3, <2>4, <2>5, Zenon DEF FlightInv
<1>8. CountInv'
  BY <1>0, <1>1, <1>5, BusyFinite DEF CountInv
<1>9. DirInv'
  BY <1>0, <1>2, <1>5, <1>6, Zenon DEF DirInv, DirsAsMeant
<1> QED
  BY <1>7, <1>8, <1>9, Zenon

\* queue.join has returned: nothing is left in flight.
LEMMA NothingLeft ==
  ASSUME FlightInv, CountInv, DirInv, unfinished = 0, Built = {}
  PROVE  /\ queue = <<>> /\ Queued = {} /\ Pending = {} /\ dirs = Empty
         /\ \A w \in Worker : at[w] = "get"
<1>1. Len(queue) \in Nat /\ queue \in Seq(Queued)
  BY DEF FlightInv
<1>2. Len(queue) = 0 /\ Cardinality(Busy) = 0
  BY <1>1, BusyFinite DEF CountInv
<1>3. queue = <<>>
  BY <1>1, <1>2
<1>4. Busy = {}
  BY <1>2, BusyFinite, FS_EmptySet, Zenon
<1>5. \A w \in Worker : at[w] = "get"
  BY <1>4, Zenon DEF Busy
<1>6. Queued = {} /\ With({"check", "dead"}) = {} /\ With({"rm"}) = {}
  BY <1>3, <1>5 DEF Queued, With
<1>7. dirs = Empty
  BY <1>6, Zenon DEF DirInv, Pending, Empty
<1> QED
  BY <1>3, <1>5, <1>6, <1>7, Zenon DEF Pending

\* reset.
LEMMA ResetStep ==
  ASSUME FlightInv, CountInv, DirInv, UNCHANGED <<input, checker>>, reset, unfinished = 0,
         Built = {}, Built' = {}, Handed' = {}
  PROVE  FlightInv' /\ CountInv' /\ DirInv'
<1>1. queue' = queue /\ dirs' = dirs /\ unfinished' = unfinished /\ outputs' = Empty /\ UNCHANGED checker
      /\ \A x : Meant(x)' = Meant(x) /\ DOMAIN outputs' = {}
  BY SameInput, Zenon DEF reset, Empty
<1>2. Pending = {} /\ \A w \in Worker : at[w] = "get"
  BY NothingLeft, Zenon
<1> QED
  BY <1>1, <1>2, SameFlight DEF FlightInv, CountInv, DirInv, DirsAsMeant

-----------------------------------------------------------------------------
(* The first round                                                         *)

LEMMA Basics ==
  ASSUME SuitesInv
  PROVE  /\ mops_len \in Nat \ {0} /\ mops_len - 1 \in Mops
         /\ \A m \in DOMAIN Mode, x \in Mops : DopsLen(m, x) \in Nat
         /\ Mops \subseteq Nat
  BY ExplorerAssumption, FirstMode DEF SuitesInv, mops_len, Mops, IsTrace

LEMMA StartStep ==
  ASSUME IInv, Start
  PROVE  IInv'
<1>0. /\ pc = "set_fs" /\ UNCHANGED <<input, mode, i, j, k, micro_end, omitted, findings, checker, shared>>
      /\ atomic_patch_middle' = atomic_patch_middle /\ pc' \in {"abort", "across"}
      /\ pc' = "abort" => disk_end' = disk_end /\ saved' = saved
      /\ pc' = "across" => disk_end' = dops_len(suite, micro_end) - 1 /\ saved' = SaveAll(mode)
  BY Zenon DEF Start, findings
<1>1. SuitesInv /\ SuitesInv' /\ PosInv /\ FlightInv /\ CountInv /\ DirInv /\ UNCHANGED input
  BY <1>0, SameInput, Zenon DEF IInv
<1>2. mode = 1 /\ omitted = {} /\ i = 0 /\ micro_end \in Mops
  BY <1>0, <1>1, Zenon DEF PosInv
<1>3. disk_end' \in Int
  BY <1>0, <1>1, <1>2, Basics, FirstMode, SMTT(30) DEF PosInv, suite, DopsLen
<1>4. pc' = "across" => saved' = [omitted |-> {}, mode |-> 1, micro_end |-> mops_len - 1,
                                  disk_end |-> DopsLen(1, mops_len - 1) - 1]
  BY <1>0, <1>2, Zenon DEF SaveAll, DopsLen
<1>5. PosInv'
  <2>1. /\ mops_len' = mops_len /\ Mops' = Mops /\ mops_len \in Nat \ {0} /\ DOMAIN Mode = 1 .. Len(Mode)
        /\ Len(Mode) \in Nat \ {0} /\ DopsLen(1, mops_len - 1)' = DopsLen(1, mops_len - 1)
    BY <1>1, SameInput, Basics, FirstMode
  <2>2. /\ mode' = 1 /\ j' \in Nat /\ k' \in Nat /\ i' = 0 /\ omitted' = {} /\ micro_end' \in Mops /\ disk_end' \in Int
        /\ atomic_patch_middle' \subseteq Mops /\ mode' \in DOMAIN Mode
    BY <1>0, <1>1, <1>2, <1>3, Zenon DEF PosInv
  <2>3. i' \in 0 .. mops_len /\ i' \in 0 .. mops_len + Len(Mode) + 1
    BY <2>1, <2>2
  <2>4. CASE pc' = "abort"
    BY <2>1, <2>2, <2>3, <2>4 DEF PosInv, AcrossPc, OrderingPc, AtomicityPc
  <2>5. CASE pc' = "across"
    BY <1>4, <2>1, <2>2, <2>3, <2>5 DEF PosInv, AcrossPc, OrderingPc, AtomicityPc
  <2> QED
    BY <1>0, <2>4, <2>5
<1>6. FlightInv' /\ CountInv' /\ DirInv'
  <2>1. pc' = "abort" \/ Handed' = Handed
    BY <1>0, <1>2 DEF Handed, AcrossKeys
  <2>2. Built = {} /\ Built' = {}
    BY <1>0, Zenon DEF Built, Puts
  <2> QED
    BY <1>0, <1>1, <2>1, <2>2, QuietStep, Zenon DEF Reads
<1> QED
  BY <1>0, <1>1, <1>5, <1>6, Zenon DEF IInv, checker

LEMMA AcrossConstructStep ==
  ASSUME IInv, AcrossConstruct
  PROVE  IInv'
<1> DEFINE last == dops_len(suite, i) - 1
<1>0. /\ pc = "across" /\ i < mops_len /\ pc' = "across_put" /\ micro_end' = i /\ disk_end' = last
      /\ construct_crashed_dir(<<"across", i>>, i, last, omitted)
      /\ UNCHANGED <<input, checker, queue, unfinished, outputs>>
      /\ UNCHANGED <<mode, i, j, k, omitted, saved, atomic_patch_middle>>
  BY Zenon DEF AcrossConstruct, EndAt, findings
<1>1. SuitesInv /\ SuitesInv' /\ PosInv /\ FlightInv /\ CountInv /\ DirInv /\ UNCHANGED input
  BY <1>0, SameInput, Zenon DEF IInv
<1>2. mode = 1 /\ omitted = {} /\ i \in Mops
  BY <1>0, <1>1, Basics, SMTT(30) DEF PosInv, AcrossPc, Mops
<1>3. disk_end' \in Int
  BY <1>0, <1>1, <1>2, Basics, FirstMode DEF suite, DopsLen
<1>4. PosInv'
  BY <1>0, <1>1, <1>2, <1>3, SameInput, Zenon
  DEF PosInv, AcrossPc, OrderingPc, AtomicityPc
<1>5. FlightInv' /\ CountInv' /\ DirInv'
  <2>1. Current' = <<"across", i>> /\ Handed' = Handed /\ Built = {}
    BY <1>0, Zenon DEF Current, Handed, Built, Puts, AcrossKeys
  <2>2. CrashState(i, last, omitted) = Meant(Current')
    <3>1. UpTo(suite, i, last) = PrefixOf(1, i)
      BY <1>1, <1>2, UpToFull, Basics, Zenon DEF suite, DopsLen
    <3> QED
      BY <1>2, <2>1, <3>1, MeantOf, Zenon DEF CrashState
  <2>3. pc' \in Puts /\ pc # "abort"
    BY <1>0, Zenon DEF Puts
  <2> HIDE DEF last
  <2> QED
    BY <1>0, <1>1, <2>1, <2>2, <2>3, BuildStep, Zenon
<1> QED
  BY <1>0, <1>1, <1>4, <1>5, Zenon DEF IInv, checker

LEMMA AcrossPutStep ==
  ASSUME IInv, AcrossPut
  PROVE  IInv'
<1>0. /\ pc = "across_put" /\ pc' = "across" /\ i' = i + 1 /\ check_later(<<"across", i>>)
      /\ UNCHANGED <<input, checker, outputs, dirs>>
      /\ UNCHANGED <<mode, micro_end, disk_end, omitted, saved, j, k, atomic_patch_middle>>
  BY Zenon DEF AcrossPut, replayer, findings
<1>1. SuitesInv /\ SuitesInv' /\ PosInv /\ FlightInv /\ CountInv /\ DirInv /\ UNCHANGED input
  BY <1>0, SameInput, Zenon DEF IInv
<1>2. i \in Mops /\ i \in Nat
  BY <1>0, <1>1, Basics, Zenon DEF PosInv
<1>3. PosInv'
  BY <1>0, <1>1, <1>2, SameInput, Basics, SMTT(30)
  DEF PosInv, AcrossPc, OrderingPc, AtomicityPc, Mops
<1>4. FlightInv' /\ CountInv' /\ DirInv'
  <2>1. Current = <<"across", i>> /\ pc \in Puts /\ pc' \notin {"abort", "set_fs"} \cup Reads \cup Puts
    BY <1>0, Zenon DEF Current, Puts, Reads
  <2>2. Handed = AcrossKeys(i) /\ Handed' = AcrossKeys(i + 1)
    BY <1>0, Zenon DEF Handed, AcrossKeys
  <2>3. Handed' = Handed \cup {<<"across", i>>}
    BY <1>2, <2>2 DEF AcrossKeys
  <2> QED
    BY <1>0, <1>1, <2>1, <2>3, PutStep, Zenon
<1> QED
  BY <1>0, <1>1, <1>3, <1>4, Zenon DEF IInv, checker

LEMMA AcrossJoinStep ==
  ASSUME IInv, AcrossJoin
  PROVE  IInv'
<1>0. /\ pc = "across" /\ i = mops_len /\ unfinished = 0 /\ i' = 0 /\ pc' = "across_scan"
      /\ UNCHANGED <<input, checker, shared>>
      /\ UNCHANGED <<mode, micro_end, disk_end, omitted, saved, j, k, atomic_patch_middle>>
  BY Zenon DEF AcrossJoin, replayer, findings, Joined
<1>1. SuitesInv /\ SuitesInv' /\ PosInv /\ FlightInv /\ CountInv /\ DirInv /\ UNCHANGED input
  BY <1>0, SameInput, Zenon DEF IInv
<1>2. PosInv'
  BY <1>0, <1>1, SameInput, Basics, SMTT(30)
  DEF PosInv, AcrossPc, OrderingPc, AtomicityPc, Mops
<1>3. FlightInv' /\ CountInv' /\ DirInv'
  <2>1. Handed' = Handed /\ Built = {} /\ Built' = {}
    BY <1>0, <1>1, SameInput, Zenon DEF Handed, AcrossKeys, Built, Puts
  <2> QED
    BY <1>0, <1>1, <2>1, QuietStep, Zenon
<1> QED
  BY <1>0, <1>1, <1>2, <1>3, Zenon DEF IInv, checker

\* The inner loop of the scan stops where the run of failures does.
LEMMA RunEndIs ==
  ASSUME SuitesInv, NEW x \in Mops, Failed(<<"across", x>>)
  PROVE  /\ RunEnd(x) \in x .. mops_len - 1
         /\ \A z \in x .. RunEnd(x) : Failed(<<"across", z>>)
         /\ RunEnd(x) = mops_len - 1 \/ ~Failed(<<"across", RunEnd(x) + 1>>)
<1> DEFINE last == mops_len - 1
           Stops(y) == y = last \/ ~Failed(<<"across", y + 1>>)
           S == {y \in x .. last : Stops(y)}
<1>0. x \in Nat /\ last \in Nat /\ x <= last
  BY Basics DEF Mops
<1>1. S \in SUBSET Nat /\ S # {}
  <2>1. last \in S
    BY <1>0
  <2> QED
    BY <1>0, <2>1
<1>2. PICK y \in S : \A z \in S : y <= z
  BY <1>1, SomeLeast, Zenon
<1>3. ASSUME NEW z \in x .. y PROVE Failed(<<"across", z>>)
  <2>1. CASE z = x
    BY <2>1, Zenon
  <2>2. CASE z # x
    <3>1. z - 1 \in x .. last /\ z - 1 # last /\ (z - 1) + 1 = z /\ ~(y <= z - 1)
      BY <1>0, <1>2, <2>2
    <3>2. z - 1 \notin S
      BY <1>2, <3>1, Zenon
    <3> QED
      BY <3>1, <3>2, Zenon
  <2> QED
    BY <2>1, <2>2, Zenon
<1>4. \E e \in x .. last : (\A z \in x .. e : Failed(<<"across", z>>)) /\ Stops(e)
  BY <1>2, <1>3, Zenon
<1> QED
  BY <1>4, Zenon DEF RunEnd

LEMMA AcrossScanStep ==
  ASSUME IInv, AcrossScan
  PROVE  IInv'
<1>0. /\ pc = "across_scan" /\ i < mops_len /\ pc' = pc
      /\ UNCHANGED <<input, checker, shared>>
      /\ UNCHANGED <<mode, micro_end, disk_end, omitted, saved, j, k>>
  BY Zenon DEF AcrossScan, replayer
<1>1. SuitesInv /\ SuitesInv' /\ PosInv /\ FlightInv /\ CountInv /\ DirInv /\ UNCHANGED input
  BY <1>0, SameInput, Zenon DEF IInv
<1>2. i \in Mops /\ i \in Nat /\ mops_len \in Nat /\ atomic_patch_middle \subseteq 0 .. mops_len - 1
  BY <1>0, <1>1, Basics, SMTT(30) DEF PosInv, Mops
<1>3. i' \in 0 .. mops_len /\ atomic_patch_middle' \subseteq Mops
  <2>1. CASE Failed(<<"across", i>>)
    <3>1. /\ i' = RunEnd(i) + 1
          /\ atomic_patch_middle' = atomic_patch_middle \cup {i} \cup i .. RunEnd(i) - 1
      BY <2>1, Zenon DEF AcrossScan
    <3>2. RunEnd(i) \in i .. mops_len - 1
      BY <1>1, <1>2, <2>1, RunEndIs, Zenon
    <3>3. {i} \cup i .. RunEnd(i) - 1 \subseteq 0 .. mops_len - 1
      BY <1>2, <3>2 DEF Mops
    <3>4. i' \in 0 .. mops_len
      BY <1>2, <3>1, <3>2
    <3>5. atomic_patch_middle' \subseteq 0 .. mops_len - 1
      BY <1>2, <3>1, <3>3, Zenon
    <3> QED
      BY <3>4, <3>5, Zenon DEF Mops
  <2>2. CASE ~Failed(<<"across", i>>)
    <3>1. i' = i + 1 /\ atomic_patch_middle' = atomic_patch_middle
      BY <2>2, Zenon DEF AcrossScan, findings
    <3> QED
      BY <1>2, <3>1 DEF Mops
  <2> QED
    BY <2>1, <2>2, Zenon
<1>4. PosInv'
  BY <1>0, <1>1, <1>3, SameInput, Zenon DEF PosInv, AcrossPc, OrderingPc, AtomicityPc
<1>5. FlightInv' /\ CountInv' /\ DirInv'
  <2>1. Handed' = Handed /\ Built = {} /\ Built' = {} /\ unfinished = 0
    BY <1>0, <1>1, SameInput, Zenon DEF Handed, AcrossKeys, Built, Puts, CountInv, Reads
  <2> QED
    BY <1>0, <1>1, <2>1, QuietStep, Zenon
<1> QED
  BY <1>0, <1>1, <1>4, <1>5, Zenon DEF IInv, checker

LEMMA AcrossDoneStep ==
  ASSUME IInv, AcrossDone
  PROVE  IInv'
<1>0. /\ pc = "across_scan" /\ i >= mops_len /\ load /\ reset /\ i' = 0 /\ pc' = "ordering"
      /\ UNCHANGED <<input, checker>> /\ UNCHANGED <<j, k, saved, atomic_patch_middle>>
  BY Zenon DEF AcrossDone, findings
<1>1. SuitesInv /\ SuitesInv' /\ PosInv /\ FlightInv /\ CountInv /\ DirInv /\ UNCHANGED input
  BY <1>0, SameInput, Zenon DEF IInv
<1>2. /\ mode' = 1 /\ omitted' = {} /\ micro_end' = mops_len - 1
      /\ disk_end' = DopsLen(1, mops_len - 1) - 1
  BY <1>0, <1>1, SMTT(30) DEF PosInv, AcrossPc, load
<1>3. PosInv'
  BY <1>0, <1>1, <1>2, SameInput, Basics, FirstMode, SMTT(30) DEF PosInv, AcrossPc, OrderingPc, AtomicityPc
<1>4. FlightInv' /\ CountInv' /\ DirInv'
  <2>1. Built = {} /\ Built' = {} /\ unfinished = 0
    BY <1>0, <1>1, Zenon DEF Built, Puts, CountInv, Reads
  <2>2. Handed' = OrderingKeys(0, 0)
    BY <1>0, <1>1, SamePatches, Zenon DEF Handed
  <2>3. OrderingKeys(0, 0) = {}
    BY <1>1, OrderingKey, Basics DEF OrderingKeys
  <2> QED
    BY <1>0, <1>1, <2>1, <2>2, <2>3, ResetStep, Zenon
<1> QED
  BY <1>0, <1>1, <1>3, <1>4, Zenon DEF IInv, checker
-----------------------------------------------------------------------------
(* The second round                                                        *)

LEMMA OrderingFields ==
  ASSUME NEW key \in ToCheck.ordering_report
  PROVE  /\ key = <<"ordering", key[2], key[3]>> /\ key[2] \in Mops /\ key[3] \in Mops /\ key[2] < key[3]
         /\ Omittable(key[2]) /\ EndsOrdering(key[3])
<1>1. PICK x, y \in Mops : key = <<"ordering", x, y>> /\ x < y /\ Omittable(x) /\ EndsOrdering(y)
  BY OrderingKey, Zenon
<1>2. key[2] = x /\ key[3] = y
  BY <1>1, Zenon
<1> QED
  BY <1>1, <1>2, Zenon

\* The keys handed out, from one step of the two loops to the next.
LEMMA OrderingKeysGrow ==
  ASSUME SuitesInv, NEW a \in Mops
  PROVE  /\ ~Omittable(a) => OrderingKeys(a + 1, 0) = OrderingKeys(a, 0)
         /\ OrderingKeys(a, a + 1) = OrderingKeys(a, 0)
         /\ OrderingKeys(a, mops_len) = OrderingKeys(a + 1, 0)
         /\ \A b \in Mops :
              IF a < b /\ Omittable(a) /\ EndsOrdering(b) /\ LegalState(<<"ordering", a, b>>)
              THEN OrderingKeys(a, b + 1) = OrderingKeys(a, b) \cup {<<"ordering", a, b>>}
              ELSE OrderingKeys(a, b + 1) = OrderingKeys(a, b)
<1> DEFINE T == ToCheck.ordering_report
<1>0. mops_len \in Nat /\ a \in Nat
      /\ \A key \in T : /\ key[2] \in Nat /\ key[3] \in Nat /\ key[2] < key[3] /\ key[3] < mops_len
                        /\ Omittable(key[2]) /\ EndsOrdering(key[3]) /\ key = <<"ordering", key[2], key[3]>>
  <2>1. \A x \in Mops : x \in Nat /\ x < mops_len
    BY Basics DEF Mops
  <2> QED
    BY <2>1, OrderingFields, Basics, Zenon
<1> HIDE DEF T
<1>1. \A x, y : OrderingKeys(x, y) = {key \in T : LegalState(key) /\ (key[2] < x \/ (key[2] = x /\ key[3] < y))}
  BY Zenon DEF OrderingKeys, T
<1>2. ASSUME ~Omittable(a) PROVE OrderingKeys(a + 1, 0) = OrderingKeys(a, 0)
  <2>1. \A key \in T : key[2] < a + 1 <=> key[2] < a
    BY <1>0, <1>2
  <2>2. \A key \in T : ~(key[3] < 0)
    BY <1>0
  <2> QED
    BY <1>1, <2>1, <2>2, Zenon
<1>3. OrderingKeys(a, a + 1) = OrderingKeys(a, 0)
  <2>1. \A key \in T : ~(key[2] = a /\ key[3] < a + 1) /\ ~(key[3] < 0)
    BY <1>0
  <2> QED
    BY <1>1, <2>1, Zenon
<1>4. OrderingKeys(a, mops_len) = OrderingKeys(a + 1, 0)
  <2>1. \A key \in T : key[3] < mops_len /\ ~(key[3] < 0) /\ (key[2] < a + 1 <=> key[2] < a \/ key[2] = a)
    BY <1>0
  <2> QED
    BY <1>1, <2>1, Zenon
<1>5. ASSUME NEW b \in Mops
      PROVE  IF a < b /\ Omittable(a) /\ EndsOrdering(b) /\ LegalState(<<"ordering", a, b>>)
             THEN OrderingKeys(a, b + 1) = OrderingKeys(a, b) \cup {<<"ordering", a, b>>}
             ELSE OrderingKeys(a, b + 1) = OrderingKeys(a, b)
  <2> DEFINE new == <<"ordering", a, b>>
  <2>0. new[2] = a /\ new[3] = b /\ b \in Nat /\ b < b + 1
    BY Basics
  <2>1. \A key \in T : key[2] = a /\ key[3] < b + 1 <=> (key[2] = a /\ key[3] < b) \/ key = new
    BY <1>0, <2>0
  <2>2. new \in T => a < b /\ Omittable(a) /\ EndsOrdering(b)
    BY <1>0, <2>0, Zenon
  <2>3. a < b /\ Omittable(a) /\ EndsOrdering(b) => new \in T
    BY OrderingKey, Zenon DEF T
  <2> HIDE DEF new
  <2>4. CASE a < b /\ Omittable(a) /\ EndsOrdering(b) /\ LegalState(new)
    <3>1. new \in T /\ LegalState(new)
      BY <2>3, <2>4, Zenon
    <3>2. OrderingKeys(a, b + 1) = OrderingKeys(a, b) \cup {new}
      BY <1>1, <2>0, <2>1, <3>1, Zenon
    <3> QED
      BY <2>4, <3>2, Zenon DEF new
  <2>5. CASE ~(a < b /\ Omittable(a) /\ EndsOrdering(b) /\ LegalState(new))
    <3>1. ~(new \in T /\ LegalState(new))
      BY <2>2, <2>5, Zenon
    <3>2. OrderingKeys(a, b + 1) = OrderingKeys(a, b)
      BY <1>1, <2>1, <3>1, Zenon
    <3> QED
      BY <2>5, <3>2, Zenon DEF new
  <2> QED
    BY <2>4, <2>5, Zenon
<1> QED
  BY <1>2, <1>3, <1>4, <1>5, Zenon

LEMMA OrderingSkipStep ==
  ASSUME IInv, OrderingSkip
  PROVE  IInv'
<1>0. /\ pc = "ordering" /\ i < mops_len /\ pc' = pc /\ i' = i + 1
      /\ dops_len(suite, i) = 0 \/ InPatch(i)
      /\ UNCHANGED <<input, checker, shared>>
      /\ UNCHANGED <<mode, micro_end, disk_end, omitted, saved, j, k, atomic_patch_middle>>
  BY Zenon DEF OrderingSkip, replayer, findings
<1>1. SuitesInv /\ SuitesInv' /\ PosInv /\ FlightInv /\ CountInv /\ DirInv /\ UNCHANGED input
  BY <1>0, SameInput, Zenon DEF IInv
<1>2. i \in Mops /\ i \in Nat /\ mode = 1 /\ i + 1 \in 0 .. mops_len
  BY <1>0, <1>1, Basics DEF PosInv, OrderingPc, Mops
<1>3. PosInv'
  BY <1>0, <1>1, <1>2, SameInput, Zenon DEF PosInv, AcrossPc, OrderingPc, AtomicityPc
<1>4. FlightInv' /\ CountInv' /\ DirInv'
  <2>1. Handed = OrderingKeys(i, 0) /\ Handed' = OrderingKeys(i + 1, 0) /\ Built = {} /\ Built' = {}
        /\ pc' \notin Reads \cup {"set_fs"}
    BY <1>0, <1>1, SamePatches, Zenon DEF Handed, Built, Puts, Reads
  <2>2. ~Omittable(i)
    BY <1>0, <1>2, Zenon DEF Omittable, DopsLen, suite
  <2> QED
    BY <1>0, <1>1, <1>2, <2>1, <2>2, OrderingKeysGrow, QuietStep, Zenon
<1> QED
  BY <1>0, <1>1, <1>3, <1>4, Zenon DEF IInv, checker

LEMMA OrderingOmitStep ==
  ASSUME IInv, OrderingOmit
  PROVE  IInv'
<1>0. /\ pc = "ordering" /\ i < mops_len /\ pc' = "ordering_j" /\ j' = i + 1
      /\ dops_len(suite, i) # 0 /\ ~InPatch(i) /\ omitted' = dops_omit(DopsOf(i))
      /\ UNCHANGED <<input, checker, shared>>
      /\ UNCHANGED <<mode, micro_end, disk_end, saved, i, k, atomic_patch_middle>>
  BY Zenon DEF OrderingOmit, findings
<1>1. SuitesInv /\ SuitesInv' /\ PosInv /\ FlightInv /\ CountInv /\ DirInv /\ UNCHANGED input
  BY <1>0, SameInput, Zenon DEF IInv
<1>2. i \in Mops /\ i \in Nat /\ mode = 1 /\ omitted = {} /\ i + 1 \in i + 1 .. mops_len /\ i + 1 \in Nat
  BY <1>0, <1>1, Basics DEF PosInv, OrderingPc, Mops
<1>3. Omittable(i)
  BY <1>0, <1>2, Zenon DEF Omittable, DopsLen, suite
<1>4. omitted' = Lost(i)
  <2>1. DopsOf(i) = DopsIn(1, i)
    BY <1>2, Zenon DEF DopsOf, DopsIn, DopsLen, suite
  <2>2. \A d \in DopsIn(1, i) : d[1] = i
    BY InDops
  <2> QED
    BY <1>0, <1>2, <2>1, <2>2, Zenon DEF dops_omit, Lost
<1>5. PosInv'
  BY <1>0, <1>1, <1>2, <1>3, <1>4, SameInput, SamePatches, Zenon DEF PosInv, AcrossPc, OrderingPc, AtomicityPc
<1>6. FlightInv' /\ CountInv' /\ DirInv'
  <2>1. Handed = OrderingKeys(i, 0) /\ Handed' = OrderingKeys(i, i + 1) /\ Built = {} /\ Built' = {}
        /\ pc' \notin Reads \cup {"set_fs"}
    BY <1>0, <1>1, SamePatches, Zenon DEF Handed, Built, Puts, Reads
  <2> QED
    BY <1>0, <1>1, <1>2, <2>1, OrderingKeysGrow, QuietStep, Zenon
<1> QED
  BY <1>0, <1>1, <1>5, <1>6, Zenon DEF IInv, checker

\* What holds at the head of the inner loop.
LEMMA OrderingFacts ==
  ASSUME SuitesInv, PosInv, pc \in {"ordering_j", "ordering_put"}
  PROVE  /\ mode = 1 /\ omitted = Lost(i) /\ Omittable(i) /\ i \in Mops /\ i \in Nat
         /\ j \in i + 1 .. mops_len /\ j \in Nat /\ i < j /\ mops_len \in Nat
         /\ pc = "ordering_put" \/ j < mops_len => j \in Mops
<1>1. mode = 1 /\ omitted = Lost(i) /\ Omittable(i) /\ j \in i + 1 .. mops_len
      /\ (pc = "ordering_put" => EndsOrdering(j))
  BY Zenon DEF PosInv, OrderingPc
<1> QED
  BY <1>1, Basics DEF Omittable, EndsOrdering, Mops

LEMMA OrderingTryStep ==
  ASSUME IInv, OrderingTry
  PROVE  IInv'
<1> DEFINE last == dops_len(suite, j) - 1
<1>0. /\ pc = "ordering_j" /\ j < mops_len
      /\ UNCHANGED <<input, checker, queue, unfinished, outputs>>
      /\ UNCHANGED <<mode, omitted, saved, i, k, atomic_patch_middle>>
  BY Zenon DEF OrderingTry, findings
<1>1. SuitesInv /\ SuitesInv' /\ PosInv /\ FlightInv /\ CountInv /\ DirInv /\ UNCHANGED input
  BY <1>0, SameInput, Zenon DEF IInv
<1>2. /\ mode = 1 /\ omitted = Lost(i) /\ Omittable(i) /\ i \in Mops /\ i \in Nat
      /\ j \in Mops /\ j \in Nat /\ i < j /\ mops_len \in Nat
      /\ j + 1 \in i + 1 .. mops_len /\ j + 1 \in Nat
  BY <1>0, <1>1, OrderingFacts
<1>3. last = DopsLen(1, j) - 1 /\ last \in Int /\ suite = suites[1]
  BY <1>1, <1>2, Basics, FirstMode DEF DopsLen, suite
<1>4. Handed = OrderingKeys(i, j) /\ Built = {} /\ pc # "abort"
  BY <1>0, Zenon DEF Handed, Built, Puts
<1>5. CASE j' = j + 1 /\ pc' = pc /\ dirs' = dirs /\ micro_end' \in {micro_end, j}
           /\ disk_end' \in {disk_end, last} /\ ~(EndsOrdering(j) /\ LegalState(<<"ordering", i, j>>))
  <2>1. PosInv'
    BY <1>0, <1>1, <1>2, <1>3, <1>5, SameInput, SamePatches, Zenon
    DEF PosInv, AcrossPc, OrderingPc, AtomicityPc
  <2>2. Handed' = OrderingKeys(i, j + 1) /\ Built' = {} /\ pc' \notin Reads \cup {"set_fs"}
    BY <1>0, <1>1, <1>5, SamePatches, Zenon DEF Handed, Built, Puts, Reads
  <2>3. Handed' = Handed
    BY <1>1, <1>2, <1>4, <1>5, <2>2, OrderingKeysGrow, Zenon
  <2>4. FlightInv' /\ CountInv' /\ DirInv'
    BY <1>0, <1>1, <1>4, <1>5, <2>2, <2>3, QuietStep, Zenon DEF shared
  <2> QED
    BY <1>0, <1>1, <2>1, <2>4, Zenon DEF IInv, checker
<1>6. CASE /\ micro_end' = j /\ disk_end' = last /\ EndsOrdering(j) /\ LegalState(<<"ordering", i, j>>)
           /\ construct_crashed_dir(<<"ordering", i, j>>, j, last, omitted)
           /\ pc' = "ordering_put" /\ j' = j
  <2>1. Current' = <<"ordering", i, j>> /\ pc' \in Puts
    BY <1>0, <1>6, Zenon DEF Current, Puts
  <2>2. PosInv'
    BY <1>0, <1>1, <1>2, <1>3, <1>6, <2>1, SameInput, SamePatches, Zenon
    DEF PosInv, AcrossPc, OrderingPc, AtomicityPc
  <2>3. Handed' = Handed
    BY <1>0, <1>1, <1>6, SamePatches, Zenon DEF Handed
  <2>4. CrashState(j, last, omitted) = Meant(Current')
    <3>1. UpTo(suite, j, last) = PrefixOf(1, j)
      BY <1>2, <1>3, UpToFull, Zenon
    <3> QED
      BY <1>2, <2>1, <3>1, MeantOf, Zenon DEF CrashState
  <2>5. construct_crashed_dir(Current', j, last, omitted)
    BY <1>6, <2>1, Zenon
  <2> HIDE DEF last
  <2>6. FlightInv' /\ CountInv' /\ DirInv'
    BY <1>0, <1>1, <1>4, <2>1, <2>3, <2>4, <2>5, BuildStep, Zenon
  <2> QED
    BY <1>0, <1>1, <2>2, <2>6, Zenon DEF IInv, checker
<1>8. EndsOrdering(j) <=> ~(dops_len(suite, j) = 0 \/ j \in atomic_patch_middle)
  BY <1>2, <1>3, Zenon DEF EndsOrdering, DopsLen
<1>9. EndsOrdering(j) => (is_legal(trace, suite, j, last, omitted) <=> LegalState(<<"ordering", i, j>>))
  BY <1>1, <1>2, <1>3, LegalOrdering, Zenon
<1> QED
  BY <1>5, <1>6, <1>8, <1>9, Zenon DEF OrderingTry, EndAt

LEMMA OrderingPutStep ==
  ASSUME IInv, OrderingPut
  PROVE  IInv'
<1>0. /\ pc = "ordering_put" /\ pc' = "ordering_j" /\ j' = j + 1 /\ check_later(<<"ordering", i, j>>)
      /\ UNCHANGED <<input, checker, outputs, dirs>>
      /\ UNCHANGED <<mode, micro_end, disk_end, omitted, saved, i, k, atomic_patch_middle>>
  BY Zenon DEF OrderingPut, replayer, findings
<1>1. SuitesInv /\ SuitesInv' /\ PosInv /\ FlightInv /\ CountInv /\ DirInv /\ UNCHANGED input
  BY <1>0, SameInput, Zenon DEF IInv
<1>2. /\ mode = 1 /\ omitted = Lost(i) /\ Omittable(i) /\ i \in Mops /\ i \in Nat
      /\ j \in Mops /\ j \in Nat /\ i < j /\ mops_len \in Nat
  BY <1>0, <1>1, OrderingFacts, Zenon
<1>3. EndsOrdering(j) /\ LegalState(<<"ordering", i, j>>)
  BY <1>0, <1>1, Zenon DEF PosInv, Current
<1>4. j + 1 \in i + 1 .. mops_len /\ j + 1 \in Nat
  BY <1>2 DEF Mops
<1>5. PosInv'
  BY <1>0, <1>1, <1>2, <1>4, SameInput, SamePatches, Zenon DEF PosInv, AcrossPc, OrderingPc, AtomicityPc
<1>6. FlightInv' /\ CountInv' /\ DirInv'
  <2>1. Current = <<"ordering", i, j>> /\ pc \in Puts /\ pc' \notin {"abort", "set_fs"} \cup Reads \cup Puts
    BY <1>0, Zenon DEF Current, Puts, Reads
  <2>2. Handed = OrderingKeys(i, j) /\ Handed' = OrderingKeys(i, j + 1)
    BY <1>0, <1>1, SamePatches, Zenon DEF Handed
  <2>3. Handed' = Handed \cup {<<"ordering", i, j>>}
    BY <1>1, <1>2, <1>3, <2>2, OrderingKeysGrow, Zenon
  <2> QED
    BY <1>0, <1>1, <2>1, <2>3, PutStep, Zenon
<1> QED
  BY <1>0, <1>1, <1>5, <1>6, Zenon DEF IInv, checker

LEMMA OrderingIncludeStep ==
  ASSUME IInv, OrderingInclude
  PROVE  IInv'
<1>0. /\ pc = "ordering_j" /\ j = mops_len /\ omitted' = dops_include(DopsOf(i))
      /\ i' = i + 1 /\ pc' = "ordering"
      /\ UNCHANGED <<input, checker, shared>>
      /\ UNCHANGED <<mode, micro_end, disk_end, saved, j, k, atomic_patch_middle>>
  BY Zenon DEF OrderingInclude, findings
<1>1. SuitesInv /\ SuitesInv' /\ PosInv /\ FlightInv /\ CountInv /\ DirInv /\ UNCHANGED input
  BY <1>0, SameInput, Zenon DEF IInv
<1>2. mode = 1 /\ omitted = Lost(i) /\ i \in Mops /\ i \in Nat /\ i + 1 \in 0 .. mops_len
  BY <1>0, <1>1, OrderingFacts
<1>3. omitted' = {}
  BY <1>0, <1>2, Zenon DEF dops_include, DopsOf, Lost, DopsIn, DopsLen, suite
<1>4. PosInv'
  BY <1>0, <1>1, <1>2, <1>3, SameInput, Zenon DEF PosInv, AcrossPc, OrderingPc, AtomicityPc
<1>5. FlightInv' /\ CountInv' /\ DirInv'
  <2>1. Handed = OrderingKeys(i, mops_len) /\ Handed' = OrderingKeys(i + 1, 0) /\ Built = {} /\ Built' = {}
        /\ pc' \notin Reads \cup {"set_fs"}
    BY <1>0, <1>1, SamePatches, Zenon DEF Handed, Built, Puts, Reads
  <2> QED
    BY <1>0, <1>1, <1>2, <2>1, OrderingKeysGrow, QuietStep, Zenon
<1> QED
  BY <1>0, <1>1, <1>4, <1>5, Zenon DEF IInv, checker

LEMMA OrderingJoinStep ==
  ASSUME IInv, OrderingJoin
  PROVE  IInv'
<1>0. /\ pc = "ordering" /\ i = mops_len /\ unfinished = 0 /\ pc' = "ordering_report"
      /\ UNCHANGED <<input, checker, shared>>
      /\ UNCHANGED <<mode, micro_end, disk_end, omitted, saved, i, j, k, atomic_patch_middle>>
  BY Zenon DEF OrderingJoin, replayer, findings, Joined
<1>1. SuitesInv /\ SuitesInv' /\ PosInv /\ FlightInv /\ CountInv /\ DirInv /\ UNCHANGED input
  BY <1>0, SameInput, Zenon DEF IInv
<1>2. PosInv'
  BY <1>0, <1>1, SameInput, Zenon DEF PosInv, AcrossPc, OrderingPc, AtomicityPc
<1>3. FlightInv' /\ CountInv' /\ DirInv'
  <2>1. Handed' = Handed /\ Built = {} /\ Built' = {}
    BY <1>0, <1>1, SamePatches, SameInput, Zenon DEF Handed, Built, Puts
  <2> QED
    BY <1>0, <1>1, <2>1, QuietStep, Zenon
<1> QED
  BY <1>0, <1>1, <1>2, <1>3, Zenon DEF IInv, checker

=============================================================================
