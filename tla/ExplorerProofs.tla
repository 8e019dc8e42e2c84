--------------------------- MODULE ExplorerProofs ---------------------------
(***************************************************************************)
(* TLAPS proofs about Explorer, for every set of traces, every list of     *)
(* split modes and every number of threads: the third round keeps the      *)
(* inductive invariant of ExplorerThreadProofs, and what follows from it.  *)
(***************************************************************************)
EXTENDS ExplorerThreadProofs, SuiteProofs

-----------------------------------------------------------------------------
(* The third round                                                         *)

LEMMA CutFields ==
  ASSUME SuitesInv, NEW key \in ToCheck.atomicity_report
  PROVE  /\ key[2] \in DOMAIN Mode /\ key[2] \in Nat \ {0} /\ key[3] \in Mops /\ key[3] \in Nat /\ key[4] \in Nat
         /\ Cuttable(key[2], key[3], key[4])
         /\ \/ Len(key) = 4 /\ key = <<"atomicity", key[2], key[3], key[4]>>
            \/ /\ Len(key) = 5 /\ key = <<"atomicity", key[2], key[3], key[4], key[5]>>
               /\ key[5] \in Nat /\ key[5] < key[4]
<1>1. PICK m \in DOMAIN Mode, x \in Mops : \E y \in 0 .. DopsLen(m, x) - 2 :
             /\ Cuttable(m, x, y)
             /\ \/ key = <<"atomicity", m, x, y>>
                \/ \E z \in 0 .. y - 1 : key = <<"atomicity", m, x, y, z>>
  BY CutKey, Zenon
<1>2. PICK y \in 0 .. DopsLen(m, x) - 2 :
             /\ Cuttable(m, x, y)
             /\ \/ key = <<"atomicity", m, x, y>>
                \/ \E z \in 0 .. y - 1 : key = <<"atomicity", m, x, y, z>>
  BY <1>1, Zenon
<1>3. m \in Nat \ {0} /\ x \in Nat /\ y \in Nat
  BY FirstMode, Basics DEF Mops, SuitesInv
<1>4. CASE key = <<"atomicity", m, x, y>>
  BY <1>2, <1>3, <1>4, Zenon
<1>5. CASE \E z \in 0 .. y - 1 : key = <<"atomicity", m, x, y, z>>
  BY <1>2, <1>3, <1>5
<1> QED
  BY <1>2, <1>4, <1>5, Zenon

\* The keys handed out, from one step of the nested loops to the next.
LEMMA CutKeysGrow ==
  ASSUME SuitesInv, NEW m \in DOMAIN Mode
  PROVE  /\ CutKeys(1, 0, 0, -1) = {}
         /\ \A y \in Nat : CutKeys(m, mops_len, y, -1) = CutKeys(m + 1, 0, 0, -1)
         /\ \A x \in Mops, y \in Nat :
              InPatch(x) \/ y >= DopsLen(m, x) - 1 => CutKeys(m, x, y, -1) = CutKeys(m, x + 1, 0, -1)
<1> DEFINE T == ToCheck.atomicity_report
<1>0. /\ mops_len \in Nat /\ m \in Nat \ {0} /\ \A x \in Mops : x \in Nat /\ x < mops_len /\ DopsLen(m, x) \in Nat
  BY FirstMode, Basics DEF Mops, SuitesInv
<1>1. \A key \in T : /\ key[2] \in Nat \ {0} /\ key[3] \in Nat /\ key[4] \in Nat
                     /\ key[3] < mops_len /\ ~InPatch(key[3]) /\ key[4] < DopsLen(key[2], key[3]) - 1
  <2>1. ASSUME NEW key \in T
        PROVE  /\ key[2] \in Nat \ {0} /\ key[3] \in Nat /\ key[4] \in Nat
               /\ key[3] < mops_len /\ ~InPatch(key[3]) /\ key[4] < DopsLen(key[2], key[3]) - 1
    <3>1. /\ key[2] \in DOMAIN Mode /\ key[2] \in Nat \ {0} /\ key[3] \in Mops /\ key[4] \in Nat
          /\ Cuttable(key[2], key[3], key[4])
      BY <2>1, CutFields, Zenon
    <3>2. DopsLen(key[2], key[3]) \in Nat
      BY <3>1, Zenon DEF SuitesInv
    <3> QED
      BY <1>0, <3>1, <3>2 DEF Cuttable
  <2> QED
    BY <2>1, Zenon
<1> HIDE DEF T
<1>2. \A a, b, c, d : CutKeys(a, b, c, d) = {key \in T : LegalState(key) /\ Precedes(key, a, b, c, d)}
  BY Zenon DEF CutKeys, T
<1>3. \A a, b, c : \A key \in T : Precedes(key, a, b, c, -1) <=>
        \/ key[2] < a
        \/ key[2] = a /\ key[3] < b
        \/ key[2] = a /\ key[3] = b /\ key[4] < c
  BY DEF Precedes
<1>4. CutKeys(1, 0, 0, -1) = {}
  <2>1. \A key \in T : ~Precedes(key, 1, 0, 0, -1)
    BY <1>1, <1>3
  <2> QED
    BY <1>2, <2>1, Zenon
<1>5. ASSUME NEW y \in Nat PROVE CutKeys(m, mops_len, y, -1) = CutKeys(m + 1, 0, 0, -1)
  <2>1. \A key \in T : Precedes(key, m, mops_len, y, -1) <=> Precedes(key, m + 1, 0, 0, -1)
    BY <1>0, <1>1, <1>3
  <2> QED
    BY <1>2, <2>1, Zenon
<1>6. ASSUME NEW x \in Mops, NEW y \in Nat, InPatch(x) \/ y >= DopsLen(m, x) - 1
      PROVE  CutKeys(m, x, y, -1) = CutKeys(m, x + 1, 0, -1)
  <2>1. \A key \in T : key[2] = m /\ key[3] = x => key[4] < y
    BY <1>0, <1>1, <1>6
  <2>2. \A key \in T : Precedes(key, m, x, y, -1) <=> Precedes(key, m, x + 1, 0, -1)
    BY <1>0, <1>1, <1>3, <2>1
  <2> QED
    BY <1>2, <2>2, Zenon
<1> QED
  BY <1>4, <1>5, <1>6, Zenon

\* The keys of one cut, with and without one of its disk operations.
LEMMA CutPrecedes ==
  ASSUME SuitesInv, NEW m \in DOMAIN Mode, NEW x, NEW y, Cuttable(m, x, y),
         NEW key \in ToCheck.atomicity_report
  PROVE  /\ Precedes(key, m, x, y, y) <=> Precedes(key, m, x, y + 1, -1)
         /\ Precedes(key, m, x, y, 0) <=> Precedes(key, m, x, y, -1) \/ key = <<"atomicity", m, x, y>>
         /\ \A z \in 0 .. y - 1 : Precedes(key, m, x, y, z + 1) <=>
              Precedes(key, m, x, y, z) \/ key = <<"atomicity", m, x, y, z>>
<1> DEFINE Here == key[2] = m /\ key[3] = x /\ key[4] = y
<1>0. m \in Nat \ {0} /\ x \in Nat /\ y \in Nat
  BY FirstMode, Basics, SMTT(30) DEF Mops, SuitesInv, Cuttable
<1>1. /\ key[2] \in Nat /\ key[3] \in Nat /\ key[4] \in Nat
      /\ \/ Len(key) = 4 /\ key = <<"atomicity", key[2], key[3], key[4]>>
         \/ /\ Len(key) = 5 /\ key = <<"atomicity", key[2], key[3], key[4], key[5]>>
            /\ key[5] \in Nat /\ key[5] < key[4]
  BY CutFields, Zenon
<1>2. \A z \in Nat : Precedes(key, m, x, y, z) <=>
        Precedes(key, m, x, y, -1) \/ (Here /\ (Len(key) = 5 => key[5] < z))
  BY DEF Precedes
<1>3. Precedes(key, m, x, y + 1, -1) <=> Precedes(key, m, x, y, -1) \/ Here
  BY <1>0, <1>1 DEF Precedes
<1>4. Here => (Len(key) = 5 => key[5] < y)
  BY <1>1
<1>5. Here /\ (Len(key) = 5 => key[5] < 0) <=> key = <<"atomicity", m, x, y>>
  BY <1>1
<1>6. ASSUME NEW z \in 0 .. y - 1
      PROVE  Precedes(key, m, x, y, z + 1) <=> Precedes(key, m, x, y, z) \/ key = <<"atomicity", m, x, y, z>>
  <2> DEFINE new == <<"atomicity", m, x, y, z>>
  <2>0. z \in Nat /\ z + 1 \in Nat /\ Len(new) = 5 /\ new[2] = m /\ new[3] = x /\ new[4] = y /\ new[5] = z
    BY <1>0
  <2>1. Here /\ (Len(key) = 5 => key[5] < z + 1) <=> (Here /\ (Len(key) = 5 => key[5] < z)) \/ key = new
    BY <1>1, <2>0
  <2> QED
    BY <1>2, <2>0, <2>1, Zenon
<1> QED
  BY <1>0, <1>2, <1>3, <1>4, <1>5, <1>6, Zenon

\* A key more, if it is that of a legal state.
LEMMA CutKeysWith ==
  ASSUME NEW new \in ToCheck.atomicity_report, NEW m, NEW x, NEW y, NEW z, NEW w,
         \A key \in ToCheck.atomicity_report :
           Precedes(key, m, x, y, w) <=> Precedes(key, m, x, y, z) \/ key = new
  PROVE  IF LegalState(new)
         THEN CutKeys(m, x, y, w) = CutKeys(m, x, y, z) \cup {new}
         ELSE CutKeys(m, x, y, w) = CutKeys(m, x, y, z)
<1> DEFINE T == ToCheck.atomicity_report
<1>1. \A d : CutKeys(m, x, y, d) = {key \in T : LegalState(key) /\ Precedes(key, m, x, y, d)}
  BY Zenon DEF CutKeys
<1>2. new \in T /\ \A key \in T : Precedes(key, m, x, y, w) <=> Precedes(key, m, x, y, z) \/ key = new
  BY Zenon
<1> HIDE DEF T
<1>3. CASE LegalState(new)
  <2>1. CutKeys(m, x, y, w) = CutKeys(m, x, y, z) \cup {new}
    BY <1>1, <1>2, <1>3, Zenon
  <2> QED
    BY <1>3, <2>1, Zenon
<1>4. CASE ~LegalState(new)
  <2>1. CutKeys(m, x, y, w) = CutKeys(m, x, y, z)
    BY <1>1, <1>2, <1>4, Zenon
  <2> QED
    BY <1>4, <2>1, Zenon
<1> QED
  BY <1>3, <1>4, Zenon

LEMMA CutKeysOf ==
  ASSUME SuitesInv, NEW m \in DOMAIN Mode, NEW x, NEW y, Cuttable(m, x, y)
  PROVE  /\ CutKeys(m, x, y, y) = CutKeys(m, x, y + 1, -1)
         /\ IF LegalState(<<"atomicity", m, x, y>>)
            THEN CutKeys(m, x, y, 0) = CutKeys(m, x, y, -1) \cup {<<"atomicity", m, x, y>>}
            ELSE CutKeys(m, x, y, 0) = CutKeys(m, x, y, -1)
<1>1. CutKeys(m, x, y, y) = CutKeys(m, x, y + 1, -1)
  BY CutPrecedes, Zenon DEF CutKeys
<1>2. <<"atomicity", m, x, y>> \in ToCheck.atomicity_report
  BY CutKey, Zenon DEF Cuttable
<1>3. \A key \in ToCheck.atomicity_report :
        Precedes(key, m, x, y, 0) <=> Precedes(key, m, x, y, -1) \/ key = <<"atomicity", m, x, y>>
  BY CutPrecedes, Zenon
<1> QED
  BY <1>1, <1>2, <1>3, CutKeysWith

LEMMA CutKeysOmit ==
  ASSUME SuitesInv, NEW m \in DOMAIN Mode, NEW x, NEW y, Cuttable(m, x, y), NEW z \in 0 .. y - 1
  PROVE  IF LegalState(<<"atomicity", m, x, y, z>>)
         THEN CutKeys(m, x, y, z + 1) = CutKeys(m, x, y, z) \cup {<<"atomicity", m, x, y, z>>}
         ELSE CutKeys(m, x, y, z + 1) = CutKeys(m, x, y, z)
<1>2. <<"atomicity", m, x, y, z>> \in ToCheck.atomicity_report
  BY CutKey, Zenon DEF Cuttable
<1>3. \A key \in ToCheck.atomicity_report :
        Precedes(key, m, x, y, z + 1) <=> Precedes(key, m, x, y, z) \/ key = <<"atomicity", m, x, y, z>>
  BY CutPrecedes, Zenon
<1> QED
  BY <1>2, <1>3, CutKeysWith

LEMMA OrderingReportStep ==
  ASSUME IInv, OrderingReport
  PROVE  IInv'
<1>0. /\ pc = "ordering_report" /\ load /\ reset /\ i' = 1 /\ pc' = "atomicity_set_fs"
      /\ UNCHANGED <<input, checker>> /\ UNCHANGED <<j, k, saved, atomic_patch_middle>>
  BY Zenon DEF OrderingReport
<1>1. SuitesInv /\ SuitesInv' /\ PosInv /\ FlightInv /\ CountInv /\ DirInv /\ UNCHANGED input
  BY <1>0, SameInput, Zenon DEF IInv
<1>2. /\ mode' = 1 /\ omitted' = {} /\ micro_end' = mops_len - 1
      /\ disk_end' = DopsLen(1, mops_len - 1) - 1
  BY <1>0, <1>1 DEF PosInv, OrderingPc, load
<1>3. PosInv'
  BY <1>0, <1>1, <1>2, SameInput, Basics, FirstMode, SMTT(30) DEF PosInv, AcrossPc, OrderingPc, AtomicityPc
<1>4. FlightInv' /\ CountInv' /\ DirInv'
  <2>1. Built = {} /\ Built' = {} /\ unfinished = 0
    BY <1>0, <1>1, Zenon DEF Built, Puts, CountInv, Reads
  <2>2. Handed' = CutKeys(1, 0, 0, -1)
    BY <1>0, <1>1, SamePatches, Zenon DEF Handed
  <2>3. CutKeys(1, 0, 0, -1) = {}
    BY <1>1, FirstMode, CutKeysGrow, Zenon
  <2> QED
    BY <1>0, <1>1, <2>1, <2>2, <2>3, ResetStep, Zenon
<1> QED
  BY <1>0, <1>1, <1>3, <1>4, Zenon DEF IInv, checker

LEMMA SetModeStep ==
  ASSUME IInv, SetMode
  PROVE  IInv'
<1>0. /\ pc = "atomicity_set_fs" /\ i <= Len(Mode) /\ mode' = i /\ pc' \in {"abort", "atomicity"}
      /\ UNCHANGED <<input, checker, shared>> /\ UNCHANGED <<k, micro_end, atomic_patch_middle>>
      /\ pc' = "abort" => UNCHANGED <<i, j, disk_end, omitted>>
      /\ pc' = "atomicity" => /\ i' = 0 /\ j' = 0 /\ omitted' = {}
                              /\ disk_end' = dops_len(suites[mode'], micro_end) - 1
  BY Zenon DEF SetMode, findings
<1>1. SuitesInv /\ SuitesInv' /\ PosInv /\ FlightInv /\ CountInv /\ DirInv /\ UNCHANGED input
  BY <1>0, SameInput, Zenon DEF IInv
<1>2. i \in DOMAIN Mode /\ i \in 1 .. Len(Mode) /\ omitted = {} /\ micro_end \in Mops
  BY <1>0, <1>1, FirstMode DEF PosInv
<1>3. disk_end' \in Int
  <2>1. DopsLen(i, micro_end) \in Nat
    BY <1>1, <1>2, Basics, Zenon
  <2> QED
    BY <1>0, <1>1, <2>1 DEF PosInv, DopsLen
<1>4. PosInv'
  <2>1. i \in 0 .. mops_len + Len(Mode) + 1 /\ 0 \in 0 .. mops_len
    BY <1>1, <1>2, Basics, FirstMode
  <2> QED
    BY <1>0, <1>1, <1>2, <1>3, <2>1, SameInput, SamePatches, SMTT(30) DEF PosInv, AcrossPc, OrderingPc, AtomicityPc
<1>5. FlightInv' /\ CountInv' /\ DirInv'
  <2>1. Built = {} /\ Built' = {} /\ pc' \notin Reads \cup {"set_fs"}
    BY <1>0, Zenon DEF Built, Puts, Reads
  <2>2. pc' = "abort" \/ Handed' = Handed
    BY <1>0, <1>1, SamePatches DEF Handed
  <2> QED
    BY <1>0, <1>1, <2>1, <2>2, QuietStep, Zenon
<1> QED
  BY <1>0, <1>1, <1>4, <1>5, Zenon DEF IInv, checker

LEMMA AtomicityNextStep ==
  ASSUME IInv, AtomicityNext
  PROVE  IInv'
<1>0. /\ pc = "atomicity" /\ i < mops_len /\ pc' = pc /\ i' = i + 1 /\ j' = 0
      /\ InPatch(i) \/ j >= dops_len(suite, i) - 1
      /\ UNCHANGED <<input, checker, shared>>
      /\ UNCHANGED <<mode, micro_end, disk_end, omitted, saved, k, atomic_patch_middle>>
  BY Zenon DEF AtomicityNext, replayer, findings
<1>1. SuitesInv /\ SuitesInv' /\ PosInv /\ FlightInv /\ CountInv /\ DirInv /\ UNCHANGED input
  BY <1>0, SameInput, Zenon DEF IInv
<1>2. i \in Mops /\ i \in Nat /\ j \in Nat /\ mode \in DOMAIN Mode /\ i + 1 \in 0 .. mops_len
  BY <1>0, <1>1, Basics, SMTT(30) DEF PosInv, Mops
<1>3. PosInv'
  BY <1>0, <1>1, <1>2, SameInput, SamePatches, Zenon DEF PosInv, AcrossPc, OrderingPc, AtomicityPc
<1>4. FlightInv' /\ CountInv' /\ DirInv'
  <2>1. /\ Handed = CutKeys(mode, i, j, -1) /\ Handed' = CutKeys(mode, i + 1, 0, -1)
        /\ Built = {} /\ Built' = {} /\ pc' \notin Reads \cup {"set_fs"}
    BY <1>0, <1>1, SamePatches, Zenon DEF Handed, Built, Puts, Reads
  <2>2. Handed' = Handed
    BY <1>0, <1>1, <1>2, <2>1, CutKeysGrow, Zenon DEF DopsLen, suite
  <2> QED
    BY <1>0, <1>1, <2>1, <2>2, QuietStep, Zenon
<1> QED
  BY <1>0, <1>1, <1>3, <1>4, Zenon DEF IInv, checker

LEMMA AtomicityTryStep ==
  ASSUME IInv, AtomicityTry
  PROVE  IInv'
<1> DEFINE key == <<"atomicity", mode, i, j>>
<1>0. /\ pc = "atomicity" /\ i < mops_len /\ ~InPatch(i) /\ j < dops_len(suite, i) - 1
      /\ micro_end' = i /\ disk_end' = j /\ k' = 0
      /\ IF is_legal(trace, suite, i, j, omitted)
         THEN construct_crashed_dir(key, i, j, omitted) /\ pc' = "atomicity_put"
         ELSE pc' = "atomicity_k" /\ dirs' = dirs
      /\ UNCHANGED <<input, checker, queue, unfinished, outputs>>
      /\ UNCHANGED <<mode, i, j, omitted, saved, atomic_patch_middle>>
  BY Zenon DEF AtomicityTry, EndAt, findings
<1>1. SuitesInv /\ SuitesInv' /\ PosInv /\ FlightInv /\ CountInv /\ DirInv /\ UNCHANGED input
  BY <1>0, SameInput, Zenon DEF IInv
<1>2. i \in Mops /\ i \in Nat /\ j \in Nat /\ mode \in DOMAIN Mode /\ omitted = {} /\ suite = suites[mode]
  BY <1>0, <1>1, Basics DEF PosInv, Mops, suite
<1>3. Cuttable(mode, i, j)
  <2>1. DopsLen(mode, i) \in Nat /\ j < DopsLen(mode, i) - 1
    BY <1>0, <1>1, <1>2, Basics, Zenon DEF DopsLen
  <2> QED
    BY <1>0, <1>2, <2>1 DEF Cuttable
<1>4. Meant(key) = [mode |-> mode, ops |-> CutOf(mode, i, j) \ {}]
  BY MeantOf
<1>5. CrashState(i, j, omitted) = Meant(key)
  BY <1>2, <1>4, UpToCut, Zenon DEF CrashState
<1>6. is_legal(trace, suite, i, j, omitted) <=> LegalState(key)
  BY <1>1, <1>2, <1>3, <1>4, LegalCut, Zenon
<1>7. Handed = CutKeys(mode, i, j, -1) /\ Built = {} /\ pc # "abort"
  BY <1>0, Zenon DEF Handed, Built, Puts
<1>8. CASE LegalState(key)
  <2>1. pc' = "atomicity_put" /\ construct_crashed_dir(key, i, j, omitted)
    BY <1>0, <1>6, <1>8, Zenon
  <2>2. Current' = key /\ pc' \in Puts
    BY <1>0, <2>1, Zenon DEF Current, Puts
  <2>3. PosInv'
    BY <1>0, <1>1, <1>2, <1>3, <1>8, <2>1, <2>2, SameInput, SamePatches, SMTT(30)
    DEF PosInv, AcrossPc, OrderingPc, AtomicityPc
  <2>4. Handed' = Handed
    BY <1>0, <1>1, <1>7, <2>1, SamePatches, Zenon DEF Handed
  <2>5. construct_crashed_dir(Current', i, j, omitted) /\ CrashState(i, j, omitted) = Meant(Current')
    BY <1>5, <2>1, <2>2, Zenon
  <2>6. FlightInv' /\ CountInv' /\ DirInv'
    BY <1>0, <1>1, <1>7, <2>2, <2>4, <2>5, BuildStep, Zenon
  <2> QED
    BY <1>0, <1>1, <2>3, <2>6, Zenon DEF IInv, checker
<1>9. CASE ~LegalState(key)
  <2>1. pc' = "atomicity_k" /\ UNCHANGED shared
    BY <1>0, <1>6, <1>9, Zenon DEF shared
  <2>2. PosInv'
    BY <1>0, <1>1, <1>2, <1>3, <2>1, SameInput, SamePatches, SMTT(30)
    DEF PosInv, AcrossPc, OrderingPc, AtomicityPc
  <2>3. Handed' = CutKeys(mode, i, j, 0) /\ Built' = {} /\ pc' \notin Reads \cup {"set_fs"}
    BY <1>0, <1>1, <2>1, SamePatches, Zenon DEF Handed, Built, Puts, Reads
  <2>4. Handed' = Handed
    BY <1>1, <1>2, <1>3, <1>7, <1>9, <2>3, CutKeysOf, Zenon
  <2>5. FlightInv' /\ CountInv' /\ DirInv'
    BY <1>0, <1>1, <1>7, <2>1, <2>3, <2>4, QuietStep, Zenon
  <2> QED
    BY <1>0, <1>1, <2>2, <2>5, Zenon DEF IInv, checker
<1> QED
  BY <1>8, <1>9, Zenon

\* What holds in the loop over k.
LEMMA CutFacts ==
  ASSUME SuitesInv, PosInv, pc \in {"atomicity_put", "atomicity_k", "atomicity_kput", "atomicity_include"}
  PROVE  /\ mode \in DOMAIN Mode /\ Cuttable(mode, i, j) /\ i \in Mops /\ i \in Nat /\ j \in Nat /\ k \in Nat
         /\ micro_end = i /\ disk_end = j /\ suite = suites[mode] /\ trace[i + 1].op # "stdout"
<1>1. mode \in DOMAIN Mode /\ Cuttable(mode, i, j) /\ j \in Nat /\ k \in Nat /\ micro_end = i /\ disk_end = j
  BY Zenon DEF PosInv
<1>2. i \in Mops /\ i \in Nat /\ DopsLen(mode, i) \in Nat
  BY <1>1, Basics, Zenon DEF Cuttable
<1>3. DopsLen(mode, i) # 1
  BY <1>1, <1>2 DEF Cuttable
<1> QED
  BY <1>1, <1>2, <1>3, Zenon DEF SuitesInv, suite

LEMMA AtomicityPutStep ==
  ASSUME IInv, AtomicityPut
  PROVE  IInv'
<1>0. /\ pc = "atomicity_put" /\ pc' = "atomicity_k" /\ check_later(<<"atomicity", mode, i, j>>)
      /\ UNCHANGED <<input, checker, outputs, dirs>>
      /\ UNCHANGED <<mode, micro_end, disk_end, omitted, saved, i, j, k, atomic_patch_middle>>
  BY Zenon DEF AtomicityPut, replayer, findings
<1>1. SuitesInv /\ SuitesInv' /\ PosInv /\ FlightInv /\ CountInv /\ DirInv /\ UNCHANGED input
  BY <1>0, SameInput, Zenon DEF IInv
<1>2. /\ mode \in DOMAIN Mode /\ Cuttable(mode, i, j) /\ j \in Nat
      /\ k = 0 /\ LegalState(<<"atomicity", mode, i, j>>)
  BY <1>0, <1>1, CutFacts, Zenon DEF PosInv, Current
<1>3. PosInv'
  BY <1>0, <1>1, <1>2, SameInput, SamePatches, SMTT(30) DEF PosInv, AcrossPc, OrderingPc, AtomicityPc
<1>4. FlightInv' /\ CountInv' /\ DirInv'
  <2>1. /\ Current = <<"atomicity", mode, i, j>> /\ pc \in Puts
        /\ pc' \notin {"abort", "set_fs"} \cup Reads \cup Puts
    BY <1>0, Zenon DEF Current, Puts, Reads
  <2>2. Handed = CutKeys(mode, i, j, -1) /\ Handed' = CutKeys(mode, i, j, 0)
    BY <1>0, <1>1, <1>2, SamePatches, Zenon DEF Handed
  <2>3. Handed' = Handed \cup {<<"atomicity", mode, i, j>>}
    BY <1>1, <1>2, <2>2, CutKeysOf, Zenon
  <2> QED
    BY <1>0, <1>1, <2>1, <2>3, PutStep, Zenon
<1> QED
  BY <1>0, <1>1, <1>3, <1>4, Zenon DEF IInv, checker

LEMMA AtomicityOmitStep ==
  ASSUME IInv, AtomicityOmit
  PROVE  IInv'
<1> DEFINE key == <<"atomicity", mode, i, j, k>>
           om == dops_omit({<<i, k>>})
<1>0. /\ pc = "atomicity_k" /\ k < j /\ omitted' = om
      /\ IF is_legal(trace, suite, i, j, om)
         THEN construct_crashed_dir(key, i, j, om) /\ pc' = "atomicity_kput"
         ELSE pc' = "atomicity_include" /\ dirs' = dirs
      /\ UNCHANGED <<input, checker, queue, unfinished, outputs>>
      /\ UNCHANGED <<mode, micro_end, disk_end, i, j, k, saved, atomic_patch_middle>>
  BY Zenon DEF AtomicityOmit, findings
<1>1. SuitesInv /\ SuitesInv' /\ PosInv /\ FlightInv /\ CountInv /\ DirInv /\ UNCHANGED input
  BY <1>0, SameInput, Zenon DEF IInv
<1>2. /\ mode \in DOMAIN Mode /\ Cuttable(mode, i, j) /\ i \in Mops /\ i \in Nat /\ j \in Nat /\ k \in Nat
      /\ micro_end = i /\ disk_end = j /\ suite = suites[mode] /\ trace[i + 1].op # "stdout"
  BY <1>0, <1>1, CutFacts, Zenon
<1>3. om = {<<i, k>>} /\ k \in 0 .. j - 1
  BY <1>0, <1>1, <1>2, SMTT(30) DEF dops_omit, PosInv, AtomicityPc
<1>4. Meant(key) = [mode |-> mode, ops |-> CutOf(mode, i, j) \ om]
  BY <1>3, MeantOf, SMTT(30)
<1> HIDE DEF om
<1>5. CrashState(i, j, om) = Meant(key)
  BY <1>2, <1>4, UpToCut, Zenon DEF CrashState
<1>6. is_legal(trace, suite, i, j, om) <=> LegalState(key)
  BY <1>1, <1>2, <1>3, <1>4, LegalCut, Zenon
<1>7. Handed = CutKeys(mode, i, j, k) /\ Built = {} /\ pc # "abort"
  BY <1>0, Zenon DEF Handed, Built, Puts
<1>8. CASE LegalState(key)
  <2>1. pc' = "atomicity_kput" /\ construct_crashed_dir(key, i, j, om)
    BY <1>0, <1>6, <1>8, Zenon
  <2>2. Current' = key /\ pc' \in Puts
    BY <1>0, <2>1, Zenon DEF Current, Puts
  <2>3. PosInv'
    BY <1>0, <1>1, <1>2, <1>3, <1>8, <2>1, <2>2, SameInput, SamePatches, Zenon
    DEF PosInv, AcrossPc, OrderingPc, AtomicityPc
  <2>4. Handed' = Handed
    BY <1>0, <1>1, <1>7, <2>1, SamePatches, Zenon DEF Handed
  <2>5. construct_crashed_dir(Current', i, j, om) /\ CrashState(i, j, om) = Meant(Current')
    BY <1>5, <2>1, <2>2, Zenon
  <2>6. FlightInv' /\ CountInv' /\ DirInv'
    BY <1>0, <1>1, <1>7, <2>2, <2>4, <2>5, BuildStep, Zenon
  <2> QED
    BY <1>0, <1>1, <2>3, <2>6, Zenon DEF IInv, checker
<1>9. CASE ~LegalState(key)
  <2>1. pc' = "atomicity_include" /\ UNCHANGED shared
    BY <1>0, <1>6, <1>9, Zenon DEF shared
  <2>2. PosInv'
    BY <1>0, <1>1, <1>2, <1>3, <2>1, SameInput, SamePatches, Zenon
    DEF PosInv, AcrossPc, OrderingPc, AtomicityPc
  <2>3. Handed' = CutKeys(mode, i, j, k + 1) /\ Built' = {} /\ pc' \notin Reads \cup {"set_fs"}
    BY <1>0, <1>1, <2>1, SamePatches, Zenon DEF Handed, Built, Puts, Reads
  <2>4. Handed' = Handed
    <3>1. CutKeys(mode, i, j, k + 1) = CutKeys(mode, i, j, k)
      BY <1>1, <1>2, <1>3, <1>9, CutKeysOmit, Zenon
    <3> QED
      BY <1>7, <2>3, <3>1, Zenon
  <2>5. FlightInv' /\ CountInv' /\ DirInv'
    BY <1>0, <1>1, <1>7, <2>1, <2>3, <2>4, QuietStep, Zenon
  <2> QED
    BY <1>0, <1>1, <2>2, <2>5, Zenon DEF IInv, checker
<1> QED
  BY <1>8, <1>9, Zenon

LEMMA AtomicityOmitPutStep ==
  ASSUME IInv, AtomicityOmitPut
  PROVE  IInv'
<1>0. /\ pc = "atomicity_kput" /\ pc' = "atomicity_include" /\ check_later(<<"atomicity", mode, i, j, k>>)
      /\ UNCHANGED <<input, checker, outputs, dirs>>
      /\ UNCHANGED <<mode, micro_end, disk_end, omitted, saved, i, j, k, atomic_patch_middle>>
  BY Zenon DEF AtomicityOmitPut, replayer, findings
<1>1. SuitesInv /\ SuitesInv' /\ PosInv /\ FlightInv /\ CountInv /\ DirInv /\ UNCHANGED input
  BY <1>0, SameInput, Zenon DEF IInv
<1>2. /\ mode \in DOMAIN Mode /\ Cuttable(mode, i, j) /\ j \in Nat /\ k \in Nat
  BY <1>0, <1>1, CutFacts, Zenon
<1>3. k \in 0 .. j - 1 /\ LegalState(<<"atomicity", mode, i, j, k>>)
  BY <1>0, <1>1, <1>2 DEF PosInv, Current
<1>4. PosInv'
  BY <1>0, <1>1, <1>2, SameInput, SamePatches, Zenon DEF PosInv, AcrossPc, OrderingPc, AtomicityPc
<1>5. FlightInv' /\ CountInv' /\ DirInv'
  <2>1. /\ Current = <<"atomicity", mode, i, j, k>> /\ pc \in Puts
        /\ pc' \notin {"abort", "set_fs"} \cup Reads \cup Puts
    BY <1>0, Zenon DEF Current, Puts, Reads
  <2>2. Handed = CutKeys(mode, i, j, k) /\ Handed' = CutKeys(mode, i, j, k + 1)
    BY <1>0, <1>1, SamePatches, Zenon DEF Handed
  <2>3. Handed' = Handed \cup {<<"atomicity", mode, i, j, k>>}
    BY <1>1, <1>2, <1>3, <2>2, CutKeysOmit, Zenon
  <2> QED
    BY <1>0, <1>1, <2>1, <2>3, PutStep, Zenon
<1> QED
  BY <1>0, <1>1, <1>4, <1>5, Zenon DEF IInv, checker

LEMMA AtomicityIncludeStep ==
  ASSUME IInv, AtomicityInclude
  PROVE  IInv'
<1>0. /\ pc = "atomicity_include" /\ pc' = "atomicity_k" /\ k' = k + 1
      /\ omitted' = dops_include({<<i, k>>})
      /\ UNCHANGED <<input, checker, shared>>
      /\ UNCHANGED <<mode, micro_end, disk_end, saved, i, j, atomic_patch_middle>>
  BY Zenon DEF AtomicityInclude, findings
<1>1. SuitesInv /\ SuitesInv' /\ PosInv /\ FlightInv /\ CountInv /\ DirInv /\ UNCHANGED input
  BY <1>0, SameInput, Zenon DEF IInv
<1>2. /\ j \in Nat /\ k \in Nat /\ Cuttable(mode, i, j)
  BY <1>0, <1>1, CutFacts, Zenon
<1>3. k + 1 <= j /\ k + 1 \in Nat /\ omitted' = {}
  BY <1>0, <1>1, <1>2, SMTT(30) DEF PosInv, dops_include
<1>4. PosInv'
  BY <1>0, <1>1, <1>2, <1>3, SameInput, SamePatches, Zenon DEF PosInv, AcrossPc, OrderingPc, AtomicityPc
<1>5. FlightInv' /\ CountInv' /\ DirInv'
  <2>1. Handed' = Handed /\ Built = {} /\ Built' = {} /\ pc' \notin Reads \cup {"set_fs"}
    BY <1>0, <1>1, SamePatches, Zenon DEF Handed, Built, Puts, Reads
  <2> QED
    BY <1>0, <1>1, <2>1, QuietStep, Zenon
<1> QED
  BY <1>0, <1>1, <1>4, <1>5, Zenon DEF IInv, checker

LEMMA AtomicityNextDopStep ==
  ASSUME IInv, AtomicityNextDop
  PROVE  IInv'
<1>0. /\ pc = "atomicity_k" /\ k = j /\ j' = j + 1 /\ pc' = "atomicity"
      /\ UNCHANGED <<input, checker, shared>>
      /\ UNCHANGED <<mode, micro_end, disk_end, omitted, saved, i, k, atomic_patch_middle>>
  BY Zenon DEF AtomicityNextDop, replayer, findings
<1>1. SuitesInv /\ SuitesInv' /\ PosInv /\ FlightInv /\ CountInv /\ DirInv /\ UNCHANGED input
  BY <1>0, SameInput, Zenon DEF IInv
<1>2. mode \in DOMAIN Mode /\ Cuttable(mode, i, j) /\ j \in Nat /\ i \in 0 .. mops_len
  BY <1>0, <1>1, CutFacts, Basics DEF Mops
<1>3. PosInv'
  BY <1>0, <1>1, <1>2, SameInput, SamePatches, SMTT(30) DEF PosInv, AcrossPc, OrderingPc, AtomicityPc
<1>4. FlightInv' /\ CountInv' /\ DirInv'
  <2>1. /\ Handed = CutKeys(mode, i, j, j) /\ Handed' = CutKeys(mode, i, j + 1, -1)
        /\ Built = {} /\ Built' = {} /\ pc' \notin Reads \cup {"set_fs"}
    BY <1>0, <1>1, SamePatches, Zenon DEF Handed, Built, Puts, Reads
  <2>2. Handed' = Handed
    BY <1>1, <1>2, <2>1, CutKeysOf, Zenon
  <2> QED
    BY <1>0, <1>1, <2>1, <2>2, QuietStep, Zenon
<1> QED
  BY <1>0, <1>1, <1>3, <1>4, Zenon DEF IInv, checker

LEMMA AtomicityNextModeStep ==
  ASSUME IInv, AtomicityNextMode
  PROVE  IInv'
<1>0. /\ pc = "atomicity" /\ i = mops_len /\ i' = mode + 1 /\ pc' = "atomicity_set_fs"
      /\ UNCHANGED <<input, checker, shared>>
      /\ UNCHANGED <<mode, micro_end, disk_end, omitted, saved, j, k, atomic_patch_middle>>
  BY Zenon DEF AtomicityNextMode, replayer, findings
<1>1. SuitesInv /\ SuitesInv' /\ PosInv /\ FlightInv /\ CountInv /\ DirInv /\ UNCHANGED input
  BY <1>0, SameInput, Zenon DEF IInv
<1>2. mode \in DOMAIN Mode /\ mode + 1 \in 1 .. Len(Mode) + 1 /\ j \in Nat
  BY <1>1, FirstMode DEF PosInv
<1>3. PosInv'
  BY <1>0, <1>1, <1>2, SameInput, SamePatches, Zenon DEF PosInv, AcrossPc, OrderingPc, AtomicityPc
<1>4. FlightInv' /\ CountInv' /\ DirInv'
  <2>1. /\ Handed = CutKeys(mode, mops_len, j, -1) /\ Handed' = CutKeys(mode + 1, 0, 0, -1)
        /\ Built = {} /\ Built' = {} /\ pc' \notin Reads \cup {"set_fs"}
    BY <1>0, <1>1, SamePatches, Zenon DEF Handed, Built, Puts, Reads
  <2>2. Handed' = Handed
    BY <1>1, <1>2, <2>1, CutKeysGrow, Zenon
  <2> QED
    BY <1>0, <1>1, <2>1, <2>2, QuietStep, Zenon
<1> QED
  BY <1>0, <1>1, <1>3, <1>4, Zenon DEF IInv, checker

LEMMA AtomicityJoinStep ==
  ASSUME IInv, AtomicityJoin
  PROVE  IInv'
<1>0. /\ pc = "atomicity_set_fs" /\ i > Len(Mode) /\ unfinished = 0 /\ pc' = "atomicity_report"
      /\ UNCHANGED <<input, checker, shared>>
      /\ UNCHANGED <<mode, micro_end, disk_end, omitted, saved, i, j, k, atomic_patch_middle>>
  BY Zenon DEF AtomicityJoin, replayer, findings, Joined
<1>1. SuitesInv /\ SuitesInv' /\ PosInv /\ FlightInv /\ CountInv /\ DirInv /\ UNCHANGED input
  BY <1>0, SameInput, Zenon DEF IInv
<1>2. i = Len(Mode) + 1
  BY <1>0, <1>1, FirstMode, SMTT(30) DEF PosInv
<1>3. PosInv'
  BY <1>0, <1>1, SameInput, SamePatches, Zenon DEF PosInv, AcrossPc, OrderingPc, AtomicityPc
<1>4. FlightInv' /\ CountInv' /\ DirInv'
  <2>1. Handed' = Handed /\ Built = {} /\ Built' = {}
    BY <1>0, <1>1, <1>2, SamePatches, Zenon DEF Handed, Built, Puts
  <2> QED
    BY <1>0, <1>1, <2>1, QuietStep, Zenon
<1> QED
  BY <1>0, <1>1, <1>3, <1>4, Zenon DEF IInv, checker

LEMMA AtomicityReportStep ==
  ASSUME IInv, AtomicityReport
  PROVE  IInv'
<1>0. /\ pc = "atomicity_report" /\ pc' = "done"
      /\ UNCHANGED <<input, checker, shared>>
      /\ UNCHANGED <<mode, micro_end, disk_end, omitted, saved, i, j, k, atomic_patch_middle>>
  BY Zenon DEF AtomicityReport, replayer
<1>1. SuitesInv /\ SuitesInv' /\ PosInv /\ FlightInv /\ CountInv /\ DirInv /\ UNCHANGED input
  BY <1>0, SameInput, Zenon DEF IInv
<1>3. PosInv'
  BY <1>0, <1>1, SameInput, SamePatches, Zenon DEF PosInv, AcrossPc, OrderingPc, AtomicityPc
<1>4. FlightInv' /\ CountInv' /\ DirInv'
  <2>1. Handed' = Handed /\ Built = {} /\ Built' = {} /\ unfinished = 0
    BY <1>0, <1>1, SamePatches, Zenon DEF Handed, Built, Puts, CountInv, Reads
  <2> QED
    BY <1>0, <1>1, <2>1, QuietStep, Zenon
<1> QED
  BY <1>0, <1>1, <1>3, <1>4, Zenon DEF IInv, checker

-----------------------------------------------------------------------------
(* The invariant holds                                                     *)

\* set_fs keeps the disk operations of every micro operation.
LEMMA DopsOfSuite ==
  ASSUME NEW tr, NEW m, NEW x \in 0 .. Len(tr) - 1
  PROVE  dops_len(set_fs(tr, m), x) = Len(get_disk_ops(m, tr[x + 1]))
  BY Zenon DEF dops_len, set_fs, HiddenDiskOps

LEMMA InitIInv == Init => IInv
<1> SUFFICES ASSUME Init PROVE IInv
  BY Zenon
<1>0. /\ trace \in Trace /\ suites = [m \in DOMAIN Mode |-> set_fs(trace, Mode[m])]
      /\ mode = 1 /\ pc = "set_fs" /\ i = 0 /\ j = 0 /\ k = 0 /\ micro_end = mops_len - 1 /\ disk_end = 0
      /\ omitted = {} /\ atomic_patch_middle = {} /\ good = {} /\ bad = {}
      /\ queue = <<>> /\ unfinished = 0 /\ outputs = Empty /\ dirs = Empty
      /\ at = [w \in Worker |-> "get"] /\ task = [w \in Worker |-> NoKey]
  BY Zenon DEF Init
<1>1. mops_len \in Nat \ {0}
  BY <1>0, ExplorerAssumption, FirstMode, Zenon DEF mops_len, IsTrace
<1>2. SuitesInv
  <2> SUFFICES ASSUME NEW m \in DOMAIN Mode, NEW x \in Mops
               PROVE  DopsLen(m, x) \in Nat /\ (trace[x + 1].op = "stdout" => DopsLen(m, x) = 1)
    BY <1>0, Zenon DEF SuitesInv
  <2>1. DopsLen(m, x) = Len(get_disk_ops(Mode[m], trace[x + 1]))
    BY <1>0, DopsOfSuite, Zenon DEF DopsLen, Mops, mops_len
  <2>2. x + 1 \in 1 .. Len(trace)
    BY <1>1 DEF Mops, mops_len
  <2>3. trace[x + 1].op = "stdout" => Len(get_disk_ops(Mode[m], trace[x + 1])) = 1
    BY Zenon DEF get_disk_ops
  <2> DEFINE dops == get_disk_ops(Mode[m], trace[x + 1])
  <2>4. dops \in Seq({dops[y] : y \in DOMAIN dops})
    BY <1>0, <2>2, ExplorerAssumption, Zenon DEF IsTrace
  <2>5. Len(dops) \in Nat
    BY <2>4
  <2> QED
    BY <2>1, <2>3, <2>5, Zenon
<1>3. PosInv
  BY <1>0, <1>1, FirstMode, SMTT(30) DEF PosInv, AcrossPc, OrderingPc, AtomicityPc, Mops
<1>4. Queued = {} /\ Busy = {} /\ Pending = {} /\ With({"rm"}) = {} /\ Built = {} /\ Handed = {}
  BY <1>0 DEF Queued, Busy, Pending, With, Built, Puts, Handed
<1>5. FlightInv
  BY <1>0, <1>4 DEF FlightInv, Empty
<1>6. CountInv
  BY <1>0, <1>4, FS_EmptySet DEF CountInv
<1>7. DirInv
  BY <1>0, <1>4, Zenon DEF DirInv, DirsAsMeant, Empty
<1> QED
  BY <1>0, <1>2, <1>3, <1>5, <1>6, <1>7, Zenon DEF IInv

LEMMA MainStep ==
  ASSUME IInv, Main
  PROVE  IInv'
<1>1. CASE Start \/ AcrossConstruct \/ AcrossPut \/ AcrossJoin \/ AcrossScan \/ AcrossDone
  BY <1>1, StartStep, AcrossConstructStep, AcrossPutStep, AcrossJoinStep, AcrossScanStep, AcrossDoneStep, Zenon
<1>2. CASE \/ OrderingSkip \/ OrderingOmit \/ OrderingTry \/ OrderingPut \/ OrderingInclude
           \/ OrderingJoin \/ OrderingReport
  BY Zenon, <1>2, OrderingSkipStep, OrderingOmitStep, OrderingTryStep, OrderingPutStep, OrderingIncludeStep,
     OrderingJoinStep, OrderingReportStep
<1>3. CASE \/ SetMode \/ AtomicityNext \/ AtomicityTry \/ AtomicityPut
           \/ AtomicityOmit \/ AtomicityOmitPut \/ AtomicityInclude
  BY Zenon, <1>3, SetModeStep, AtomicityNextStep, AtomicityTryStep, AtomicityPutStep, AtomicityOmitStep,
     AtomicityOmitPutStep, AtomicityIncludeStep
<1>4. CASE AtomicityNextDop \/ AtomicityNextMode \/ AtomicityJoin \/ AtomicityReport
  BY <1>4, AtomicityNextDopStep, AtomicityNextModeStep, AtomicityJoinStep, AtomicityReportStep, Zenon
<1> QED
  BY <1>1, <1>2, <1>3, <1>4, Zenon DEF Main

LEMMA StutterStep ==
  ASSUME IInv, UNCHANGED vars
  PROVE  IInv'
<1>1. UNCHANGED main /\ UNCHANGED <<input, checker, shared>> /\ good' = good /\ bad' = bad
      /\ queue' = queue /\ outputs' = outputs /\ dirs' = dirs /\ unfinished' = unfinished
  BY Zenon DEF vars, main, checker, shared
<1>2. SuitesInv' /\ PosInv' /\ pc' = pc /\ Handed' = Handed /\ Built' = Built
      /\ \A e : Meant(e)' = Meant(e)
  BY <1>1, SameMain, SameInput, Zenon DEF IInv
<1>3. FlightInv' /\ CountInv' /\ DirInv'
  BY <1>1, <1>2, SameFlight, Zenon DEF IInv, FlightInv, CountInv, DirInv, DirsAsMeant
<1> QED
  BY <1>1, <1>2, <1>3, Zenon DEF IInv

LEMMA Inductive == Spec => []IInv
<1>1. IInv /\ [Next]_vars => IInv'
  BY MainStep, ThreadStep, StutterStep, Zenon DEF Next
<1> QED
  BY <1>1, InitIInv, PTL DEF Spec

-----------------------------------------------------------------------------
(* The theorems                                                            *)

\* Whatever the traces, the split modes and the number of threads: the loop
\* variables of default_checks stay within the trace, only disk operations of
\* the mode that is set are omitted, the counter of queue.join does not go
\* below zero, and a thread is always at a known place.
THEOREM TypeCorrect == Spec => []TypeOK
<1>1. ASSUME IInv PROVE TypeOK
  <2>0. SuitesInv /\ PosInv /\ FlightInv /\ CountInv /\ good \cap bad = {}
    BY <1>1, Zenon DEF IInv
  <2>1. mops_len \in Nat \ {0} /\ Len(Mode) \in Nat
    BY <2>0, Basics, FirstMode, Zenon
  <2>2. i \in 0 .. mops_len + Len(Mode) + 1
    <3>1. pc = "set_fs" => i = 0
      BY <2>0, Zenon DEF PosInv
    <3>2. pc \in {"across_put", "ordering_j", "ordering_put", "atomicity_put", "atomicity_k",
                  "atomicity_kput", "atomicity_include"} => i \in 0 .. mops_len - 1
      BY <2>0, Zenon DEF PosInv, Omittable, Cuttable, Mops
    <3>3. /\ pc \in {"across", "across_scan", "ordering", "ordering_report", "atomicity"} => i \in 0 .. mops_len
          /\ pc \in {"atomicity_set_fs", "atomicity_report", "done"} => i \in 1 .. Len(Mode) + 1
          /\ pc = "abort" => i \in 0 .. mops_len + Len(Mode) + 1
      BY <2>0, Zenon DEF PosInv
    <3>4. pc \in {"set_fs", "abort", "atomicity_set_fs", "atomicity_report", "done"}
                 \cup AcrossPc \cup OrderingPc \cup AtomicityPc
      BY <2>0, Zenon DEF PosInv
    <3> QED
      BY <2>1, <3>1, <3>2, <3>3, <3>4 DEF AcrossPc, OrderingPc, AtomicityPc
  <2>3. pc # "abort" => omitted \subseteq UNION {DopsOf(x) : x \in 0 .. mops_len - 1}
    <3>1. \A x : DopsOf(x) = DopsIn(mode, x)
      BY Zenon DEF DopsOf, DopsIn, DopsLen, suite
    <3>2. CASE pc \in {"ordering_j", "ordering_put"}
      <4>1. mode = 1 /\ i \in 0 .. mops_len - 1 /\ omitted \subseteq DopsIn(1, i)
        BY <2>0, <3>2, Zenon DEF PosInv, OrderingPc, Omittable, Mops, Lost
      <4> QED
        BY <3>1, <4>1, Zenon
    <3>3. CASE pc \in {"atomicity_kput", "atomicity_include"}
      <4>1. /\ i \in 0 .. mops_len - 1 /\ j \in Nat /\ k \in Nat /\ k < j /\ omitted = {<<i, k>>}
            /\ mode \in DOMAIN Mode /\ j \in 0 .. DopsLen(mode, i) - 2 /\ DopsLen(mode, i) \in Nat
        BY <2>0, <3>3, Basics, Zenon DEF PosInv, Cuttable, Mops
      <4>2. <<i, k>> \in DopsOf(i)
        BY <3>1, <4>1, InDops
      <4> QED
        BY <4>1, <4>2, Zenon
    <3>4. CASE pc \notin {"abort", "ordering_j", "ordering_put", "atomicity_kput", "atomicity_include"}
      <4>1. omitted = {}
        BY <2>0, <3>4, Zenon DEF PosInv, AcrossPc, OrderingPc, AtomicityPc
      <4> QED
        BY <4>1, Zenon
    <3> QED
      BY <3>2, <3>3, <3>4, Zenon
  <2>4. unfinished \in Nat
    <3>1. Len(queue) \in Nat
      BY <2>0 DEF FlightInv
    <3> QED
      BY <2>0, <3>1, BusyFinite DEF CountInv
  <2> QED
    BY <2>0, <2>2, <2>3, <2>4, Zenon DEF TypeOK, SuitesInv, PosInv, FlightInv, Mops
<1> QED
  BY <1>1, Inductive, PTL, Zenon

\* Every crash directory holds the state its name says, from the time the main
\* thread builds it until a thread removes it, and a checker that runs has its
\* own in front of it, however many threads take tasks from the queue.
THEOREM DirectoriesSound == Spec => []DirsSound
<1>1. ASSUME IInv PROVE DirsSound
  <2>0. FlightInv /\ DirInv
    BY <1>1, Zenon DEF IInv
  <2>1. ASSUME NEW w \in Worker, at[w] = "check"
        PROVE  /\ task[w] \in DOMAIN dirs \/ Meant(task[w]).ops = {}
               /\ \A v \in Worker \ {w} : at[v] \in {"check", "rm"} => task[v] # task[w]
               /\ \A q \in DOMAIN queue : queue[q] # task[w]
    <3>1. task[w] \in Pending
      BY <2>1, Zenon DEF Pending, With
    <3> QED
      BY <2>0, <2>1, <3>1 DEF FlightInv, DirInv, Queued
  <2> QED
    BY <2>0, <2>1, Zenon DEF DirsSound, CheckedInPlace, DirInv
<1> QED
  BY <1>1, Inductive, PTL

-----------------------------------------------------------------------------
(* The report of the first round                                           *)

\* The patches that start before i are reported, and i is not within one.
Fails(x) == Failed(<<"across", x>>)
Starts(x) == Fails(x) /\ (x = 0 \/ ~Fails(x - 1))
PatchOf(x) == <<"across", x, PatchEnd(RunEnd(x))>>
ScanInv ==
  /\ pc \in {"set_fs", "across", "across_put"} => reported = {}
  /\ pc = "across_scan" =>
       /\ reported = {PatchOf(x) : x \in {y \in 0 .. i - 1 : Starts(y)}}
       /\ i = 0 \/ i = mops_len \/ ~Fails(i - 1) \/ ~Fails(i)

\* While outputs and the trace stay, so does what there is to report.
LEMMA SameFailures ==
  ASSUME outputs' = outputs, UNCHANGED input
  PROVE  \A x : Fails(x)' = Fails(x) /\ Starts(x)' = Starts(x) /\ PatchOf(x)' = PatchOf(x)
  BY Zenon DEF Fails, Starts, PatchOf, PatchEnd, RunEnd, Failed, mops_len, input

\* One iteration of the scan.
LEMMA AcrossScanReports ==
  ASSUME IInv, ScanInv, AcrossScan
  PROVE  ScanInv'
<1> DEFINE Old == {y \in 0 .. i - 1 : Starts(y)}
<1>0. /\ pc = "across_scan" /\ pc' = pc /\ i < mops_len /\ UNCHANGED input /\ outputs' = outputs
  BY Zenon DEF AcrossScan, shared
<1>1. SuitesInv /\ i \in Mops /\ i \in Nat /\ mops_len \in Nat
  BY <1>0, Basics, SMTT(30) DEF IInv, PosInv, Mops
<1>2. mops_len' = mops_len
  BY <1>0, Zenon DEF mops_len, input
<1>3. /\ reported = {PatchOf(x) : x \in Old}
      /\ i = 0 \/ ~Fails(i - 1) \/ ~Fails(i)
  BY <1>0, <1>1 DEF ScanInv
<1>4. SUFFICES /\ reported' = {PatchOf(x) : x \in {y \in 0 .. i' - 1 : Starts(y)}}
               /\ i' = mops_len \/ ~Fails(i' - 1) \/ ~Fails(i')
  <2>1. ~Fails(i' - 1) => ~Failed(<<"across", i - 1>>)'
    BY <1>0, Zenon DEF Fails, Failed
  <2>2. ~Fails(i') => ~Failed(<<"across", i>>)'
    BY <1>0, Zenon DEF Fails, Failed
  <2> QED
    BY <1>0, <1>2, <1>4, <2>1, <2>2, SameFailures, Zenon DEF ScanInv, Fails
<1>5. CASE Failed(<<"across", i>>)
  <2> DEFINE e == RunEnd(i)
  <2>1. /\ e \in i .. mops_len - 1 /\ \A z \in i .. e : Fails(z)
        /\ e = mops_len - 1 \/ ~Fails(e + 1)
    BY <1>1, <1>5, RunEndIs, Zenon DEF Fails
  <2>2. reported' = reported \cup {PatchOf(i)} /\ i' = e + 1
    BY <1>5, Zenon DEF AcrossScan, PatchOf
  <2> HIDE DEF e
  <2>3. Starts(i)
    BY <1>3, <1>5, Zenon DEF Starts, Fails
  <2>4. ASSUME NEW y \in i + 1 .. e PROVE ~Starts(y)
    <3>1. y - 1 \in i .. e /\ y # 0
      BY <1>1, <2>1
    <3> QED
      BY <2>1, <3>1, Zenon DEF Starts
  <2>5. {y \in 0 .. i' - 1 : Starts(y)} = Old \cup {i}
    <3>1. 0 .. i' - 1 = 0 .. i - 1 \cup {i} \cup i + 1 .. e
      BY <1>1, <2>1, <2>2
    <3> QED
      BY <2>3, <2>4, <3>1, Zenon
  <2>6. reported' = {PatchOf(x) : x \in Old \cup {i}}
    BY <1>3, <2>2, Zenon
  <2>7. i' = mops_len \/ ~Fails(i')
    BY <1>1, <2>1, <2>2
  <2> QED
    BY <2>5, <2>6, <2>7, Zenon
<1>6. CASE ~Failed(<<"across", i>>)
  <2>1. reported' = reported /\ i' = i + 1
    BY <1>6, Zenon DEF AcrossScan, findings
  <2>2. ~Starts(i) /\ i' - 1 = i /\ 0 .. i' - 1 = 0 .. i - 1 \cup {i}
    BY <1>1, <1>6, <2>1 DEF Starts, Fails
  <2>3. {y \in 0 .. i' - 1 : Starts(y)} = Old
    BY <2>2, Zenon
  <2> QED
    BY <1>3, <1>6, <2>1, <2>2, <2>3, Zenon DEF Fails
<1> QED
  BY <1>5, <1>6, Zenon

LEMMA ScanStep ==
  ASSUME IInv, ScanInv, [Next]_vars
  PROVE  ScanInv'
<1>1. CASE AcrossScan
  BY <1>1, AcrossScanReports, Zenon
<1>2. CASE AcrossJoin
  <2>1. i' = 0 /\ pc' = "across_scan" /\ reported' = {}
    BY <1>2, Zenon DEF AcrossJoin, findings, ScanInv
  <2>2. \A y : y \notin 0 .. i' - 1
    BY <2>1
  <2> QED
    BY <2>1, <2>2, Zenon DEF ScanInv
<1>3. CASE Start \/ AcrossConstruct \/ AcrossPut \/ AcrossDone
  BY <1>3, Zenon DEF ScanInv, Start, AcrossConstruct, AcrossPut, AcrossDone, findings
<1>4. CASE OrderingSkip \/ OrderingOmit \/ OrderingTry \/ OrderingPut \/ OrderingInclude \/ OrderingJoin
           \/ OrderingReport \/ SetMode
  BY <1>4, Zenon DEF ScanInv, OrderingSkip, OrderingOmit, OrderingTry, OrderingPut, OrderingInclude, OrderingJoin,
     OrderingReport, SetMode
<1>5. CASE \/ AtomicityNext \/ AtomicityTry \/ AtomicityPut \/ AtomicityOmit \/ AtomicityOmitPut
           \/ AtomicityInclude \/ AtomicityNextDop \/ AtomicityNextMode \/ AtomicityJoin \/ AtomicityReport
  BY <1>5, Zenon DEF ScanInv, AtomicityNext, AtomicityTry, AtomicityPut, AtomicityOmit, AtomicityOmitPut,
     AtomicityInclude, AtomicityNextDop, AtomicityNextMode, AtomicityJoin, AtomicityReport
<1>6. ASSUME NEW w \in Worker, Thread(w) PROVE ScanInv'
  <2>1. UNCHANGED main
    BY <1>6, Zenon DEF Thread, Get, Check, CheckRaises, RemoveDir, task_done
  <2>2. pc' = pc /\ reported' = reported
    BY <2>1, Zenon DEF main, findings
  <2>3. CASE pc = "across_scan"
    <3>1. FlightInv /\ CountInv /\ DirInv /\ unfinished = 0 /\ Built = {}
      BY <2>3, Zenon DEF IInv, CountInv, Reads, Built, Puts
    <3>2. queue = <<>> /\ at[w] = "get"
      BY <3>1, NothingLeft, Zenon
    <3> QED
      BY <1>6, <3>2, Zenon DEF Thread, Get, Check, CheckRaises, RemoveDir, task_done
  <2> QED
    BY <2>2, <2>3, Zenon DEF ScanInv
<1>7. CASE UNCHANGED vars
  <2>1. pc' = pc /\ reported' = reported /\ i' = i /\ UNCHANGED input /\ outputs' = outputs /\ mops_len' = mops_len
    BY <1>7, Zenon DEF vars, main, findings, shared, input, mops_len
  <2>2. \A x : Fails(x)' = Fails(x) /\ Starts(x)' = Starts(x) /\ PatchOf(x)' = PatchOf(x)
    BY <2>1, SameFailures, Zenon
  <2>3. ~Fails(i - 1) \/ ~Fails(i) => (~Fails(i - 1) \/ ~Fails(i))'
    BY <2>1, Zenon DEF Fails, Failed
  <2> QED
    BY <2>1, <2>2, <2>3, Zenon DEF ScanInv
<1> QED
  BY <1>1, <1>2, <1>3, <1>4, <1>5, <1>6, <1>7, Zenon DEF Next, Main

\* A failure is in the run of failures of exactly one start.
LEMMA StartOf ==
  ASSUME SuitesInv, NEW x \in Mops, Fails(x)
  PROVE  \E a \in 0 .. x : Starts(a) /\ x <= RunEnd(a)
<1> DEFINE S == {a \in 0 .. x : \A z \in a .. x : Fails(z)}
<1>0. x \in Nat /\ mops_len \in Nat /\ x <= mops_len - 1
  BY Basics DEF Mops
<1>1. S \in SUBSET Nat /\ x \in S
  BY <1>0
<1>2. PICK a \in S : \A b \in S : a <= b
  BY <1>1, SomeLeast, Zenon
<1>3. a \in 0 .. x /\ (\A z \in a .. x : Fails(z)) /\ a \in Mops
  BY <1>0, <1>2 DEF Mops
<1>4. Starts(a)
  <2>1. CASE a = 0
    BY <1>0, <1>3, <2>1, Zenon DEF Starts
  <2>2. CASE a # 0
    <3>1. a - 1 \in 0 .. x /\ ~(a <= a - 1)
      BY <1>3, <2>2
    <3>2. a - 1 \notin S
      BY <1>2, <3>1, Zenon
    <3>3. PICK z \in a - 1 .. x : ~Fails(z)
      BY <3>1, <3>2, Zenon
    <3>4. z = a - 1
      BY <1>3, <3>1, <3>3
    <3>5. Fails(a)
      BY <1>0, <1>3
    <3> QED
      BY <3>3, <3>4, <3>5, Zenon DEF Starts
  <2> QED
    BY <2>1, <2>2, Zenon
<1>5. RunEnd(a) \in a .. mops_len - 1 /\ (RunEnd(a) = mops_len - 1 \/ ~Fails(RunEnd(a) + 1))
  BY <1>3, <1>4, RunEndIs, Zenon DEF Starts, Fails
<1>6. x <= RunEnd(a)
  BY <1>0, <1>3, <1>5
<1> QED
  BY <1>3, <1>4, <1>6, Zenon

LEMMA RunOf ==
  ASSUME SuitesInv, NEW a \in Mops, Starts(a)
  PROVE  /\ a \in Nat /\ RunEnd(a) \in a .. mops_len - 1
         /\ \A z \in a .. RunEnd(a) : Fails(z)
         /\ RunEnd(a) = mops_len - 1 \/ ~Fails(RunEnd(a) + 1)
<1>1. Failed(<<"across", a>>)
  BY Zenon DEF Starts, Fails
<1> QED
  BY <1>1, RunEndIs, Basics, Zenon DEF Fails

LEMMA RunsApart ==
  ASSUME SuitesInv, NEW a \in Mops, NEW b \in Mops, Starts(a), Starts(b),
         NEW x, x \in a .. RunEnd(a), x \in b .. RunEnd(b)
  PROVE  a = b
<1>1. /\ a \in Nat /\ b \in Nat
      /\ RunEnd(a) \in a .. mops_len - 1 /\ (\A z \in a .. RunEnd(a) : Fails(z))
      /\ RunEnd(b) \in b .. mops_len - 1 /\ (\A z \in b .. RunEnd(b) : Fails(z))
  BY RunOf, Zenon
<1>2. ~(a < b)
  <2> SUFFICES ASSUME a < b PROVE FALSE
    BY Zenon
  <2>1. b - 1 \in a .. RunEnd(a) /\ b # 0
    BY <1>1
  <2> QED
    BY <1>1, <2>1, Zenon DEF Starts
<1>3. ~(b < a)
  <2> SUFFICES ASSUME b < a PROVE FALSE
    BY Zenon
  <2>1. a - 1 \in b .. RunEnd(b) /\ a # 0
    BY <1>1
  <2> QED
    BY <1>1, <2>1, Zenon DEF Starts
<1> QED
  BY <1>1, <1>2, <1>3

\* The failures a reported patch covers are those of its run.
LEMMA PatchCovers ==
  ASSUME SuitesInv, NEW a \in Mops, Starts(a), NEW x \in Mops, Fails(x)
  PROVE  LET r == PatchOf(a)
         IN r[2] <= x /\ (x < r[3] \/ r[3] = mops_len - 1) <=> x \in a .. RunEnd(a)
<1>1. /\ a \in Nat /\ x \in Nat /\ x <= mops_len - 1 /\ mops_len \in Nat
      /\ RunEnd(a) \in a .. mops_len - 1 /\ (RunEnd(a) = mops_len - 1 \/ ~Fails(RunEnd(a) + 1))
  BY RunOf, Basics DEF Mops
<1>2. PatchOf(a)[2] = a /\ PatchOf(a)[3] = (IF RunEnd(a) + 1 <= mops_len - 1 THEN RunEnd(a) + 1 ELSE mops_len - 1)
  BY Zenon DEF PatchOf, PatchEnd, Least
<1>3. x # RunEnd(a) + 1 \/ RunEnd(a) = mops_len - 1
  BY <1>1, Zenon
<1> QED
  BY <1>1, <1>2, <1>3

\* The scan of the verdicts of the first round reports every failing prefix in
\* exactly one patch, whatever the verdicts are, and every patch runs from a
\* first failure to the first success after it or to the end of the trace.
THEOREM PatchesAreExact == Spec => []PatchesExact
<1>1. ASSUME IInv, ScanInv PROVE PatchesExact
  <2> DEFINE Patch == {r \in reported : r[1] = "across"}
             last == mops_len - 1
             Covers(r, x) == r[2] <= x /\ (x < r[3] \/ r[3] = last)
  <2> SUFFICES ASSUME pc = "across_scan", i >= mops_len
               PROVE  /\ \A x \in 0 .. last : Fails(x) => Cardinality({r \in Patch : Covers(r, x)}) = 1
                      /\ \A r \in Patch :
                           /\ Fails(r[2]) /\ (r[2] = 0 \/ ~Fails(r[2] - 1))
                           /\ ~Fails(r[3]) \/ r[3] = last
    BY Zenon DEF PatchesExact, Fails
  <2>0. SuitesInv /\ mops_len \in Nat \ {0} /\ i = mops_len
    BY <1>1, Basics, SMTT(30) DEF IInv, PosInv
  <2>1. reported = {PatchOf(a) : a \in {y \in Mops : Starts(y)}}
    BY <1>1, <2>0, Zenon DEF ScanInv, Mops
  <2>2. Patch = {PatchOf(a) : a \in {y \in Mops : Starts(y)}}
    <3>1. \A a : PatchOf(a)[1] = "across"
      BY Zenon DEF PatchOf
    <3> QED
      BY <2>1, <3>1, Zenon
  <2> HIDE DEF Patch
  <2>3. ASSUME NEW x \in 0 .. last, Fails(x)
        PROVE  Cardinality({r \in Patch : Covers(r, x)}) = 1
    <3>0. x \in Mops /\ x \in Nat
      BY DEF Mops
    <3>1. PICK a \in 0 .. x : Starts(a) /\ x <= RunEnd(a)
      BY <2>0, <2>3, <3>0, StartOf, Zenon
    <3>2. a \in Mops /\ x \in a .. RunEnd(a)
      <4>1. a \in Mops
        BY <2>0, <3>0, <3>1 DEF Mops
      <4>2. RunEnd(a) \in a .. mops_len - 1
        BY <2>0, <3>1, <4>1, RunEndIs, Zenon DEF Starts, Fails
      <4> QED
        BY <3>0, <3>1, <4>1, <4>2, <2>0
    <3>3. PatchOf(a) \in Patch /\ Covers(PatchOf(a), x)
      BY <2>0, <2>2, <2>3, <3>0, <3>1, <3>2, PatchCovers, Zenon
    <3>4. ASSUME NEW r \in Patch, Covers(r, x) PROVE r = PatchOf(a)
      <4>1. PICK b \in Mops : Starts(b) /\ r = PatchOf(b)
        BY <2>2, Zenon
      <4>2. Covers(PatchOf(b), x)
        BY <3>4, <4>1, Zenon
      <4>3. x \in b .. RunEnd(b)
        BY <2>0, <2>3, <3>0, <4>1, <4>2, PatchCovers, Zenon
      <4>4. a = b
        BY <2>0, <3>1, <3>2, <4>1, <4>3, RunsApart, Zenon
      <4> QED
        BY <4>1, <4>4, Zenon
    <3> HIDE DEF Covers
    <3>5. {r \in Patch : Covers(r, x)} = {PatchOf(a)}
      BY <3>3, <3>4, Zenon
    <3> QED
      BY <3>5, FS_Singleton, Zenon
  <2>4. ASSUME NEW r \in Patch
        PROVE  /\ Fails(r[2]) /\ (r[2] = 0 \/ ~Fails(r[2] - 1))
               /\ ~Fails(r[3]) \/ r[3] = last
    <3>1. PICK a \in Mops : Starts(a) /\ r = PatchOf(a)
      BY <2>2, Zenon
    <3>2. RunEnd(a) \in a .. mops_len - 1 /\ (RunEnd(a) = mops_len - 1 \/ ~Fails(RunEnd(a) + 1))
      BY <2>0, <3>1, RunEndIs, Zenon DEF Starts, Fails
    <3>3. r[2] = a /\ r[3] = IF RunEnd(a) + 1 <= mops_len - 1 THEN RunEnd(a) + 1 ELSE mops_len - 1
      BY <3>1, Zenon DEF PatchOf, PatchEnd, Least
    <3> QED
      BY <2>0, <3>1, <3>2, <3>3 DEF Starts, Mops
  <2> QED
    BY <2>3, <2>4, Zenon
<1>2. Init => ScanInv
  BY Zenon DEF Init, ScanInv
<1>3. IInv /\ ScanInv /\ [Next]_vars => ScanInv'
  BY ScanStep, Zenon
<1> QED
  BY <1>1, <1>2, <1>3, Inductive, PTL DEF Spec

-----------------------------------------------------------------------------
(* Legal crash states                                                      *)

\* A crash state of n micro operations that respects the dependencies that
\* set_fs has computed.
Sound(sts, n, state) ==
  /\ state.mode \in DOMAIN Mode /\ ~sts[state.mode].raises
  /\ test_combo_validity(sts[state.mode], state.ops)
  /\ \A d \in state.ops : Has(sts[state.mode], n, d)

\* The crash states on disk are sound.
SoundInv ==
  /\ suites = [m \in DOMAIN Mode |-> set_fs(trace, Mode[m])]
  /\ pc \in AcrossPc \cup OrderingPc => ~suites[1].raises
  /\ pc \in AtomicityPc => ~suites[mode].raises
  /\ \A key \in DOMAIN dirs : Sound(suites, mops_len, dirs[key])

\* What the suites are in every mode.
LEMMA SuiteOf ==
  ASSUME SuitesInv, SoundInv, NEW m \in DOMAIN Mode
  PROVE  suites[m] = set_fs(trace, Mode[m]) /\ IsTrace(trace, Mode[m]) /\ mops_len = Len(trace)
  BY ExplorerAssumption, Zenon DEF SuitesInv, SoundInv, mops_len

\* A directory is built in front of a state that is_legal lets through.
LEMMA BuildSound ==
  ASSUME SuitesInv, SoundInv, UNCHANGED input, mode \in DOMAIN Mode, ~suite.raises,
         NEW key, NEW m \in Mops, NEW e \in Int, e <= DopsLen(mode, m) - 1, NEW om,
         test_combo_validity(suite, UpTo(suite, m, e) \ om),
         construct_crashed_dir(key, m, e, om)
  PROVE  \A d \in DOMAIN dirs' : Sound(suites, mops_len, dirs[d])'
<1>0. suites' = suites /\ mops_len' = mops_len
  BY Zenon DEF input, mops_len
<1>1. ASSUME NEW d \in UpTo(suite, m, e) PROVE Has(suite, mops_len, d)
  <2>1. PICK x \in 0 .. m : d \in {<<x, y>> : y \in 0 .. (IF x = m THEN e ELSE dops_len(suite, x) - 1)}
    BY <1>1, Zenon DEF UpTo
  <2>2. PICK y \in 0 .. (IF x = m THEN e ELSE dops_len(suite, x) - 1) : d = <<x, y>>
    BY <2>1, Zenon
  <2>3. x \in 0 .. mops_len - 1 /\ mops_len \in Nat
    BY Basics DEF Mops
  <2>4. dops_len(suite, x) \in Nat /\ dops_len(suite, m) \in Nat
    BY <2>3, Basics, Zenon DEF Mops, DopsLen, suite
  <2>5. y \in 0 .. dops_len(suite, x) - 1
    BY <2>2, <2>4 DEF DopsLen, suite
  <2> QED
    BY <2>2, <2>3, <2>5, Zenon DEF Has
<1>2. Sound(suites, mops_len, CrashState(m, e, om))
  <2> DEFINE st == CrashState(m, e, om)
  <2>1. st.mode = mode /\ st.ops = UpTo(suite, m, e) \ om
    BY Zenon DEF CrashState
  <2>2. mode \in DOMAIN Mode /\ ~suites[mode].raises
        /\ test_combo_validity(suites[mode], UpTo(suite, m, e) \ om)
        /\ \A d \in UpTo(suite, m, e) \ om : Has(suites[mode], mops_len, d)
    BY <1>1, Zenon DEF suite
  <2> HIDE DEF st
  <2>3. st.mode \in DOMAIN Mode /\ ~suites[st.mode].raises /\ test_combo_validity(suites[st.mode], st.ops)
        /\ \A d \in st.ops : Has(suites[st.mode], mops_len, d)
    BY <2>1, <2>2, Zenon
  <2>4. Sound(suites, mops_len, st)
    BY <2>3, Zenon DEF Sound
  <2> QED
    BY <2>4, Zenon DEF st
<1>3. \A d \in DOMAIN dirs : Sound(suites, mops_len, dirs[d])
  BY Zenon DEF SoundInv
<1>4. CASE dirs' = dirs
  BY <1>0, <1>3, <1>4, Zenon
<1>5. CASE dirs' = [d \in DOMAIN dirs \cup {key} |-> IF d = key THEN CrashState(m, e, om) ELSE dirs[d]]
  BY <1>0, <1>2, <1>3, <1>5, Zenon
<1> QED
  BY <1>4, <1>5, Zenon DEF construct_crashed_dir

\* Every prefix of the trace is legal: set_fs makes no operation depend on a
\* later one, and a sync system call that is in the prefix is there in full.
LEMMA AcrossLegal ==
  ASSUME SuitesInv, SoundInv, ~suites[1].raises, NEW x \in Mops
  PROVE  /\ test_combo_validity(suites[1], PrefixOf(1, x))
         /\ LegalState(<<"across", x>>)
<1>0. suites[1] = set_fs(trace, Mode[1]) /\ IsTrace(trace, Mode[1]) /\ mops_len = Len(trace)
  BY SuiteOf, FirstMode, Zenon
<1>1. PrefixOf(1, x) = UNION {{<<u, v>> : v \in 0 .. dops_len(suites[1], u) - 1} : u \in 0 .. x}
  BY Zenon DEF PrefixOf, DopsIn, DopsLen
<1>2. x \in 0 .. Len(trace) - 1 /\ x \in Nat
  BY <1>0 DEF Mops
<1>3. test_combo_validity(suites[1], PrefixOf(1, x))
  BY <1>0, <1>1, <1>2, PrefixValid
<1>4. SyncWhole(1, PrefixOf(1, x))
  <2> SUFFICES ASSUME NEW s \in Mops
               PROVE  \/ DopsIn(1, s) \subseteq PrefixOf(1, x)
                      \/ DopsIn(1, s) \cap PrefixOf(1, x) = {} /\ \A d \in PrefixOf(1, x) : d[1] < s
    BY Zenon DEF SyncWhole
  <2>0. s \in Nat
    BY DEF Mops
  <2>1. \A u : \A d \in DopsIn(1, u) : d[1] = u
    BY InDops
  <2>2. CASE s <= x
    BY <1>2, <2>0, <2>2, InPrefix
  <2>3. CASE s > x
    BY <1>2, <2>0, <2>1, <2>3, InPrefix
  <2> QED
    BY <1>2, <2>0, <2>2, <2>3
<1>5. Meant(<<"across", x>>) = [mode |-> 1, ops |-> PrefixOf(1, x)]
  BY MeantOf, Zenon
<1>6. Meant(<<"across", x>>).mode = 1 /\ Meant(<<"across", x>>).ops = PrefixOf(1, x)
  BY <1>5
<1>7. LegalState(<<"across", x>>)
  BY <1>3, <1>4, <1>6, LegalStateOf, Zenon
<1> QED
  BY <1>3, <1>7, Zenon

LEMMA SoundInit == Init => SoundInv
  BY Zenon DEF Init, SoundInv, Empty, AcrossPc, OrderingPc, AtomicityPc

\* A step that builds no directory.
LEMMA KeepSound ==
  ASSUME SoundInv, UNCHANGED input, DOMAIN dirs' \subseteq DOMAIN dirs, \A d \in DOMAIN dirs' : dirs'[d] = dirs[d],
         pc' \in AcrossPc \cup OrderingPc => ~suites[1].raises,
         pc' \in AtomicityPc => ~suites[mode'].raises
  PROVE  SoundInv'
<1>1. suites' = suites /\ trace' = trace /\ mops_len' = mops_len
  BY Zenon DEF input, mops_len
<1> QED
  BY <1>1, Zenon DEF SoundInv

\* A step that may build one.
LEMMA AddSound ==
  ASSUME SoundInv, UNCHANGED input, \A d \in DOMAIN dirs' : Sound(suites, mops_len, dirs[d])',
         pc' \in AcrossPc \cup OrderingPc => ~suites[1].raises,
         pc' \in AtomicityPc => ~suites[mode'].raises
  PROVE  SoundInv'
<1>1. suites' = suites /\ trace' = trace
  BY Zenon DEF input
<1> QED
  BY <1>1, Zenon DEF SoundInv

LEMMA SoundMain ==
  ASSUME IInv, SoundInv, Main
  PROVE  SoundInv'
<1> USE DEF AcrossPc, OrderingPc, AtomicityPc
<1>0. SuitesInv /\ PosInv /\ mode \in DOMAIN Mode
  BY Zenon DEF IInv, PosInv
<1>a. /\ pc \in AcrossPc \cup OrderingPc => ~suites[1].raises
      /\ pc \in AtomicityPc => ~suites[mode].raises
  BY Zenon DEF SoundInv
<1>b. UNCHANGED input
  BY Zenon DEF Main, Start, AcrossConstruct, AcrossPut, AcrossJoin, AcrossScan, AcrossDone, OrderingSkip,
         OrderingOmit, OrderingTry, OrderingPut, OrderingInclude, OrderingJoin, OrderingReport, SetMode,
         AtomicityNext, AtomicityTry, AtomicityPut, AtomicityOmit, AtomicityOmitPut, AtomicityInclude,
         AtomicityNextDop, AtomicityNextMode, AtomicityJoin, AtomicityReport
<1>1. CASE Start
  BY <1>0, <1>b, <1>1, KeepSound, Zenon DEF Start, shared, suite, PosInv
<1>2. CASE AcrossConstruct
  <2> DEFINE last == dops_len(suite, i) - 1
  <2>1. pc = "across" /\ i < mops_len /\ construct_crashed_dir(<<"across", i>>, i, last, omitted)
        /\ pc' = "across_put" /\ mode' = mode
    BY <1>2, Zenon DEF AcrossConstruct
  <2>2. i \in Mops /\ omitted = {} /\ mode = 1 /\ ~suites[1].raises
    BY <1>0, <1>a, <2>1, Basics DEF PosInv, Mops
  <2>3. last \in Int /\ last <= DopsLen(mode, i) - 1 /\ i \in Nat
    BY <1>0, <2>2, Basics DEF DopsLen, suite
  <2>4. UpTo(suite, i, last) \ omitted = PrefixOf(1, i)
    BY <2>2, <2>3, UpToFull, Zenon DEF DopsLen, suite
  <2>5. test_combo_validity(suite, UpTo(suite, i, last) \ omitted)
    BY <1>0, <2>2, <2>4, AcrossLegal, Zenon DEF suite
  <2> HIDE DEF last
  <2>6. ~suite.raises
    BY <2>2, Zenon DEF suite
  <2>7. \A d \in DOMAIN dirs' : Sound(suites, mops_len, dirs[d])'
    BY <1>0, <1>b, <2>1, <2>2, <2>3, <2>5, <2>6, BuildSound, Zenon
  <2> QED
    BY <1>b, <2>1, <2>2, <2>7, AddSound, Zenon
<1>3. CASE AcrossPut \/ AcrossJoin \/ AcrossScan \/ AcrossDone
  BY <1>0, <1>a, <1>b, <1>3, KeepSound, Zenon DEF AcrossPut, AcrossJoin, AcrossScan, AcrossDone, shared, reset
<1>4. CASE OrderingTry
  <2> DEFINE last == dops_len(suite, j) - 1
  <2>1. pc = "ordering_j" /\ mode' = mode /\ pc' \in OrderingPc /\ ~suites[1].raises /\ j < mops_len
    BY <1>a, <1>4, Zenon DEF OrderingTry
  <2>2. CASE dirs' = dirs
    BY <1>b, <2>1, <2>2, KeepSound, Zenon
  <2>3. CASE dirs' # dirs
    <3>1. is_legal(trace, suite, j, last, omitted) /\ construct_crashed_dir(<<"ordering", i, j>>, j, last, omitted)
      BY <1>4, <2>3, Zenon DEF OrderingTry
    <3>2. j \in Mops /\ mode = 1
      BY <1>0, <2>1, Basics DEF PosInv, Omittable, Mops
    <3>3. last \in Int /\ last <= DopsLen(mode, j) - 1
      BY <1>0, <3>2, Basics DEF DopsLen, suite
    <3>4. test_combo_validity(suite, UpTo(suite, j, last) \ omitted)
      BY <3>1, Zenon DEF is_legal
    <3> HIDE DEF last
    <3>5. ~suite.raises
      BY <2>1, <3>2, Zenon DEF suite
    <3>6. \A d \in DOMAIN dirs' : Sound(suites, mops_len, dirs[d])'
      BY <1>0, <1>b, <3>1, <3>2, <3>3, <3>4, <3>5, BuildSound, Zenon
    <3> QED
      BY <1>b, <2>1, <3>6, AddSound, Zenon
  <2> QED
    BY <2>2, <2>3, Zenon
<1>5. CASE OrderingSkip \/ OrderingOmit \/ OrderingPut \/ OrderingInclude \/ OrderingJoin \/ OrderingReport
  BY <1>a, <1>b, <1>5, KeepSound, Zenon DEF OrderingSkip, OrderingOmit, OrderingPut, OrderingInclude, OrderingJoin,
     OrderingReport, shared, reset
<1>6. CASE SetMode
  BY <1>0, <1>b, <1>6, KeepSound, Zenon DEF SetMode, shared
<1>7. CASE AtomicityTry
  <2>1. pc = "atomicity" /\ mode' = mode /\ pc' \in AtomicityPc /\ ~suite.raises /\ i < mops_len
        /\ j < dops_len(suite, i) - 1
    BY <1>a, <1>7, Zenon DEF AtomicityTry, suite
  <2>2. CASE dirs' = dirs
    BY <1>b, <2>1, <2>2, KeepSound, Zenon DEF suite
  <2>3. CASE dirs' # dirs
    <3>1. is_legal(trace, suite, i, j, omitted) /\ construct_crashed_dir(<<"atomicity", mode, i, j>>, i, j, omitted)
      BY <1>7, <2>3, Zenon DEF AtomicityTry
    <3>2. i \in Mops /\ j \in Int
      BY <1>0, <2>1, Basics DEF PosInv, Mops
    <3>3. j <= DopsLen(mode, i) - 1
      BY <1>0, <2>1, <3>2, Basics DEF DopsLen, suite
    <3>4. test_combo_validity(suite, UpTo(suite, i, j) \ omitted)
      BY <3>1, Zenon DEF is_legal
    <3>6. \A d \in DOMAIN dirs' : Sound(suites, mops_len, dirs[d])'
      BY <1>0, <1>b, <2>1, <3>1, <3>2, <3>3, <3>4, BuildSound, Zenon
    <3> QED
      BY <1>b, <2>1, <3>6, AddSound, Zenon DEF suite
  <2> QED
    BY <2>2, <2>3, Zenon
<1>8. CASE AtomicityOmit
  <2> DEFINE om == dops_omit({<<i, k>>})
  <2>1. pc = "atomicity_k" /\ mode' = mode /\ pc' \in AtomicityPc /\ ~suite.raises
    BY <1>a, <1>8, Zenon DEF AtomicityOmit, suite
  <2>2. CASE dirs' = dirs
    BY <1>b, <2>1, <2>2, KeepSound, Zenon DEF suite
  <2>3. CASE dirs' # dirs
    <3>1. is_legal(trace, suite, i, j, om) /\ construct_crashed_dir(<<"atomicity", mode, i, j, k>>, i, j, om)
      BY <1>8, <2>3, Zenon DEF AtomicityOmit
    <3>2. i \in Mops /\ j \in Int /\ j <= DopsLen(mode, i) - 1
      BY <1>0, <2>1, Basics DEF PosInv, Mops, Cuttable
    <3>4. test_combo_validity(suite, UpTo(suite, i, j) \ om)
      BY <3>1, Zenon DEF is_legal
    <3> HIDE DEF om
    <3>6. \A d \in DOMAIN dirs' : Sound(suites, mops_len, dirs[d])'
      BY <1>0, <1>b, <2>1, <3>1, <3>2, <3>4, BuildSound, Zenon
    <3> QED
      BY <1>b, <2>1, <3>6, AddSound, Zenon DEF suite
  <2> QED
    BY <2>2, <2>3, Zenon
<1>9. CASE \/ AtomicityNext \/ AtomicityPut \/ AtomicityOmitPut \/ AtomicityInclude \/ AtomicityNextDop
           \/ AtomicityNextMode \/ AtomicityJoin \/ AtomicityReport
  BY <1>a, <1>b, <1>9, KeepSound, Zenon DEF AtomicityNext, AtomicityPut, AtomicityOmitPut, AtomicityInclude,
     AtomicityNextDop, AtomicityNextMode, AtomicityJoin, AtomicityReport, shared, replayer
<1> QED
  BY <1>1, <1>2, <1>3, <1>4, <1>5, <1>6, <1>7, <1>8, <1>9, Zenon DEF Main

LEMMA SoundThread ==
  ASSUME SoundInv, NEW w \in Worker, Thread(w)
  PROVE  SoundInv'
<1>1. UNCHANGED main
  BY Zenon DEF Thread, Get, Check, CheckRaises, RemoveDir, task_done
<1>2. UNCHANGED input /\ pc' = pc /\ mode' = mode
  BY <1>1, Zenon DEF main, replayer
<1>3. DOMAIN dirs' \subseteq DOMAIN dirs /\ \A d \in DOMAIN dirs' : dirs'[d] = dirs[d]
  BY Zenon DEF Thread, Get, Check, CheckRaises, RemoveDir, task_done, shared
<1> QED
  BY <1>2, <1>3, KeepSound, Zenon DEF SoundInv

LEMMA SoundAlways == Spec => []SoundInv
<1>1. IInv /\ SoundInv /\ [Next]_vars => SoundInv'
  <2> SUFFICES ASSUME IInv, SoundInv, [Next]_vars PROVE SoundInv'
    BY Zenon
  <2>1. CASE Main
    BY <2>1, SoundMain, Zenon
  <2>2. ASSUME NEW w \in Worker, Thread(w) PROVE SoundInv'
    BY <2>2, SoundThread, Zenon
  <2>3. CASE UNCHANGED vars
    <3>1. UNCHANGED input /\ pc' = pc /\ mode' = mode /\ dirs' = dirs
      BY <2>3, Zenon DEF vars, main, replayer, shared
    <3> QED
      BY <3>1, KeepSound, Zenon DEF SoundInv
  <2> QED
    BY <2>1, <2>2, <2>3, Zenon DEF Next
<1> QED
  BY <1>1, SoundInit, Inductive, PTL DEF Spec

\* queue.join is a barrier, whatever the threads do: when the main thread reads
\* the outputs of a round, exactly the crash states of that round that is_legal
\* lets through (of the first round: all of them) have a verdict, and queue,
\* threads and directories are as before the round.
THEOREM RoundsComplete == Spec => []RoundComplete
<1>1. ASSUME IInv, SoundInv PROVE RoundComplete
  <2>0. SuitesInv /\ PosInv /\ FlightInv /\ CountInv /\ DirInv
    BY <1>1, Zenon DEF IInv
  <2>1. DOMAIN ToCheck = {"across_scan", "ordering_report", "atomicity_report"}
    BY Zenon DEF ToCheck
  <2> SUFFICES ASSUME pc \in {"across_scan", "ordering_report", "atomicity_report"}
               PROVE  /\ DOMAIN outputs = {key \in ToCheck[pc] : LegalState(key)}
                      /\ queue = <<>> /\ dirs = Empty
                      /\ \A w \in Worker : at[w] = "get"
    BY <2>1, Zenon DEF RoundComplete
  <2>2. unfinished = 0 /\ Built = {}
    BY <2>0, Zenon DEF CountInv, Reads, Built, Puts
  <2>3. queue = <<>> /\ Pending = {} /\ dirs = Empty /\ \A w \in Worker : at[w] = "get"
    BY <2>0, <2>2, NothingLeft, Zenon
  <2>4. Handed = DOMAIN outputs
    BY <2>0, <2>3, Zenon DEF FlightInv
  <2>5. mops_len \in Nat \ {0} /\ Len(Mode) \in Nat /\ DOMAIN Mode = 1 .. Len(Mode)
    BY <2>0, Basics, FirstMode, Zenon
  <2>6. CASE pc = "across_scan"
    <3>1. Handed = AcrossKeys(mops_len)
      BY <2>6, Zenon DEF Handed
    <3>2. ToCheck.across_scan = {<<"across", x>> : x \in 0 .. mops_len - 1}
      BY Zenon DEF ToCheck
    <3>3. \A x \in 0 .. mops_len - 1 : LegalState(<<"across", x>>)
      BY <1>1, <2>0, <2>6, AcrossLegal, Zenon DEF SoundInv, AcrossPc, Mops
    <3>4. DOMAIN outputs = {key \in ToCheck.across_scan : LegalState(key)}
      BY <2>4, <3>1, <3>2, <3>3, Zenon DEF AcrossKeys
    <3> QED
      BY <2>3, <2>6, <3>4, Zenon
  <2>7. CASE pc = "ordering_report"
    <3>1. Handed = OrderingKeys(mops_len, 0)
      BY <2>7, Zenon DEF Handed
    <3>2. ASSUME NEW key \in ToCheck.ordering_report PROVE key[2] < mops_len
      <4>1. PICK x, y \in Mops : key = <<"ordering", x, y>>
        BY <3>2, OrderingKey, Zenon
      <4> QED
        BY <2>5, <4>1 DEF Mops
    <3>3. OrderingKeys(mops_len, 0) = {key \in ToCheck.ordering_report : LegalState(key)}
      BY <3>2, Zenon DEF OrderingKeys
    <3>4. DOMAIN outputs = {key \in ToCheck.ordering_report : LegalState(key)}
      BY <2>4, <3>1, <3>3, Zenon
    <3> QED
      BY <2>3, <2>7, <3>4, Zenon
  <2>8. CASE pc = "atomicity_report"
    <3>1. Handed = CutKeys(Len(Mode) + 1, 0, 0, -1)
      BY <2>8, Zenon DEF Handed
    <3>2. ASSUME NEW key \in ToCheck.atomicity_report PROVE Precedes(key, Len(Mode) + 1, 0, 0, -1)
      <4>1. key[2] \in DOMAIN Mode
        BY <2>0, <3>2, CutFields, Zenon
      <4> QED
        BY <2>5, <4>1 DEF Precedes
    <3>3. CutKeys(Len(Mode) + 1, 0, 0, -1) = {key \in ToCheck.atomicity_report : LegalState(key)}
      BY <3>2, Zenon DEF CutKeys
    <3>4. DOMAIN outputs = {key \in ToCheck.atomicity_report : LegalState(key)}
      BY <2>4, <3>1, <3>3, Zenon
    <3> QED
      BY <2>3, <2>8, <3>4, Zenon
  <2> QED
    BY <2>6, <2>7, <2>8, Zenon
<1> QED
  BY <1>1, Inductive, SoundAlways, PTL

LEMMA SeqDomain ==
  ASSUME NEW S, NEW s \in Seq(S)
  PROVE  DOMAIN s = 1 .. Len(s) /\ Len(s) \in Nat
  OBVIOUS

LEMMA LessOne ==
  ASSUME NEW n \in Nat, NEW y \in 1 .. n
  PROVE  y - 1 \in 0 .. n - 1 /\ (y - 1) + 1 = y
  OBVIOUS

LEMMA EarlierIn ==
  ASSUME NEW n \in Nat, NEW x \in 0 .. n - 1, NEW u \in 0 .. x - 1
  PROVE  u \in 0 .. n - 1 /\ u \in 0 .. x /\ u < x
  OBVIOUS

\* What was synced is in every crash state that a checker is given: for every
\* trace on which set_fs succeeds, in every round and split mode.
THEOREM SyncsKept == Spec => []SyncedKept
<1>1. ASSUME IInv, SoundInv PROVE SyncedKept
  <2>0. SuitesInv
    BY <1>1, Zenon DEF IInv
  <2> SUFFICES ASSUME NEW key \in DOMAIN dirs, NEW x \in 0 .. mops_len - 1,
                      NEW y \in DOMAIN suites[dirs[key].mode].dops[x],
                      <<x, y - 1>> \in dirs[key].ops, suites[dirs[key].mode].dops[x][y].op = "sync",
                      NEW u \in 0 .. x - 1, NEW v \in DOMAIN suites[dirs[key].mode].dops[u],
                      Flushes(suites[dirs[key].mode].dops[x][y], suites[dirs[key].mode].dops[u][v])
               PROVE  <<u, v - 1>> \in dirs[key].ops
    BY Zenon DEF SyncedKept
  <2> DEFINE m == dirs[key].mode
             ops == dirs[key].ops
             n == Len(trace)
             st == set_fs(trace, Mode[m])
  <2>1. /\ m \in DOMAIN Mode /\ ~suites[m].raises /\ test_combo_validity(suites[m], ops)
        /\ \A d \in ops : Has(suites[m], mops_len, d)
    BY <1>1, Zenon DEF SoundInv, Sound
  <2>2. suites[m] = st /\ IsTrace(trace, Mode[m]) /\ mops_len = n
    BY <1>1, <2>0, <2>1, SuiteOf, Zenon
  <2>3. n \in Nat /\ x \in 0 .. n - 1 /\ u \in 0 .. n - 1 /\ u \in 0 .. x /\ u < x
    <3>1. mops_len \in Nat \ {0}
      BY <2>0, Basics, Zenon
    <3> HIDE DEF n
    <3>2. n \in Nat /\ x \in 0 .. n - 1
      BY <2>2, <3>1, Zenon
    <3> QED
      BY <3>2, EarlierIn, Zenon
  <2>4. ASSUME NEW a \in 0 .. n - 1
        PROVE  DOMAIN st.dops[a] = 1 .. dops_len(st, a) /\ dops_len(st, a) \in Nat
    <3> DEFINE dops == get_disk_ops(Mode[m], trace[a + 1])
    <3>0. a + 1 \in 1 .. n
      <4> HIDE DEF n
      <4> QED
        BY <2>3
    <3>1. st.dops[a] = dops /\ a + 1 \in 1 .. n
      BY <3>0, Zenon DEF set_fs, HiddenDiskOps
    <3>2. dops \in Seq({dops[c] : c \in DOMAIN dops})
      BY <2>2, <3>1, Zenon DEF IsTrace
    <3> HIDE DEF dops
    <3>3. DOMAIN dops = 1 .. Len(dops) /\ Len(dops) \in Nat
      BY <3>2, SeqDomain, Zenon
    <3> QED
      BY <3>1, <3>3, Zenon DEF dops_len
  <2>5. y \in 1 .. dops_len(st, x) /\ v \in 1 .. dops_len(st, u)
        /\ dops_len(st, x) \in Nat /\ dops_len(st, u) \in Nat
    BY <2>2, <2>3, <2>4, Zenon
  <2>6. y - 1 \in 0 .. dops_len(st, x) - 1 /\ v - 1 \in 0 .. dops_len(st, u) - 1
        /\ (y - 1) + 1 = y /\ (v - 1) + 1 = v
    BY <2>5, LessOne, Zenon
  <2> HIDE DEF st, m, ops, n
  <2>7. /\ st.dops[x][(y - 1) + 1].op = "sync"
        /\ Flushes(st.dops[x][(y - 1) + 1], st.dops[u][(v - 1) + 1])
        /\ <<x, y - 1>> \in ops
    BY <2>2, <2>6, Zenon DEF m, ops
  <2>8. \A a \in 0 .. n - 1 : \A b \in 0 .. dops_len(st, a) - 1 :
          <<a, b>> \in ops /\ st.dops[a][b + 1].op = "sync" =>
            \A c \in 0 .. a : \A d \in 0 .. dops_len(st, c) - 1 :
              (c < a \/ d < b) /\ Flushes(st.dops[a][b + 1], st.dops[c][d + 1]) => <<c, d>> \in ops
    <3>1. /\ ~set_fs(trace, Mode[m]).raises /\ \A d \in ops : Has(set_fs(trace, Mode[m]), Len(trace), d)
          /\ test_combo_validity(set_fs(trace, Mode[m]), ops)
      BY <2>1, <2>2, Zenon DEF st, n
    <3> QED
      BY <2>2, <3>1, SyncedIsKept, Zenon DEF st, n
  <2> QED
    BY <2>3, <2>6, <2>7, <2>8, Zenon DEF ops
<1> QED
  BY <1>1, Inductive, SoundAlways, PTL
=============================================================================
