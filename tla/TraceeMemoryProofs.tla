------------------------- MODULE TraceeMemoryProofs -------------------------
(***************************************************************************)
(* TLAPS proofs about TraceeMemory, for every size of a page, a chunk and  *)
(* a word and every length of a request.                                   *)
(***************************************************************************)
EXTENDS TraceeMemory, TLAPS, SequenceTheorems, WellFoundedInduction

-----------------------------------------------------------------------------
(* Words and pages                                                         *)

LEMMA Sizes ==
  /\ PAGE \in Nat \ {0} /\ CHUNK \in Nat \ {0} /\ WORD \in Nat \ {0} /\ Pages \in Nat \ {0} /\ MaxLen \in Nat \ {0}
  /\ CHUNK <= PAGE /\ PAGE % WORD = 0
  BY MemoryAssumption

LEMMA Division ==
  ASSUME NEW x \in Nat, NEW b \in Nat \ {0}
  PROVE  /\ x \div b \in Nat /\ x % b \in 0 .. b - 1
         /\ (x \div b) * b \in Nat /\ x = (x \div b) * b + (x % b)
  OBVIOUS

LEMMA QuotientIs ==
  ASSUME NEW x \in Nat, NEW b \in Nat \ {0}, NEW q \in Nat, q * b <= x, x < q * b + b
  PROVE  x \div b = q
  OBVIOUS

LEMMA Remainder ==
  ASSUME NEW b \in Nat \ {0}, NEW q \in Nat
  PROVE  (q * b) % b = 0
<1> DEFINE x == q * b
<1>1. x \in Nat /\ q * b <= x /\ x < q * b + b
  OBVIOUS
<1> HIDE DEF x
<1>2. x \div b = q
  BY <1>1, QuotientIs
<1>3. x = (x \div b) * b + (x % b) /\ x % b \in 0 .. b - 1
  BY <1>1, Division
<1>4. x = q * b + (x % b)
  BY <1>2, <1>3
<1>5. x = q * b
  BY DEF x
<1>6. q * b \in Nat
  OBVIOUS
<1>7. x % b = 0
  BY <1>3, <1>4, <1>5, <1>6
<1> QED
  BY <1>7 DEF x

LEMMA Multiples ==
  ASSUME NEW x \in Int, NEW y \in Int, NEW b \in Nat \ {0}, x < y
  PROVE  x * b + b <= y * b
  OBVIOUS

\* The addresses of a word.
LEMMA WordOf ==
  ASSUME NEW a \in Nat, NEW w, w = a - (a % WORD)
  PROVE  /\ w \in Nat /\ w % WORD = 0 /\ (w + WORD) % WORD = 0 /\ w <= a /\ a < w + WORD
         /\ \A b \in w .. w + WORD - 1 : b \div WORD = a \div WORD
<1>0. WORD \in Nat \ {0}
  BY Sizes
<1> DEFINE q == a \div WORD
<1>1. q \in Nat /\ q * WORD \in Nat /\ w = q * WORD /\ w <= a /\ a < w + WORD
  BY <1>0, Division
<1>2. ASSUME NEW b \in w .. w + WORD - 1 PROVE b \div WORD = q
  <2>1. b \in Nat /\ q * WORD <= b /\ b < q * WORD + WORD
    BY <1>0, <1>1
  <2> QED
    BY <1>0, <1>1, <2>1, QuotientIs, Zenon
<1>3. w % WORD = 0
  BY <1>0, <1>1, Remainder, Zenon
<1>4. (w + WORD) % WORD = 0
  <2>1. (q + 1) * WORD = w + WORD
    BY <1>0, <1>1
  <2>2. ((q + 1) * WORD) % WORD = 0
    BY <1>0, <1>1, Remainder
  <2> QED
    BY <2>1, <2>2
<1> QED
  BY <1>1, <1>2, <1>3, <1>4

\* A word lies in one page.
LEMMA SameWord ==
  ASSUME NEW a \in Nat, NEW b \in Nat, a \div WORD = b \div WORD
  PROVE  a \div PAGE = b \div PAGE /\ (a < Top <=> b < Top)
<1> DEFINE q == a \div WORD
           k == PAGE \div WORD
           p == a \div PAGE
<1>0. WORD \in Nat \ {0} /\ PAGE \in Nat \ {0} /\ Pages \in Nat
  BY Sizes
<1>1. /\ q \in Nat /\ q * WORD \in Nat /\ q * WORD <= a /\ a < q * WORD + WORD
      /\ q * WORD <= b /\ b < q * WORD + WORD
  <2>1. /\ a \div WORD \in Nat /\ a % WORD \in 0 .. WORD - 1
        /\ (a \div WORD) * WORD \in Nat /\ a = (a \div WORD) * WORD + (a % WORD)
    BY <1>0, Division, Zenon
  <2>2. b % WORD \in 0 .. WORD - 1 /\ b = (b \div WORD) * WORD + (b % WORD)
    BY <1>0, Division
  <2>3. b = q * WORD + (b % WORD)
    BY <2>2
  <2> HIDE DEF q
  <2> QED
    BY <1>0, <2>1, <2>2, <2>3 DEF q
<1>2. k \in Nat /\ PAGE = k * WORD
  BY <1>0, Division, Sizes
<1>3. p \in Nat /\ p * PAGE \in Nat /\ p * PAGE <= a /\ a < p * PAGE + PAGE
  BY <1>0, Division
<1> HIDE DEF q, k, p
\* Whatever multiple of PAGE is taken, a and b are on the same side of it.
<1>4. ASSUME NEW n \in Nat PROVE a < n * PAGE <=> b < n * PAGE
  <2>1. n * PAGE = (n * k) * WORD /\ n * k \in Nat
    BY <1>0, <1>2
  <2> DEFINE m == n * k
  <2> HIDE DEF m
  <2>2. CASE q < m
    <3>1. q * WORD + WORD <= m * WORD
      BY <1>0, <1>1, <2>1, <2>2, Multiples DEF m
    <3> QED
      BY <1>0, <1>1, <2>1, <3>1 DEF m
  <2>3. CASE m <= q
    <3>1. m * WORD <= q * WORD
      <4>1. CASE m < q
        <5>1. m * WORD + WORD <= q * WORD
          BY <1>0, <1>1, <2>1, <4>1, Multiples DEF m
        <5> QED
          BY <1>0, <1>1, <2>1, <5>1 DEF m
      <4>2. CASE m = q
        BY <1>1, <4>2
      <4> QED
        BY <1>1, <2>1, <2>3, <4>1, <4>2 DEF m
    <3> QED
      BY <1>0, <1>1, <2>1, <3>1 DEF m
  <2> QED
    BY <1>1, <2>1, <2>2, <2>3 DEF m
<1>5. ~(b < p * PAGE) /\ b < (p + 1) * PAGE
  <2>1. (p + 1) * PAGE = p * PAGE + PAGE
    BY <1>0, <1>3
  <2> QED
    BY <1>3, <1>4, <2>1
<1>6. b \div PAGE = p
  <2>1. p * PAGE <= b /\ b < p * PAGE + PAGE
    BY <1>0, <1>3, <1>5
  <2> QED
    BY <1>0, <1>3, <2>1, QuotientIs
<1> QED
  BY <1>0, <1>4, <1>6, Zenon DEF Top, p

\* The first chunk of umovestr lies in one page.
LEMMA ChunkInPage ==
  ASSUME NEW addr \in Nat, NEW len \in Nat \ {0}
  PROVE  /\ chunk_len(addr, len) \in 1 .. len
         /\ \A b \in addr .. addr + chunk_len(addr, len) - 1 :
              b \div PAGE = addr \div PAGE /\ (b < Top <=> addr < Top)
<1> DEFINE whole == Lesser(len, CHUNK)
           x == addr + whole
           e == x % PAGE
           q == x \div PAGE
           n == chunk_len(addr, len)
<1>0. PAGE \in Nat \ {0} /\ CHUNK \in Nat \ {0} /\ CHUNK <= PAGE /\ Pages \in Nat
  BY Sizes
<1>1. whole \in 1 .. len /\ whole <= PAGE
  BY <1>0 DEF Lesser
<1>2. x \in Nat /\ q \in Nat /\ q * PAGE \in Nat /\ x = q * PAGE + e /\ e \in 0 .. PAGE - 1
  <2>1. x \in Nat
    BY <1>1
  <2> HIDE DEF x
  <2> QED
    BY <1>0, <2>1, Division, Zenon
<1>3. n = IF whole > e THEN whole - e ELSE whole
  BY DEF chunk_len
<1>4. x = addr + whole
  OBVIOUS
<1> HIDE DEF whole, x, e, q, n
<1>5. n \in 1 .. len
  BY <1>0, <1>1, <1>2, <1>3
<1>6. \E p \in Nat : p * PAGE <= addr /\ addr + n <= p * PAGE + PAGE
  <2>1. CASE whole > e
    <3>1. q # 0
      <4>1. q = 0 => q * PAGE = 0
        BY <1>0
      <4> QED
        BY <1>1, <1>2, <1>4, <2>1, <4>1
    <3>2. q - 1 \in Nat /\ (q - 1) * PAGE + PAGE = q * PAGE /\ (q - 1) * PAGE \in Nat
      BY <1>0, <1>2, <3>1
    <3>3. addr + n = q * PAGE
      BY <1>1, <1>2, <1>3, <1>4, <2>1
    <3>4. (q - 1) * PAGE <= addr
      BY <1>0, <1>1, <1>2, <1>3, <1>5, <2>1, <3>2, <3>3
    <3>5. addr + n <= (q - 1) * PAGE + PAGE
      BY <1>2, <3>2, <3>3
    <3> QED
      BY <3>2, <3>4, <3>5
  <2>2. CASE ~(whole > e)
    <3>1. q * PAGE <= addr /\ addr + n <= q * PAGE + PAGE
      BY <1>0, <1>1, <1>2, <1>3, <1>4, <2>2
    <3> QED
      BY <1>2, <3>1
  <2> QED
    BY <2>1, <2>2
<1>7. PICK p \in Nat : p * PAGE <= addr /\ addr + n <= p * PAGE + PAGE
  BY <1>6
<1>8. ASSUME NEW b \in addr .. addr + n - 1
      PROVE  b \in Nat /\ b \div PAGE = p /\ (b < Top <=> p < Pages)
  <2>1. b \in Nat /\ p * PAGE <= b /\ b < p * PAGE + PAGE /\ p * PAGE \in Nat
    BY <1>0, <1>5, <1>7
  <2>2. b \div PAGE = p
    BY <1>0, <2>1, QuotientIs
  <2>3. Pages * PAGE \in Nat
    BY <1>0
  <2>4. p < Pages => b < Pages * PAGE
    <3>1. p < Pages => p * PAGE + PAGE <= Pages * PAGE
      BY <1>0, Multiples
    <3> QED
      BY <1>0, <2>1, <2>3, <3>1
  <2>5. p >= Pages => ~(b < Pages * PAGE)
    <3>1. CASE Pages < p
      <4>1. Pages * PAGE + PAGE <= p * PAGE
        BY <1>0, <3>1, Multiples
      <4> QED
        BY <1>0, <2>1, <2>3, <4>1
    <3>2. CASE Pages = p
      BY <2>1, <2>3, <3>2
    <3> QED
      BY <1>0, <3>1, <3>2
  <2> QED
    BY <1>0, <2>1, <2>2, <2>4, <2>5 DEF Top
<1>9. addr \in addr .. addr + n - 1
  BY <1>5
<1>10. \A b \in addr .. addr + n - 1 : b \div PAGE = addr \div PAGE /\ (b < Top <=> addr < Top)
  BY <1>8, <1>9
<1> QED
  BY <1>5, <1>10 DEF n

\* What is copied in two goes.
LEMMA BytesJoin ==
  ASSUME NEW a \in Nat, NEW n \in Nat, NEW m \in Nat
  PROVE  /\ Bytes(a, n) \o Bytes(a + n, m) = Bytes(a, n + m)
         /\ Bytes(a, n) \in Seq(Nat) /\ Len(Bytes(a, n)) = n
<1>1. ASSUME NEW x \in Nat, NEW y \in Nat
      PROVE  Bytes(x, y) \in Seq(Nat) /\ Len(Bytes(x, y)) = y
  BY DEF Bytes
<1>2. Bytes(a, n) \in Seq(Nat) /\ Bytes(a + n, m) \in Seq(Nat) /\ Len(Bytes(a, n)) = n /\ Len(Bytes(a + n, m)) = m
  <2>1. a + n \in Nat
    OBVIOUS
  <2> QED
    BY <1>1, <2>1
<1> DEFINE s == Bytes(a, n) \o Bytes(a + n, m)
<1>3. s \in Seq(Nat) /\ Len(s) = n + m
  BY <1>2, SMTT(30)
<1>4. ASSUME NEW x \in 1 .. n + m PROVE s[x] = a + x - 1
  <2>1. s[x] = IF x <= n THEN Bytes(a, n)[x] ELSE Bytes(a + n, m)[x - n]
    BY <1>2
  <2>2. CASE x <= n
    BY <2>1, <2>2 DEF Bytes
  <2>3. CASE x > n
    BY <2>1, <2>3 DEF Bytes
  <2> HIDE DEF s
  <2> QED
    BY <2>2, <2>3
<1>5. s = [x \in 1 .. n + m |-> s[x]]
  BY <1>3
<1> HIDE DEF s
<1>6. s = [x \in 1 .. n + m |-> a + x - 1]
  BY <1>4, <1>5
<1> QED
  BY <1>1, <1>6 DEF Bytes, s

LEMMA BytesSeq ==
  ASSUME NEW a \in Nat, NEW n \in Nat
  PROVE  Bytes(a, n) \in Seq(Nat) /\ Len(Bytes(a, n)) = n
  BY DEF Bytes

LEMMA BytesFirst ==
  ASSUME NEW a \in Nat, NEW m \in Nat
  PROVE  Bytes(a, 0) \o Bytes(a, m) = Bytes(a, m)
<1>0. 0 \in Nat
  OBVIOUS
<1>1. Bytes(a, 0) \o Bytes(a + 0, m) = Bytes(a, 0 + m)
  BY <1>0, BytesJoin, Zenon
<1>2. a + 0 = a /\ 0 + m = m
  OBVIOUS
<1> QED
  BY <1>1, <1>2

-----------------------------------------------------------------------------
(* The inductive invariant                                                 *)

Op == {"umoven", "umovestr"}
MemType == [nul : SUBSET Nat, mapped : SUBSET (0 .. Pages - 1), alive : BOOLEAN, readv : BOOLEAN,
            unsupported : BOOLEAN, wordsize : {4, 8}]
CopyType == [op : Op, pc : {"readv", "head", "words", "done"}, addr : Nat, remote : Nat, len : Nat,
             got : Seq(Nat), ret : Int, addr0 : Nat, len0 : Nat, mapped0 : SUBSET (0 .. Pages - 1)]

\* How much has been copied, and from where.
Read == copy.len0 - copy.len
Past == copy.addr0 .. copy.addr0 + Read - 1

\* Nothing has been copied from where there was no memory, and the loops are
\* where the bytes copied say.  A string that is still being read has no NUL
\* so far.
CopyInv ==
  /\ copy.len <= copy.len0 /\ copy.got = Bytes(copy.addr0, Read)
  /\ mem.mapped \subseteq copy.mapped0
  /\ \A b \in Past : b < Top /\ b \div PAGE \in copy.mapped0
  /\ copy.pc = "readv" => /\ ~mem.unsupported /\ copy.addr = copy.addr0 /\ copy.remote = copy.addr0 + Read
                          /\ copy.op = "umoven" => Read = 0
                          /\ mem.readv \/ Read = 0
  /\ copy.pc = "head" => mem.unsupported /\ copy.addr = copy.addr0 /\ Read = 0
  /\ copy.pc = "words" => /\ mem.unsupported /\ copy.addr % WORD = 0
                          /\ copy.len > 0 => copy.addr = copy.addr0 + Read
  /\ copy.op = "umovestr" /\ copy.pc # "done" => \A b \in Past : ~Nul(b)
  /\ Returned /\ copy.ret = 0 => copy.len = 0

MInv ==
  /\ mem \in MemType
  /\ copy # NoCopy => copy \in CopyType /\ CopyInv /\ UmovenExact /\ UmovestrExact

-----------------------------------------------------------------------------
(* The kernel                                                              *)

LEMMA LeastElement ==
  ASSUME NEW S \in SUBSET Nat, S # {}
  PROVE  \E x \in S : \A y \in S : x <= y
<1> DEFINE R == {ss \in Nat \X Nat : ss[1] < ss[2]}
<1>1. OpToRel(<, Nat) = R
  BY Zenon DEF OpToRel
<1>2. IsWellFoundedOn(OpToRel(<, Nat), Nat)
  BY NatLessThanWellFounded
<1> HIDE DEF R
<1>3. IsWellFoundedOn(R, Nat)
  BY <1>1, <1>2, Zenon
<1>4. PICK x \in S : \A y \in S : ~(<<y, x>> \in R)
  BY <1>3, WFMin, Zenon
<1>5. ASSUME NEW y \in S PROVE x <= y
  <2>1. <<y, x>> \in Nat \X Nat /\ <<y, x>>[1] = y /\ <<y, x>>[2] = x
    OBVIOUS
  <2>2. ~(y < x)
    BY <1>4, <2>1, Zenon DEF R
  <2> QED
    BY <2>2
<1> QED
  BY <1>5

\* process_vm_readv gives what is mapped, all of it or a part or an error.
LEMMA ReadvGives ==
  ASSUME NEW a \in Nat, NEW n \in Nat, NEW r \in process_vm_readv(a, n), mem \in MemType
  PROVE  /\ r = ENOSYS <=> ~mem.readv
         /\ \/ r = ENOSYS \/ r = EFAULT
            \/ r \in 0 .. n /\ \A b \in a .. a + r - 1 : Mapped(b)
         /\ r # ENOSYS /\ mem.alive => (r = n <=> \A b \in a .. a + n - 1 : Mapped(b))
         /\ r = 0 => n = 0
<1> DEFINE All == \A b \in a .. a + n - 1 : Mapped(b)
           Halts(b) == ~Mapped(b) /\ \A c \in a .. b - 1 : Mapped(c)
           first == CHOOSE b \in a .. a + n - 1 : Halts(b)
<1>0. ENOSYS = -2 /\ EFAULT = -1
  BY DEF ENOSYS, EFAULT
<1>1. CASE ~mem.readv
  <2>1. r = ENOSYS
    BY <1>1 DEF process_vm_readv
  <2> QED
    BY <1>0, <1>1, <2>1
<1>2. CASE mem.readv /\ ~mem.alive
  <2>1. r = EFAULT
    BY <1>2 DEF process_vm_readv
  <2> QED
    BY <1>0, <1>2, <2>1
<1>3. CASE mem.readv /\ mem.alive /\ All
  <2>1. r = n
    BY <1>3 DEF process_vm_readv
  <2> QED
    BY <1>0, <1>3, <2>1
<1>4. CASE mem.readv /\ mem.alive /\ ~All
  <2>1. r \in {EFAULT} \cup ({first - a} \ {0})
    BY <1>4 DEF process_vm_readv
  <2> DEFINE S == {b \in a .. a + n - 1 : ~Mapped(b)}
  <2>2. S \in SUBSET Nat /\ S # {}
    BY <1>4
  <2>3. PICK b \in S : \A c \in S : b <= c
    BY <2>2, LeastElement, Zenon
  <2>4. b \in a .. a + n - 1 /\ Halts(b)
    <3>1. ASSUME NEW c \in a .. b - 1 PROVE Mapped(c)
      <4>1. c \in a .. a + n - 1 /\ ~(b <= c)
        BY <2>3
      <4> QED
        BY <2>3, <4>1
    <3> QED
      BY <2>3, <3>1
  <2> HIDE DEF Halts, S
  <2>5. first \in a .. a + n - 1 /\ Halts(first)
    BY <2>4
  <2> HIDE DEF first
  <2>6. CASE r = EFAULT
    BY <1>0, <1>4, <2>6
  <2>7. CASE r = first - a /\ r # 0
    <3>1. r \in 0 .. n /\ r # n
      BY <2>5, <2>7
    <3>2. \A c \in a .. a + r - 1 : Mapped(c)
      BY <2>5, <2>7 DEF Halts
    <3> QED
      BY <1>0, <1>4, <2>7, <3>1, <3>2
  <2> QED
    BY <2>1, <2>6, <2>7
<1> QED
  BY <1>1, <1>2, <1>3, <1>4

-----------------------------------------------------------------------------
(* The steps                                                               *)

LEMMA MInit == MemoryInit => MInv
<1> SUFFICES ASSUME MemoryInit PROVE MInv
  OBVIOUS
<1>1. Top \in Nat
  BY Sizes DEF Top
<1> DEFINE Nuls == {{}} \cup {{a} : a \in 0 .. Top - 1}
<1>2. Nuls \subseteq SUBSET Nat
  BY <1>1
<1>3. mem \in [nul : Nuls, mapped : SUBSET (0 .. Pages - 1), alive : {TRUE}, readv : BOOLEAN,
               unsupported : {FALSE}, wordsize : {4, 8}] /\ copy = NoCopy
  BY Zenon DEF MemoryInit
<1> HIDE DEF Nuls
<1> QED
  BY <1>2, <1>3, Zenon DEF MInv, MemType

LEMMA StartStep ==
  ASSUME MInv, NEW op \in Op, NEW addr \in 0 .. Top - 1, NEW high \in {0, 1}, NEW len \in 0 .. MaxLen,
         Start(op, addr, high, len)
  PROVE  MInv'
<1> DEFINE a == IF mem.wordsize = 4 THEN addr ELSE addr + high * Top
<1>0. Top \in Nat /\ a \in Nat
  BY Sizes DEF Top
<1> HIDE DEF a
<1>1. /\ mem' = mem
      /\ copy' = [op |-> op, pc |-> IF mem.unsupported THEN "head" ELSE "readv",
                  addr |-> a, remote |-> a, len |-> len, got |-> <<>>, ret |-> 0,
                  addr0 |-> a, len0 |-> len, mapped0 |-> mem.mapped]
  BY DEF Start, a
<1>2. len \in Nat /\ mem \in MemType /\ mem.mapped \in SUBSET (0 .. Pages - 1)
  BY DEF MInv, MemType
<1>3. /\ copy'.op = op /\ copy'.pc = (IF mem.unsupported THEN "head" ELSE "readv") /\ copy'.addr = a
      /\ copy'.remote = a /\ copy'.len = len /\ copy'.got = <<>> /\ copy'.ret = 0 /\ copy'.addr0 = a
      /\ copy'.len0 = len /\ copy'.mapped0 = mem.mapped
  BY <1>1
<1>4. copy' \in CopyType
  BY <1>0, <1>1, <1>2 DEF CopyType
<1>5. Read' = 0 /\ Past' = {} /\ ~Returned'
  BY <1>0, <1>2, <1>3 DEF Read, Past, Returned
<1>6. <<>> = Bytes(a, 0)
  BY DEF Bytes
<1>7. CopyInv'
  BY <1>0, <1>1, <1>2, <1>3, <1>5, <1>6 DEF CopyInv
<1>8. UmovenExact' /\ UmovestrExact'
  BY <1>5, Zenon DEF UmovenExact, UmovestrExact
<1> QED
  BY <1>1, <1>2, <1>4, <1>7, <1>8 DEF MInv

\* A page goes, or the task: what was copied stays copied, and the reader is
\* disturbed.
LEMMA UnmapStep ==
  ASSUME MInv, NEW p \in mem.mapped, Unmap(p)
  PROVE  MInv'
<1>1. mem' = [mem EXCEPT !.mapped = @ \ {p}] /\ copy' = copy /\ copy # NoCopy
  BY DEF Unmap
<1>2. mem \in MemType /\ copy \in CopyType /\ CopyInv
  BY <1>1 DEF MInv
<1>3. /\ mem' \in MemType /\ mem'.mapped = mem.mapped \ {p} /\ mem'.nul = mem.nul /\ mem'.alive = mem.alive
      /\ mem'.readv = mem.readv /\ mem'.unsupported = mem.unsupported
  BY <1>1, <1>2 DEF MemType
<1>4. Read' = Read /\ Past' = Past /\ (Returned' <=> Returned) /\ \A b : Nul(b)' <=> Nul(b)
  BY <1>1, <1>3 DEF Read, Past, Returned, Nul
<1>5. CopyInv'
  BY <1>1, <1>2, <1>3, <1>4 DEF CopyInv
<1>6. ~Undisturbed'
  BY <1>1, <1>2, <1>3 DEF Undisturbed, CopyInv
<1> QED
  BY <1>1, <1>2, <1>3, <1>5, <1>6, Zenon DEF MInv, UmovenExact, UmovestrExact

LEMMA KilledStep ==
  ASSUME MInv, Killed
  PROVE  MInv'
<1>1. mem' = [mem EXCEPT !.alive = FALSE] /\ copy' = copy /\ copy # NoCopy
  BY DEF Killed
<1>2. mem \in MemType /\ copy \in CopyType /\ CopyInv
  BY <1>1 DEF MInv
<1>3. /\ mem' \in MemType /\ mem'.mapped = mem.mapped /\ mem'.nul = mem.nul /\ ~mem'.alive
      /\ mem'.readv = mem.readv /\ mem'.unsupported = mem.unsupported
  BY <1>1, <1>2, Zenon DEF MemType
<1>4. Read' = Read /\ Past' = Past /\ (Returned' <=> Returned) /\ \A b : Nul(b)' <=> Nul(b)
  BY <1>1, <1>3 DEF Read, Past, Returned, Nul
<1>5. CopyInv'
  BY <1>1, <1>2, <1>3, <1>4 DEF CopyInv
<1>6. ~Undisturbed'
  BY <1>3 DEF Undisturbed
<1> QED
  BY <1>1, <1>2, <1>3, <1>5, <1>6, Zenon DEF MInv, UmovenExact, UmovestrExact

\* What is known of a reader that is at work.
LEMMA AtWork ==
  ASSUME MInv, copy # NoCopy
  PROVE  /\ mem \in MemType /\ copy \in CopyType /\ CopyInv
         /\ copy.addr \in Nat /\ copy.remote \in Nat /\ copy.len \in Nat /\ copy.addr0 \in Nat /\ copy.len0 \in Nat
         /\ Read \in Nat /\ copy.len0 = Read + copy.len /\ Top \in Nat
         /\ Past \subseteq Nat /\ mem.nul \subseteq Nat
         /\ mem.unsupported \in BOOLEAN /\ mem.alive \in BOOLEAN /\ copy.op \in Op
<1>1. mem \in MemType /\ copy \in CopyType /\ CopyInv
  BY DEF MInv
<1>2. /\ copy.addr \in Nat /\ copy.remote \in Nat /\ copy.len \in Nat /\ copy.addr0 \in Nat /\ copy.len0 \in Nat
      /\ mem.unsupported \in BOOLEAN /\ mem.alive \in BOOLEAN /\ mem.nul \subseteq Nat /\ copy.op \in Op
  BY <1>1 DEF MemType, CopyType
<1>3. Read \in Nat /\ copy.len0 = Read + copy.len
  BY <1>1, <1>2 DEF CopyInv, Read
<1>4. Past \subseteq Nat
  BY <1>2, <1>3 DEF Past
<1> QED
  BY <1>1, <1>2, <1>3, <1>4, Sizes DEF Top

\* process_vm_readv turns out not to be there, before anything was copied.
LEMMA UnsupportedStep ==
  ASSUME MInv, copy # NoCopy, copy.pc = "readv", ~mem.readv, Unsupported
  PROVE  MInv'
<1>0. /\ mem \in MemType /\ copy \in CopyType /\ CopyInv
  BY AtWork
<1>1. mem' = [mem EXCEPT !.unsupported = TRUE] /\ copy' = [copy EXCEPT !.pc = "head"]
  BY DEF Unsupported
<1>2. /\ mem' \in MemType /\ mem'.mapped = mem.mapped /\ mem'.nul = mem.nul /\ mem'.unsupported
  BY <1>0, <1>1, Zenon DEF MemType
<1>3. /\ copy' \in CopyType /\ copy'.pc = "head" /\ copy'.op = copy.op /\ copy'.addr = copy.addr /\ copy'.len = copy.len
      /\ copy'.got = copy.got /\ copy'.addr0 = copy.addr0 /\ copy'.len0 = copy.len0 /\ copy'.mapped0 = copy.mapped0
  BY <1>0, <1>1 DEF CopyType
<1>4. Read' = Read /\ Past' = Past /\ ~Returned' /\ \A b : Nul(b)' <=> Nul(b)
  BY <1>2, <1>3 DEF Read, Past, Returned, Nul
<1>5. CopyInv'
  BY <1>0, <1>2, <1>3, <1>4 DEF CopyInv
<1> QED
  BY <1>2, <1>3, <1>4, <1>5, Zenon DEF MInv, UmovenExact, UmovestrExact

LEMMA DoneIs ==
  ASSUME copy \in CopyType, NEW r \in Int, copy' = Done(r)
  PROVE  /\ copy' \in CopyType /\ copy'.pc = "done" /\ copy'.ret = r /\ copy'.op = copy.op /\ copy'.len = copy.len
         /\ copy'.got = copy.got /\ copy'.addr0 = copy.addr0 /\ copy'.len0 = copy.len0
         /\ copy'.mapped0 = copy.mapped0 /\ copy'.addr = copy.addr
  BY Zenon DEF CopyType, Done

\* The function gives up.
LEMMA GivesUp ==
  ASSUME MInv, copy # NoCopy, copy' = Done(-1), UNCHANGED mem,
         \/ ~Undisturbed
         \/ copy.len0 = 0 /\ mem.unsupported
         \/ copy.op = "umovestr" /\ ~mem.unsupported /\ copy.got # <<>>
         \/ /\ \E b \in Asked : ~Mapped(b)
            /\ copy.op = "umovestr" => Ends = {}
  PROVE  MInv'
<1>0. /\ mem \in MemType /\ copy \in CopyType /\ CopyInv
  BY AtWork
<1>1. mem' = mem /\ -1 \in Int /\ -1 # 0 /\ -1 # 1
  OBVIOUS
<1>2. /\ copy' \in CopyType /\ copy'.pc = "done" /\ copy'.ret = -1 /\ copy'.op = copy.op /\ copy'.len = copy.len
      /\ copy'.got = copy.got /\ copy'.addr0 = copy.addr0 /\ copy'.len0 = copy.len0 /\ copy'.mapped0 = copy.mapped0
  BY <1>0, <1>1, DoneIs
<1>3. /\ Read' = Read /\ Past' = Past /\ (Undisturbed' <=> Undisturbed) /\ Asked' = Asked
      /\ \A b : (Nul(b)' <=> Nul(b)) /\ (Mapped(b)' <=> Mapped(b))
  BY <1>1, <1>2 DEF Read, Past, Undisturbed, Asked, Nul, Mapped
<1>4. Ends' = Ends
  BY <1>1, <1>2 DEF Ends, Asked, Nul, Mapped
<1>5. CopyInv'
  BY <1>0, <1>1, <1>2, <1>3 DEF CopyInv
<1>a. copy.op = "umoven" \/ copy.op = "umovestr"
  BY AtWork DEF Op
<1>6. UmovenExact'
  <2> SUFFICES ASSUME Undisturbed, copy.op = "umoven"
               PROVE  (\E b \in Asked : ~Mapped(b)) \/ (copy.len0 = 0 /\ mem.unsupported)
    BY <1>1, <1>2, <1>3 DEF UmovenExact
  <2> QED
    OBVIOUS
<1>7. UmovestrExact'
  <2> SUFFICES ASSUME Undisturbed, copy.op = "umovestr"
               PROVE  \/ Ends = {} /\ \E b \in Asked : ~Mapped(b)
                      \/ ~mem.unsupported /\ copy.got # <<>>
                      \/ mem.unsupported /\ copy.len0 = 0
    BY <1>1, <1>2, <1>3, <1>4, Zenon DEF UmovestrExact
  <2> QED
    OBVIOUS
<1> QED
  BY <1>0, <1>1, <1>2, <1>5, <1>6, <1>7 DEF MInv

LEMMA CopiedIs ==
  ASSUME copy \in CopyType, NEW from \in Nat, NEW n \in 0 .. copy.len, NEW c, c = Copied(copy, from, n)
  PROVE  /\ c \in CopyType /\ c.op = copy.op /\ c.pc = copy.pc /\ c.addr = copy.addr /\ c.remote = copy.remote
         /\ c.len = copy.len - n /\ c.got = copy.got \o Bytes(from, n) /\ c.ret = copy.ret
         /\ c.addr0 = copy.addr0 /\ c.len0 = copy.len0 /\ c.mapped0 = copy.mapped0
<1>1. copy.len \in Nat /\ copy.got \in Seq(Nat)
  BY DEF CopyType
<1>2. copy.len - n \in Nat /\ n \in Nat
  BY <1>1
<1>3. copy.got \o Bytes(from, n) \in Seq(Nat)
  <2>1. Bytes(from, n) \in Seq(Nat)
    BY <1>2, BytesJoin
  <2> QED
    BY <1>1, <2>1
<1>4. c = [copy EXCEPT !.got = copy.got \o Bytes(from, n), !.len = copy.len - n]
  BY DEF Copied, CopyType
<1> QED
  BY <1>2, <1>3, <1>4, Zenon DEF CopyType

\* The local variables after an assignment to some of them.
Same(d, c) == d.op = c.op /\ d.addr0 = c.addr0 /\ d.len0 = c.len0 /\ d.mapped0 = c.mapped0

EndedWith(c, r) == [c EXCEPT !.pc = "done", !.ret = r]
AtRemote(c, x)  == [c EXCEPT !.remote = x]
AtAddr(c, x)    == [c EXCEPT !.addr = x]
AtWords(c, x)   == [c EXCEPT !.addr = x, !.pc = "words"]

LEMMA Ended ==
  ASSUME NEW c \in CopyType, NEW r \in Int, NEW d, d = EndedWith(c, r)
  PROVE  d \in CopyType /\ d.pc = "done" /\ d.ret = r /\ Same(d, c) /\ d.len = c.len /\ d.got = c.got
  BY Zenon DEF CopyType, Same, EndedWith

LEMMA NulFound ==
  ASSUME NEW c \in CopyType, NEW d, d = EndedWith(c, 1)
  PROVE  d \in CopyType /\ d.pc = "done" /\ d.ret = 1 /\ Same(d, c) /\ d.len = c.len /\ d.got = c.got
<1>1. \A r \in Int : d = EndedWith(c, r) =>
          d \in CopyType /\ d.pc = "done" /\ d.ret = r /\ Same(d, c) /\ d.len = c.len /\ d.got = c.got
  BY Ended
<1> QED
  BY <1>1

LEMMA MovedRemote ==
  ASSUME NEW c \in CopyType, NEW x \in Nat, NEW d, d = AtRemote(c, x)
  PROVE  /\ d \in CopyType /\ d.pc = c.pc /\ d.addr = c.addr /\ d.remote = x
         /\ Same(d, c) /\ d.len = c.len /\ d.got = c.got
  BY Zenon DEF CopyType, Same, AtRemote

LEMMA MovedAddr ==
  ASSUME NEW c \in CopyType, NEW x \in Nat, NEW d, d = AtAddr(c, x)
  PROVE  d \in CopyType /\ d.pc = c.pc /\ d.addr = x /\ Same(d, c) /\ d.len = c.len /\ d.got = c.got
  BY Zenon DEF CopyType, Same, AtAddr

LEMMA MovedToWords ==
  ASSUME NEW c \in CopyType, NEW x \in Nat, NEW d, d = AtWords(c, x)
  PROVE  d \in CopyType /\ d.pc = "words" /\ d.addr = x /\ Same(d, c) /\ d.len = c.len /\ d.got = c.got
  BY Zenon DEF CopyType, Same, AtWords

\* Everything has been copied.
LEMMA Completes ==
  ASSUME MInv, copy # NoCopy, UNCHANGED mem, copy' \in CopyType, copy'.pc = "done", copy'.ret = 0,
         copy'.op = copy.op, copy'.addr0 = copy.addr0, copy'.len0 = copy.len0, copy'.mapped0 = copy.mapped0,
         copy'.len = 0, copy'.got = Bytes(copy.addr0, copy.len0),
         \A b \in Asked : b < Top /\ b \div PAGE \in copy.mapped0,
         copy.op = "umovestr" => \A b \in Asked : ~Nul(b)
  PROVE  MInv'
<1>0. /\ mem \in MemType /\ CopyInv /\ copy.len0 \in Nat /\ copy.addr0 \in Nat
  BY AtWork
<1>1. mem' = mem /\ Read' = copy.len0 /\ Past' = Asked /\ Asked' = Asked
  BY <1>0 DEF Read, Past, Asked
<1>2. \A b : (Nul(b)' <=> Nul(b)) /\ (Mapped(b)' <=> Mapped(b))
  BY <1>1 DEF Nul, Mapped
<1>3. CopyInv'
  BY <1>0, <1>1, <1>2 DEF CopyInv
<1>4. ASSUME Undisturbed', NEW b \in Asked PROVE Mapped(b)
  BY <1>1, <1>4 DEF Undisturbed, Mapped
<1>5. UmovenExact'
  BY <1>1, <1>2, <1>4 DEF UmovenExact
<1>6. UmovestrExact'
  <2> SUFFICES ASSUME Undisturbed', copy.op = "umovestr" PROVE Ends' = {} /\ \A b \in Asked : Mapped(b)'
    BY <1>1 DEF UmovestrExact
  <2>1. \A b \in Asked : ~Nul(b)
    OBVIOUS
  <2>2. Ends' = {}
    BY <1>1, <1>2, <2>1 DEF Ends
  <2> QED
    BY <1>2, <1>4, <2>2
<1> QED
  BY <1>0, <1>1, <1>3, <1>5, <1>6 DEF MInv

LEMMA UmovenReadvStep ==
  ASSUME MInv, UmovenReadv
  PROVE  MInv'
<1>0. copy # NoCopy /\ copy.op = "umoven" /\ copy.pc = "readv"
  BY DEF UmovenReadv, NoCopy
<1>1. /\ mem \in MemType /\ copy \in CopyType /\ CopyInv /\ copy.addr \in Nat /\ copy.len \in Nat
      /\ copy.addr0 \in Nat /\ copy.len0 = Read + copy.len /\ Read \in Nat
  BY <1>0, AtWork
<1>2. copy.addr = copy.addr0 /\ Read = 0 /\ copy.len = copy.len0 /\ copy.got = Bytes(copy.addr0, 0)
  BY <1>0, <1>1 DEF CopyInv
<1>3. Asked = copy.addr .. copy.addr + copy.len - 1
  BY <1>2 DEF Asked
<1>4. PICK r \in process_vm_readv(copy.addr, copy.len) :
          \/ r = ENOSYS /\ Unsupported
          \/ /\ all_read(r)
             /\ copy' = [Copied(copy, copy.addr, r) EXCEPT !.pc = "done", !.ret = 0]
             /\ UNCHANGED mem
          \/ r # ENOSYS /\ ~all_read(r) /\ copy' = Done(-1) /\ UNCHANGED mem
  BY Zenon DEF UmovenReadv
<1>5. /\ r = ENOSYS <=> ~mem.readv
      /\ r # ENOSYS /\ mem.alive => (r = copy.len <=> \A b \in Asked : Mapped(b))
      /\ \/ r = ENOSYS \/ r = EFAULT
         \/ r \in 0 .. copy.len /\ \A b \in copy.addr .. copy.addr + r - 1 : Mapped(b)
  <2>1. copy.addr \in Nat /\ copy.len \in Nat /\ mem \in MemType
    BY <1>1
  <2>2. /\ r = ENOSYS <=> ~mem.readv
        /\ \/ r = ENOSYS \/ r = EFAULT
           \/ r \in 0 .. copy.len /\ \A b \in copy.addr .. copy.addr + r - 1 : Mapped(b)
        /\ r # ENOSYS /\ mem.alive => (r = copy.len <=> \A b \in copy.addr .. copy.addr + copy.len - 1 : Mapped(b))
        /\ r = 0 => copy.len = 0
    BY <2>1, ReadvGives, Zenon
  <2> QED
    BY <1>3, <2>2, Zenon
<1>6. CASE r = ENOSYS /\ Unsupported
  BY <1>0, <1>5, <1>6, UnsupportedStep
<1>7. CASE all_read(r) /\ copy' = [Copied(copy, copy.addr, r) EXCEPT !.pc = "done", !.ret = 0] /\ UNCHANGED mem
  <2>1. r = copy.len
    BY <1>7 DEF all_read
  <2>2. \A b \in Asked : Mapped(b)
    BY <1>1, <1>3, <1>5, <2>1 DEF ENOSYS, EFAULT
  <2>3. copy.got \o Bytes(copy.addr, r) = Bytes(copy.addr0, copy.len0) /\ Bytes(copy.addr0, copy.len0) \in Seq(Nat)
    <3>1. copy.addr0 \in Nat /\ copy.len0 \in Nat
      BY <1>1, <1>2
    <3>2. Bytes(copy.addr0, 0) \o Bytes(copy.addr0, copy.len0) = Bytes(copy.addr0, copy.len0)
          /\ Bytes(copy.addr0, copy.len0) \in Seq(Nat)
      BY <3>1, BytesFirst, BytesSeq, Zenon
    <3> QED
      BY <1>2, <2>1, <3>2, Zenon
  <2> DEFINE c == Copied(copy, copy.addr, r)
  <2>4. /\ c \in CopyType /\ c.op = copy.op /\ c.len = copy.len - r /\ c.got = copy.got \o Bytes(copy.addr, r)
        /\ c.addr0 = copy.addr0 /\ c.len0 = copy.len0 /\ c.mapped0 = copy.mapped0
    <3>1. c = Copied(copy, copy.addr, r) /\ r \in 0 .. copy.len
      BY <1>1, <2>1
    <3> HIDE DEF c
    <3>2. copy \in CopyType /\ copy.addr \in Nat
      BY <1>1
    <3> QED
      BY <3>1, <3>2, CopiedIs, Zenon
  <2> HIDE DEF c
  <2>5. /\ copy' \in CopyType /\ copy'.pc = "done" /\ copy'.ret = 0
        /\ copy'.op = copy.op /\ copy'.addr0 = copy.addr0 /\ copy'.len0 = copy.len0 /\ copy'.mapped0 = copy.mapped0
        /\ copy'.len = 0 /\ copy'.got = Bytes(copy.addr0, copy.len0)
    <3>1. copy' = [c EXCEPT !.pc = "done", !.ret = 0]
      BY <1>7 DEF c
    <3>2. copy.len - r = 0
      BY <1>1, <2>1
    <3>3. /\ copy' \in CopyType /\ copy'.pc = "done" /\ copy'.ret = 0
          /\ Same(copy', c) /\ copy'.len = c.len /\ copy'.got = c.got
      <4>1. 0 \in Int /\ copy' = EndedWith(c, 0)
        BY <3>1 DEF EndedWith
      <4> QED
        BY <2>4, <4>1, Ended, Zenon
    <3> QED
      BY <2>3, <2>4, <3>2, <3>3 DEF Same
  <2>6. \A b \in Asked : b < Top /\ b \div PAGE \in copy.mapped0
    BY <1>1, <2>2 DEF Mapped, CopyInv
  <2> QED
    BY <1>0, <1>7, <2>5, <2>6, Completes
<1>8. CASE r # ENOSYS /\ ~all_read(r) /\ copy' = Done(-1) /\ UNCHANGED mem
  <2>1. ~Undisturbed \/ \E b \in Asked : ~Mapped(b)
    BY <1>5, <1>8 DEF all_read, Undisturbed
  <2> QED
    BY <1>0, <1>8, <2>1, GivesUp
<1> QED
  BY <1>4, <1>6, <1>7, <1>8

\* Some bytes more have been copied.
LEMMA ReadsOn ==
  ASSUME MInv, copy # NoCopy, UNCHANGED mem, copy' \in CopyType, Same(copy', copy),
         NEW n \in 0 .. copy.len, copy'.len = copy.len - n, copy'.got = Bytes(copy.addr0, Read + n),
         \A b \in copy.addr0 + Read .. copy.addr0 + Read + n - 1 : b < Top /\ b \div PAGE \in copy.mapped0
  PROVE  /\ Read' = Read + n /\ Past' = Past \cup (copy.addr0 + Read .. copy.addr0 + Read + n - 1)
         /\ copy'.len <= copy'.len0 /\ copy'.got = Bytes(copy'.addr0, Read')
         /\ mem'.mapped \subseteq copy'.mapped0
         /\ (\A b \in Past : b < Top /\ b \div PAGE \in copy.mapped0)'
<1>0. /\ mem \in MemType /\ copy \in CopyType /\ CopyInv /\ copy.addr0 \in Nat /\ copy.len0 \in Nat /\ copy.len \in Nat
      /\ Read \in Nat /\ copy.len0 = Read + copy.len
  BY AtWork
<1>1. copy'.addr0 = copy.addr0 /\ copy'.len0 = copy.len0 /\ copy'.mapped0 = copy.mapped0 /\ mem' = mem
  BY DEF Same
<1>2. Read' = Read + n
  BY <1>0, <1>1 DEF Read
<1>3. Past' = Past \cup (copy.addr0 + Read .. copy.addr0 + Read + n - 1)
  <2>1. Past' = copy.addr0 .. copy.addr0 + (Read + n) - 1
    BY <1>1, <1>2 DEF Past
  <2>2. Past = copy.addr0 .. copy.addr0 + Read - 1
    BY DEF Past
  <2> QED
    BY <1>0, <2>1, <2>2
<1>4. mem'.mapped \subseteq copy'.mapped0 /\ \A b \in Past : b < Top /\ b \div PAGE \in copy.mapped0
  BY <1>0, <1>1 DEF CopyInv
<1>5. \A b \in Past' : b < Top /\ b \div PAGE \in copy.mapped0
  BY <1>3, <1>4
<1>6. copy'.len <= copy'.len0
  BY <1>0, <1>1
<1> QED
  BY <1>1, <1>2, <1>3, <1>4, <1>5, <1>6

\* umovestr comes upon a NUL.
LEMMA Finds ==
  ASSUME MInv, copy # NoCopy, UNCHANGED mem, copy' \in CopyType, Same(copy', copy), copy.op = "umovestr",
         copy'.pc = "done", copy'.ret = 1,
         NEW n \in 0 .. copy.len, copy'.len = copy.len - n, copy'.got = Bytes(copy.addr0, Read + n),
         \A b \in copy.addr0 + Read .. copy.addr0 + Read + n - 1 : b < Top /\ b \div PAGE \in copy.mapped0,
         Undisturbed => \/ Ends # {}
                        \/ /\ mem.unsupported
                           /\ \E b \in copy.addr0 .. copy.addr0 + copy.len0 + WORD - 1 :
                                 Nul(b) /\ \A c \in copy.addr0 .. b : c \div WORD # b \div WORD => Mapped(c)
  PROVE  MInv'
<1>1. /\ copy'.addr0 = copy.addr0 /\ copy'.len0 = copy.len0 /\ copy'.mapped0 = copy.mapped0 /\ mem' = mem
      /\ copy'.op = copy.op
  BY DEF Same
<1>2. CopyInv'
  <2>1. /\ copy'.len <= copy'.len0 /\ copy'.got = Bytes(copy'.addr0, Read')
        /\ mem'.mapped \subseteq copy'.mapped0
        /\ (\A b \in Past : b < Top /\ b \div PAGE \in copy.mapped0)'
    BY ReadsOn
  <2> QED
    BY <2>1 DEF CopyInv
<1>3. /\ (Undisturbed' <=> Undisturbed) /\ Asked' = Asked
      /\ \A b : (Nul(b)' <=> Nul(b)) /\ (Mapped(b)' <=> Mapped(b))
  BY <1>1 DEF Undisturbed, Asked, Nul, Mapped
<1>4. Ends' = Ends
  BY <1>1 DEF Ends, Asked, Nul, Mapped
<1>5. UmovenExact'
  BY <1>1 DEF UmovenExact
<1>6. UmovestrExact'
  BY <1>1, <1>3, <1>4 DEF UmovestrExact
<1>7. mem' \in MemType
  BY <1>1, AtWork
<1> QED
  BY <1>2, <1>5, <1>6, <1>7 DEF MInv

\* The loop goes on.
LEMMA Continues ==
  ASSUME MInv, copy # NoCopy, UNCHANGED mem, copy' \in CopyType, Same(copy', copy),
         NEW n \in 0 .. copy.len, copy'.len = copy.len - n, copy'.got = Bytes(copy.addr0, Read + n),
         \A b \in copy.addr0 + Read .. copy.addr0 + Read + n - 1 : b < Top /\ b \div PAGE \in copy.mapped0,
         copy.pc # "done",
         copy.op = "umovestr" => \A b \in copy.addr0 + Read .. copy.addr0 + Read + n - 1 : ~Nul(b),
         \/ /\ copy'.pc = "readv" /\ copy.op = "umovestr" /\ ~mem.unsupported /\ mem.readv
            /\ copy'.addr = copy.addr0 /\ copy'.remote = copy.addr0 + Read + n
         \/ /\ copy'.pc = "words" /\ mem.unsupported /\ copy'.addr % WORD = 0
            /\ copy.len > n => copy'.addr = copy.addr0 + Read + n
  PROVE  MInv'
<1>0. /\ mem \in MemType /\ copy \in CopyType /\ CopyInv /\ copy.addr0 \in Nat /\ copy.len \in Nat /\ Read \in Nat
  BY AtWork
<1>1. /\ copy'.addr0 = copy.addr0 /\ copy'.len0 = copy.len0 /\ copy'.mapped0 = copy.mapped0 /\ mem' = mem
      /\ copy'.op = copy.op
  BY DEF Same
<1>2. /\ Read' = Read + n /\ Past' = Past \cup (copy.addr0 + Read .. copy.addr0 + Read + n - 1)
      /\ copy'.len <= copy'.len0 /\ copy'.got = Bytes(copy'.addr0, Read')
      /\ mem'.mapped \subseteq copy'.mapped0
      /\ (\A b \in Past : b < Top /\ b \div PAGE \in copy.mapped0)'
  BY ReadsOn
<1>3. copy.op = "umovestr" => \A b \in Past' : ~Nul(b)'
  BY <1>0, <1>1, <1>2 DEF CopyInv, Nul
<1>4. copy.addr0 + Read + n = copy.addr0 + (Read + n) /\ (copy'.len > 0 => copy.len > n)
  BY <1>0
<1>5. ~Returned' /\ copy'.pc # "done"
  BY DEF Returned
<1>6. CopyInv'
  BY <1>1, <1>2, <1>3, <1>4, <1>5 DEF CopyInv
<1> QED
  BY <1>0, <1>1, <1>5, <1>6, Zenon DEF MInv, UmovenExact, UmovestrExact

\* A string without a NUL in what was asked for.
LEMMA NoEnd ==
  ASSUME MInv, copy # NoCopy, NEW b \in Asked, ~Mapped(b),
         \A x \in copy.addr0 .. b - 1 : ~Nul(x)
  PROVE  Ends = {}
<1>1. copy.addr0 \in Nat /\ copy.len0 \in Nat
  BY AtWork
<1>2. ASSUME NEW e \in Ends PROVE FALSE
  <2>1. e \in Asked /\ Nul(e) /\ \A c \in copy.addr0 .. e : Mapped(c)
    BY <1>2 DEF Ends
  <2>2. e \in Int /\ b \in Int /\ copy.addr0 <= e /\ copy.addr0 <= b
    BY <1>1, <2>1 DEF Asked
  <2>3. CASE e < b
    <3>1. e \in copy.addr0 .. b - 1
      BY <1>1, <2>2, <2>3
    <3> QED
      BY <2>1, <3>1
  <2>4. CASE b <= e
    <3>1. b \in copy.addr0 .. e
      BY <1>1, <2>2, <2>4
    <3> QED
      BY <2>1, <3>1
  <2> QED
    BY <2>2, <2>3, <2>4
<1> QED
  BY <1>2

\* A NUL in what was copied last, and memory up to there.
LEMMA FirstEnd ==
  ASSUME MInv, copy # NoCopy, Undisturbed, NEW n \in 0 .. copy.len,
         NEW b \in copy.addr0 + Read .. copy.addr0 + Read + n - 1, Nul(b),
         \A x \in copy.addr0 + Read .. copy.addr0 + Read + n - 1 : Mapped(x)
  PROVE  Ends # {}
<1>0. /\ CopyInv /\ copy.addr0 \in Nat /\ copy.len0 \in Nat /\ copy.len \in Nat /\ Read \in Nat
      /\ copy.len0 = Read + copy.len
  BY AtWork
<1>1. b \in Asked
  BY <1>0 DEF Asked
<1>2. ASSUME NEW c \in copy.addr0 .. b PROVE Mapped(c)
  <2>1. CASE c < copy.addr0 + Read
    <3>1. c \in Past
      BY <1>0, <2>1 DEF Past
    <3>2. c < Top /\ c \div PAGE \in copy.mapped0
      BY <1>0, <3>1 DEF CopyInv
    <3> QED
      BY <3>2 DEF Mapped, Undisturbed
  <2>2. CASE c >= copy.addr0 + Read
    <3>1. c \in copy.addr0 + Read .. copy.addr0 + Read + n - 1
      BY <1>0, <2>2
    <3> QED
      BY <3>1
  <2> QED
    BY <1>0, <2>1, <2>2
<1> QED
  BY <1>1, <1>2 DEF Ends

LEMMA UmovestrReadvStep ==
  ASSUME MInv, UmovestrReadv
  PROVE  MInv'
<1>0. copy # NoCopy /\ copy.op = "umovestr" /\ copy.pc = "readv"
  <2>1. copy.op = "umovestr" /\ copy.pc = "readv"
    BY Zenon DEF UmovestrReadv
  <2> QED
    BY <2>1 DEF NoCopy
<1>1. /\ mem \in MemType /\ copy \in CopyType /\ CopyInv /\ copy.addr \in Nat /\ copy.len \in Nat
      /\ copy.addr0 \in Nat /\ copy.len0 \in Nat /\ copy.len0 = Read + copy.len /\ Read \in Nat
      /\ copy.remote \in Nat
  BY <1>0, AtWork
<1>2. /\ copy.addr = copy.addr0 /\ copy.remote = copy.addr0 + Read /\ copy.got = Bytes(copy.addr0, Read)
      /\ ~mem.unsupported /\ mem.mapped \subseteq copy.mapped0
      /\ \A b \in Past : b < Top /\ b \div PAGE \in copy.mapped0 /\ ~Nul(b)
  BY <1>0, <1>1 DEF CopyInv
<1>3. CASE copy.len = 0 /\ copy' = Done(0) /\ UNCHANGED mem
  <2>1. /\ copy' \in CopyType /\ copy'.pc = "done" /\ copy'.ret = 0
        /\ copy'.op = copy.op /\ copy'.addr0 = copy.addr0 /\ copy'.len0 = copy.len0 /\ copy'.mapped0 = copy.mapped0
        /\ copy'.len = copy.len /\ copy'.got = copy.got
    <3>1. 0 \in Int
      OBVIOUS
    <3> QED
      BY <1>1, <1>3, <3>1, DoneIs, Zenon
  <2>2. Read = copy.len0 /\ Past = Asked
    BY <1>1, <1>3 DEF Past, Asked
  <2> QED
    BY <1>0, <1>2, <1>3, <2>1, <2>2, Completes
<1> DEFINE n == chunk_len(copy.addr, copy.len)
           New(r) == copy.remote .. copy.remote + r - 1
           c(r) == [Copied(copy, copy.remote, r) EXCEPT !.remote = @ + r]
<1>4. CASE copy.len # 0
  <2>1. /\ n \in 1 .. copy.len
        /\ \A b \in copy.addr .. copy.addr + n - 1 :
              b \div PAGE = copy.addr \div PAGE /\ (b < Top <=> copy.addr < Top)
    <3>1. copy.len \in Nat \ {0}
      BY <1>1, <1>4
    <3> QED
      BY <1>1, <3>1, ChunkInPage, Zenon
  <2>2. PICK r \in process_vm_readv(copy.remote, n) :
          \/ r = ENOSYS /\ Unsupported
          \/ /\ r > 0
             /\ copy' = IF \E b \in New(r) : Nul(b) THEN [c(r) EXCEPT !.pc = "done", !.ret = 1] ELSE c(r)
             /\ UNCHANGED mem
          \/ r \in {0, EFAULT} /\ copy' = Done(-1) /\ UNCHANGED mem
    BY <1>4, Zenon DEF UmovestrReadv
  <2> HIDE DEF n
  <2>3. /\ r = ENOSYS <=> ~mem.readv
        /\ \/ r = ENOSYS \/ r = EFAULT
           \/ r \in 0 .. n /\ \A b \in New(r) : Mapped(b)
        /\ r # ENOSYS /\ mem.alive => (r = n <=> \A b \in copy.remote .. copy.remote + n - 1 : Mapped(b))
        /\ r = 0 => n = 0
    <3>1. copy.remote \in Nat /\ n \in Nat /\ mem \in MemType
      BY <1>1, <2>1
    <3> QED
      BY <3>1, ReadvGives, Zenon
  <2>4. CASE r = ENOSYS /\ Unsupported
    BY <1>0, <2>3, <2>4, UnsupportedStep
  <2>5. CASE r \in {0, EFAULT} /\ copy' = Done(-1) /\ UNCHANGED mem
    <3>1. r = EFAULT /\ r # n /\ r # ENOSYS
      BY <2>1, <2>3, <2>5 DEF EFAULT, ENOSYS
    <3>2. CASE ~mem.alive
      BY <1>0, <2>5, <3>2, GivesUp DEF Undisturbed
    <3>3. CASE copy.got # <<>>
      BY <1>0, <1>2, <2>5, <3>3, GivesUp
    <3>4. CASE mem.alive /\ copy.got = <<>>
      <4>1. Read = 0
        <5>1. Len(Bytes(copy.addr0, Read)) = Read
          BY <1>1, BytesJoin, Zenon
        <5> QED
          BY <1>2, <3>4, <5>1
      <4>2. PICK b \in copy.addr .. copy.addr + n - 1 : ~Mapped(b)
        BY <1>1, <1>2, <2>3, <3>1, <3>4, <4>1
      <4>3. ~Mapped(copy.addr0) /\ copy.addr0 \in Asked
        BY <1>1, <1>2, <1>4, <2>1, <4>2 DEF Mapped, Asked
      <4>4. Ends = {}
        <5>1. \A x \in copy.addr0 .. copy.addr0 - 1 : ~Nul(x)
          BY <1>1
        <5> QED
          BY <1>0, <4>3, <5>1, NoEnd
      <4> QED
        BY <1>0, <2>5, <4>3, <4>4, GivesUp
    <3> QED
      BY <3>2, <3>3, <3>4, AtWork, <1>0
  <2>6. CASE /\ r > 0
             /\ copy' = IF \E b \in New(r) : Nul(b) THEN [c(r) EXCEPT !.pc = "done", !.ret = 1] ELSE c(r)
             /\ UNCHANGED mem
    <3>1. r \in 0 .. copy.len /\ mem.readv /\ \A b \in New(r) : Mapped(b)
      BY <1>1, <2>1, <2>3, <2>6 DEF EFAULT, ENOSYS
    <3>2. New(r) = copy.addr0 + Read .. copy.addr0 + Read + r - 1
      BY <1>2
    <3>3. \A b \in New(r) : b < Top /\ b \div PAGE \in copy.mapped0
      BY <1>2, <3>1 DEF Mapped
    <3>4. Bytes(copy.addr0, Read) \o Bytes(copy.remote, r) = Bytes(copy.addr0, Read + r)
      <4>1. r \in Nat
        BY <3>1
      <4>0. copy.addr0 \in Nat /\ Read \in Nat
        BY <1>1
      <4>2. Bytes(copy.addr0, Read) \o Bytes(copy.addr0 + Read, r) = Bytes(copy.addr0, Read + r)
        BY <4>0, <4>1, BytesJoin, Zenon
      <4> QED
        BY <1>2, <4>2
    <3> HIDE DEF New, c
    <3> DEFINE d == Copied(copy, copy.remote, r)
    <3>5. /\ d \in CopyType /\ d.op = copy.op /\ d.pc = copy.pc /\ d.addr = copy.addr /\ d.remote = copy.remote
          /\ d.len = copy.len - r /\ d.got = copy.got \o Bytes(copy.remote, r)
          /\ d.addr0 = copy.addr0 /\ d.len0 = copy.len0 /\ d.mapped0 = copy.mapped0
      <4>1. d = Copied(copy, copy.remote, r)
        OBVIOUS
      <4> HIDE DEF d
      <4>2. copy.remote \in Nat /\ copy \in CopyType /\ r \in 0 .. copy.len
        BY <1>1, <3>1
      <4> QED
        BY <4>1, <4>2, CopiedIs, Zenon
    <3> DEFINE e == c(r)
    <3>6. e = [d EXCEPT !.remote = copy.remote + r]
      <4>1. e = [d EXCEPT !.remote = d.remote + r]
        BY DEF c, d, e
      <4> HIDE DEF d, e
      <4> QED
        BY <3>5, <4>1
    <3>7. copy' = IF \E b \in New(r) : Nul(b) THEN [e EXCEPT !.pc = "done", !.ret = 1] ELSE e
      BY <2>6 DEF c, New
    <3> HIDE DEF d, e
    <3>8. /\ e \in CopyType /\ e.pc = "readv" /\ e.addr = copy.addr /\ e.remote = copy.remote + r
          /\ Same(e, copy) /\ e.len = copy.len - r /\ e.got = Bytes(copy.addr0, Read + r)
      <4>1. copy.remote + r \in Nat
        BY <1>1, <3>1
      <4>2. /\ e \in CopyType /\ e.pc = d.pc /\ e.addr = d.addr /\ e.remote = copy.remote + r
            /\ Same(e, d) /\ e.len = d.len /\ e.got = d.got
        <5> DEFINE y == copy.remote + r
        <5>1. e = AtRemote(d, y) /\ d \in CopyType /\ y \in Nat
          BY <3>5, <3>6, <4>1 DEF AtRemote
        <5> HIDE DEF y
        <5>2. /\ e \in CopyType /\ e.pc = d.pc /\ e.addr = d.addr /\ e.remote = y
              /\ Same(e, d) /\ e.len = d.len /\ e.got = d.got
          BY <5>1, MovedRemote
        <5> QED
          BY <5>2, Zenon DEF y
      <4> QED
        BY <1>0, <1>2, <3>4, <3>5, <4>2 DEF Same
    <3>9. CASE \E b \in New(r) : Nul(b)
      <4>1. /\ copy' \in CopyType /\ copy'.pc = "done" /\ copy'.ret = 1 /\ Same(copy', e)
            /\ copy'.len = e.len /\ copy'.got = e.got
        <5>1. copy' = EndedWith(e, 1)
          BY <3>7, <3>9 DEF EndedWith
        <5> QED
          BY <3>8, <5>1, NulFound
      <4>2. Same(copy', copy) /\ copy'.len = copy.len - r /\ copy'.got = Bytes(copy.addr0, Read + r)
        BY <3>8, <4>1 DEF Same
      <4>3. Undisturbed => Ends # {}
        <5> SUFFICES ASSUME Undisturbed PROVE Ends # {}
          OBVIOUS
        <5>1. PICK b \in New(r) : Nul(b)
          BY <3>9
        <5> HIDE DEF New
        <5> QED
          BY <1>0, <3>1, <3>2, <5>1, FirstEnd
      <4> HIDE DEF New
      <4> QED
        BY <1>0, <2>6, <3>1, <3>2, <3>3, <4>1, <4>2, <4>3, Finds
    <3>10. CASE ~ \E b \in New(r) : Nul(b)
      <4>1. copy' = e /\ copy.remote + r = copy.addr0 + Read + r
        BY <1>2, <3>7, <3>10
      <4> HIDE DEF New
      <4> QED
        BY <1>0, <1>2, <2>6, <3>1, <3>2, <3>3, <3>8, <3>10, <4>1, Continues
    <3> QED
      BY <3>9, <3>10
  <2> QED
    BY <2>2, <2>4, <2>5, <2>6
<1> QED
  BY <1>3, <1>4, Zenon DEF UmovestrReadv

\* A word that PTRACE_PEEKDATA can read is all in memory.
LEMMA WordMapped ==
  ASSUME NEW a \in Nat, NEW w, w = a - (a % WORD)
  PROVE  \A b \in w .. w + WORD - 1 :
            b \in Nat /\ (Mapped(b) <=> Mapped(w)) /\ b \div WORD = a \div WORD
<1>0. WORD \in Nat \ {0}
  BY Sizes
<1>1. w \in Nat /\ \A b \in w .. w + WORD - 1 : b \div WORD = a \div WORD
  BY WordOf
<1>2. w \in w .. w + WORD - 1
  BY <1>0, <1>1
<1>3. ASSUME NEW b \in w .. w + WORD - 1 PROVE b \in Nat /\ (Mapped(b) <=> Mapped(w))
  <2>1. b \in Nat /\ b \div WORD = w \div WORD
    BY <1>0, <1>1, <1>2, SMTT(30)
  <2>2. b \div PAGE = w \div PAGE /\ (b < Top <=> w < Top)
    BY <1>1, <2>1, SameWord
  <2> QED
    BY <2>1, <2>2 DEF Mapped
<1> QED
  BY <1>1, <1>3

LEMMA PeekHeadStep ==
  ASSUME MInv, PeekHead
  PROVE  MInv'
<1>0. copy # NoCopy /\ copy.pc = "head" /\ mem' = mem
  <2>1. copy.op # "none" /\ copy.pc = "head" /\ mem' = mem
    BY DEF PeekHead
  <2> QED
    BY <2>1 DEF NoCopy
<1>1. /\ mem \in MemType /\ copy \in CopyType /\ CopyInv /\ copy.addr \in Nat /\ copy.len \in Nat
      /\ copy.addr0 \in Nat /\ copy.len0 \in Nat /\ copy.len0 = Read + copy.len /\ Read \in Nat
      /\ mem.alive \in BOOLEAN
  BY <1>0, AtWork
<1>2. /\ copy.addr = copy.addr0 /\ Read = 0 /\ copy.len = copy.len0 /\ copy.got = Bytes(copy.addr0, 0)
      /\ mem.unsupported /\ mem.mapped \subseteq copy.mapped0
  BY <1>0, <1>1 DEF CopyInv
<1> DEFINE word == copy.addr - Residue
           m    == Lesser(WORD - Residue, copy.len)
           d    == Copied(copy, copy.addr, m)
           c    == [d EXCEPT !.addr = word + WORD, !.pc = "words"]
           New  == copy.addr .. copy.addr + m - 1
<1>3. copy' = IF Residue = 0 THEN [copy EXCEPT !.pc = "words"]
              ELSE IF HeadFails THEN Done(-1)
              ELSE IF copy.op = "umovestr" /\ \E b \in copy.addr .. word + WORD - 1 : Nul(b)
              THEN [c EXCEPT !.pc = "done", !.ret = 1]
              ELSE c
  BY DEF PeekHead
<1>4. WORD \in Nat \ {0} /\ Residue \in 0 .. WORD - 1
  BY <1>1, Sizes, Division, Zenon DEF Residue
<1>5. /\ word \in Nat /\ (word + WORD) % WORD = 0 /\ word <= copy.addr /\ copy.addr < word + WORD
      /\ \A b \in word .. word + WORD - 1 :
            b \in Nat /\ (Mapped(b) <=> Mapped(word)) /\ b \div WORD = copy.addr \div WORD
  <2>1. word = copy.addr - (copy.addr % WORD)
    BY DEF Residue
  <2> HIDE DEF word
  <2> QED
    BY <1>1, <2>1, WordOf, WordMapped
<1>6. m \in 0 .. copy.len /\ m <= WORD - Residue /\ (copy.len > m => m = WORD - Residue)
  BY <1>1, <1>4 DEF Lesser
<1>8. word = copy.addr - Residue /\ c = [d EXCEPT !.addr = word + WORD, !.pc = "words"] /\ d = Copied(copy, copy.addr, m)
  OBVIOUS
<1> HIDE DEF word, m, d, c, New
<1>7. New \subseteq word .. word + WORD - 1 /\ New = copy.addr0 + Read .. copy.addr0 + Read + m - 1
  <2>1. copy.addr + m <= word + WORD /\ copy.addr0 + Read = copy.addr /\ m \in Nat
    BY <1>1, <1>2, <1>4, <1>5, <1>6, <1>8
  <2>2. New = copy.addr0 + Read .. copy.addr0 + Read + m - 1
    BY <2>1 DEF New
  <2>3. ASSUME NEW b \in New PROVE b \in word .. word + WORD - 1
    <3>1. b \in Int /\ copy.addr <= b /\ b <= copy.addr + m - 1
      BY <1>1, <2>1 DEF New
    <3> QED
      BY <1>1, <1>4, <1>5, <2>1, <3>1
  <2> QED
    BY <2>2, <2>3
<1>9. CASE Residue = 0
  <2>1. copy' = [copy EXCEPT !.pc = "words"]
    BY <1>3, <1>9
  <2>2. /\ copy' \in CopyType /\ copy'.pc = "words" /\ copy'.addr = copy.addr /\ Same(copy', copy)
        /\ copy'.len = copy.len /\ copy'.got = copy.got
    BY <1>1, <2>1, Zenon DEF CopyType, Same
  <2>3. /\ 0 \in 0 .. copy.len /\ copy'.len = copy.len - 0 /\ copy'.got = Bytes(copy.addr0, Read + 0)
        /\ copy'.addr % WORD = 0 /\ copy'.addr = copy.addr0 + Read + 0
        /\ copy.addr0 + Read .. copy.addr0 + Read + 0 - 1 = {}
    BY <1>1, <1>2, <1>9, <2>2 DEF Residue
  <2> QED
    BY <1>0, <1>2, <2>2, <2>3, Continues
<1>10. CASE Residue # 0 /\ HeadFails
  <2>1. copy' = Done(-1)
    BY <1>3, <1>10
  <2>2. CASE ~mem.alive
    BY <1>0, <2>1, <2>2, GivesUp DEF Undisturbed
  <2>3. CASE copy.len0 = 0
    BY <1>0, <1>2, <2>1, <2>3, GivesUp
  <2>4. CASE mem.alive /\ copy.len0 # 0
    <3>1. copy.addr0 \in Asked /\ copy.addr \in word .. word + WORD - 1
      BY <1>1, <1>4, <1>5, <2>4 DEF Asked
    <3>2. ~Mapped(word)
      BY <1>8, <1>10, <2>4 DEF HeadFails, PEEKDATA
    <3>3. ~Mapped(copy.addr0)
      BY <1>2, <1>5, <3>1, <3>2
    <3>4. \A x \in copy.addr0 .. copy.addr0 - 1 : ~Nul(x)
      BY <1>1
    <3>5. Ends = {}
      BY <1>0, <3>1, <3>3, <3>4, NoEnd
    <3> QED
      BY <1>0, <2>1, <3>1, <3>3, <3>5, GivesUp
  <2> QED
    BY <1>1, <2>2, <2>3, <2>4
<1>11. /\ c \in CopyType /\ c.pc = "words" /\ c.addr = word + WORD /\ Same(c, copy)
       /\ c.len = copy.len - m /\ c.got = Bytes(copy.addr0, Read + m)
  <2>1. /\ d \in CopyType /\ d.op = copy.op /\ d.len = copy.len - m /\ d.got = copy.got \o Bytes(copy.addr, m)
        /\ d.addr0 = copy.addr0 /\ d.len0 = copy.len0 /\ d.mapped0 = copy.mapped0
    <3>1. d = Copied(copy, copy.addr, m) /\ m \in 0 .. copy.len
      BY <1>6, <1>8
    <3>2. copy \in CopyType /\ copy.addr \in Nat
      BY <1>1
    <3> QED
      BY <3>1, <3>2, CopiedIs, Zenon
  <2>2. word + WORD \in Nat
    BY <1>4, <1>5
  <2>3. c \in CopyType /\ c.pc = "words" /\ c.addr = word + WORD /\ Same(c, d) /\ c.len = d.len /\ c.got = d.got
    <3>1. c = AtWords(d, word + WORD)
      BY <1>8 DEF AtWords
    <3> QED
      BY <2>1, <2>2, <3>1, MovedToWords, Zenon
  <2>4. copy.got \o Bytes(copy.addr, m) = Bytes(copy.addr0, Read + m)
    <3>1. m \in Nat /\ copy.addr0 \in Nat /\ Read + m = m
      BY <1>1, <1>2, <1>6
    <3>2. Bytes(copy.addr0, 0) \o Bytes(copy.addr0, m) = Bytes(copy.addr0, m)
      BY <3>1, BytesFirst, Zenon
    <3> QED
      BY <1>2, <3>1, <3>2, Zenon
  <2> QED
    BY <2>1, <2>3, <2>4 DEF Same
<1>12. ASSUME ~HeadFails
       PROVE  \A b \in New : Mapped(b) /\ b < Top /\ b \div PAGE \in copy.mapped0
  <2>1. Mapped(word)
    BY <1>8, <1>12 DEF HeadFails, PEEKDATA
  <2> QED
    BY <1>2, <1>5, <1>7, <2>1 DEF Mapped
<1>13. CASE /\ Residue # 0 /\ ~HeadFails
            /\ copy.op = "umovestr" /\ \E b \in copy.addr .. word + WORD - 1 : Nul(b)
  <2>1. copy' = [c EXCEPT !.pc = "done", !.ret = 1]
    BY <1>3, <1>13
  <2>2. /\ copy' \in CopyType /\ copy'.pc = "done" /\ copy'.ret = 1 /\ Same(copy', c)
        /\ copy'.len = c.len /\ copy'.got = c.got
    <3>1. copy' = EndedWith(c, 1)
      BY <2>1 DEF EndedWith
    <3> QED
      BY <1>11, <3>1, NulFound
  <2>3. Same(copy', copy) /\ copy'.len = copy.len - m /\ copy'.got = Bytes(copy.addr0, Read + m)
    BY <1>11, <2>2 DEF Same
  <2>4. PICK b \in copy.addr .. word + WORD - 1 : Nul(b)
    BY <1>13
  <2>5. b \in copy.addr0 .. copy.addr0 + copy.len0 + WORD - 1
    BY <1>1, <1>2, <1>4, <1>5
  <2>6. ASSUME NEW x \in copy.addr0 .. b PROVE x \div WORD = b \div WORD
    <3>1. x \in word .. word + WORD - 1 /\ b \in word .. word + WORD - 1
      BY <1>1, <1>2, <1>4, <1>5
    <3> QED
      BY <1>5, <3>1
  <2> QED
    BY <1>0, <1>2, <1>6, <1>7, <1>12, <1>13, <2>2, <2>3, <2>4, <2>5, <2>6, Finds
<1>14. CASE /\ Residue # 0 /\ ~HeadFails
            /\ ~(copy.op = "umovestr" /\ \E b \in copy.addr .. word + WORD - 1 : Nul(b))
  <2>1. copy' = c
    BY <1>3, <1>14
  <2>2. New \subseteq copy.addr .. word + WORD - 1
    BY <1>1, <1>2, <1>4, <1>5, <1>6, <1>8 DEF New
  <2>3. copy.len > m => word + WORD = copy.addr0 + Read + m
    BY <1>1, <1>2, <1>4, <1>5, <1>6, <1>8
  <2> QED
    BY <1>0, <1>2, <1>5, <1>6, <1>7, <1>11, <1>12, <1>14, <2>1, <2>2, <2>3, Continues, Zenon
<1> QED
  BY <1>9, <1>10, <1>13, <1>14

LEMMA PeekWordStep ==
  ASSUME MInv, PeekWord
  PROVE  MInv'
<1>0. copy # NoCopy /\ copy.pc = "words" /\ mem' = mem
  <2>1. copy.op # "none" /\ copy.pc = "words" /\ mem' = mem
    BY DEF PeekWord
  <2> QED
    BY <2>1 DEF NoCopy
<1>1. /\ mem \in MemType /\ copy \in CopyType /\ CopyInv /\ copy.addr \in Nat /\ copy.len \in Nat
      /\ copy.addr0 \in Nat /\ copy.len0 \in Nat /\ copy.len0 = Read + copy.len /\ Read \in Nat
      /\ mem.alive \in BOOLEAN
  BY <1>0, AtWork
<1>2. /\ copy.addr % WORD = 0 /\ copy.got = Bytes(copy.addr0, Read)
      /\ mem.unsupported /\ mem.mapped \subseteq copy.mapped0
      /\ copy.len > 0 => copy.addr = copy.addr0 + Read
      /\ \A b \in Past : b < Top /\ b \div PAGE \in copy.mapped0
      /\ copy.op = "umovestr" => \A b \in Past : ~Nul(b)
  BY <1>0, <1>1 DEF CopyInv
<1> DEFINE m    == word_part(copy.len)
           d    == Copied(copy, copy.addr, m)
           c    == [d EXCEPT !.addr = copy.addr + WORD]
           New  == copy.addr .. copy.addr + m - 1
<1>4. WORD \in Nat \ {0}
  BY Sizes
<1>5. m \in 0 .. copy.len /\ m <= WORD /\ (copy.len > m => m = WORD)
  BY <1>1, <1>4 DEF word_part, Lesser
<1>6. /\ d \in CopyType /\ d.op = copy.op /\ d.len = copy.len - m /\ d.got = copy.got \o Bytes(copy.addr, m)
      /\ d.addr0 = copy.addr0 /\ d.len0 = copy.len0 /\ d.mapped0 = copy.mapped0 /\ d.pc = "words"
      /\ d.addr = copy.addr
  <2>1. d = Copied(copy, copy.addr, m)
    OBVIOUS
  <2> HIDE DEF m, d
  <2>2. /\ d \in CopyType /\ d.op = copy.op /\ d.pc = copy.pc /\ d.addr = copy.addr
        /\ d.len = copy.len - m /\ d.got = copy.got \o Bytes(copy.addr, m)
        /\ d.addr0 = copy.addr0 /\ d.len0 = copy.len0 /\ d.mapped0 = copy.mapped0
    <3>1. copy \in CopyType /\ copy.addr \in Nat
      BY <1>1
    <3> QED
      BY <1>5, <2>1, <3>1, CopiedIs, Zenon
  <2> QED
    BY <1>0, <2>2
<1>7. copy' = IF copy.len = 0 THEN Done(0)
              ELSE IF WordFails THEN Done(-1)
              ELSE IF copy.op = "umovestr" /\ \E b \in copy.addr .. copy.addr + WORD - 1 : Nul(b)
              THEN [c EXCEPT !.pc = "done", !.ret = 1]
              ELSE c
  <2>1. c = [d EXCEPT !.addr = d.addr + WORD]
    <3> HIDE DEF d
    <3> QED
      BY <1>6
  <2> QED
    BY <2>1, Zenon DEF PeekWord
<1>8. c = [d EXCEPT !.addr = copy.addr + WORD]
  OBVIOUS
<1> HIDE DEF m, d, c
<1>9. /\ (copy.addr + WORD) % WORD = 0
      /\ \A b \in copy.addr .. copy.addr + WORD - 1 :
            b \in Nat /\ (Mapped(b) <=> Mapped(copy.addr)) /\ b \div WORD = copy.addr \div WORD
  <2>1. copy.addr = copy.addr - (copy.addr % WORD)
    BY <1>1, <1>2
  <2> QED
    BY <1>1, <2>1, WordOf, WordMapped
<1>10. CASE copy.len = 0
  <2>1. /\ copy' \in CopyType /\ copy'.pc = "done" /\ copy'.ret = 0
        /\ copy'.op = copy.op /\ copy'.addr0 = copy.addr0 /\ copy'.len0 = copy.len0 /\ copy'.mapped0 = copy.mapped0
        /\ copy'.len = copy.len /\ copy'.got = copy.got
    <3>1. 0 \in Int /\ copy' = Done(0)
      BY <1>7, <1>10
    <3> QED
      BY <1>1, <3>1, DoneIs, Zenon
  <2>2. Read = copy.len0 /\ Past = Asked
    BY <1>1, <1>10 DEF Past, Asked
  <2> QED
    BY <1>0, <1>2, <1>10, <2>1, <2>2, Completes
<1>11. CASE copy.len # 0 /\ WordFails
  <2>1. copy' = Done(-1)
    BY <1>7, <1>11
  <2>2. CASE ~mem.alive
    BY <1>0, <2>1, <2>2, GivesUp DEF Undisturbed
  <2>3. CASE mem.alive
    <3>1. copy.addr \in Asked /\ ~Mapped(copy.addr) /\ copy.addr = copy.addr0 + Read
      BY <1>1, <1>2, <1>11, <2>3 DEF Asked, WordFails, PEEKDATA
    <3>2. copy.op = "umovestr" => Ends = {}
      <4>1. Past = copy.addr0 .. copy.addr - 1
        <5>1. copy.addr0 + Read = copy.addr
          BY <3>1
        <5>2. copy.addr0 + Read - 1 = copy.addr - 1
          BY <1>1, <5>1
        <5> QED
          BY <5>2 DEF Past
      <4> QED
        BY <1>0, <1>2, <3>1, <4>1, NoEnd
    <3> QED
      BY <1>0, <2>1, <3>1, <3>2, GivesUp
  <2> QED
    BY <1>1, <2>2, <2>3
<1>12. CASE copy.len # 0 /\ ~WordFails
  <2>1. copy.addr = copy.addr0 + Read /\ m \in Nat
    BY <1>1, <1>2, <1>5, <1>12
  <2>2. New = copy.addr0 + Read .. copy.addr0 + Read + m - 1
    BY <2>1
  <2>3. New \subseteq copy.addr .. copy.addr + WORD - 1
    BY <1>1, <1>4, <1>5
  <2>4. \A b \in New : b < Top /\ b \div PAGE \in copy.mapped0
    <3>1. Mapped(copy.addr)
      BY <1>12 DEF WordFails, PEEKDATA
    <3> HIDE DEF New
    <3> QED
      BY <1>2, <1>9, <2>3, <3>1 DEF Mapped
  <2> HIDE DEF New
  <2>5. /\ c \in CopyType /\ c.pc = "words" /\ c.addr = copy.addr + WORD /\ Same(c, copy)
        /\ c.len = copy.len - m /\ c.got = Bytes(copy.addr0, Read + m)
    <3>1. c = AtAddr(d, copy.addr + WORD)
      BY <1>8 DEF AtAddr
    <3>2. copy.addr + WORD \in Nat
      BY <1>1, <1>4
    <3>3. c \in CopyType /\ c.pc = d.pc /\ c.addr = copy.addr + WORD /\ Same(c, d) /\ c.len = d.len /\ c.got = d.got
      BY <1>6, <3>1, <3>2, MovedAddr, Zenon
    <3>4. copy.got \o Bytes(copy.addr, m) = Bytes(copy.addr0, Read + m)
      <4>0. copy.addr0 \in Nat /\ Read \in Nat /\ m \in Nat
        BY <1>1, <2>1
      <4>1. Bytes(copy.addr0, Read) \o Bytes(copy.addr0 + Read, m) = Bytes(copy.addr0, Read + m)
        BY <4>0, BytesJoin, Zenon
      <4> QED
        BY <1>2, <2>1, <4>1
    <3> QED
      BY <1>6, <3>3, <3>4 DEF Same
  <2>6. CASE copy.op = "umovestr" /\ \E b \in copy.addr .. copy.addr + WORD - 1 : Nul(b)
    <3>1. copy' = [c EXCEPT !.pc = "done", !.ret = 1]
      BY <1>7, <1>12, <2>6
    <3>2. /\ copy' \in CopyType /\ copy'.pc = "done" /\ copy'.ret = 1 /\ Same(copy', c)
          /\ copy'.len = c.len /\ copy'.got = c.got
      <4>1. copy' = EndedWith(c, 1)
        BY <3>1 DEF EndedWith
      <4> QED
        BY <2>5, <4>1, NulFound
    <3>3. Same(copy', copy) /\ copy'.len = copy.len - m /\ copy'.got = Bytes(copy.addr0, Read + m)
      BY <2>5, <3>2 DEF Same
    <3>4. PICK b \in copy.addr .. copy.addr + WORD - 1 : Nul(b)
      BY <2>6
    <3>5. b \in copy.addr0 .. copy.addr0 + copy.len0 + WORD - 1
      BY <1>1, <1>4, <2>1
    <3>6. ASSUME Undisturbed, NEW x \in copy.addr0 .. b, x \div WORD # b \div WORD PROVE Mapped(x)
      <4>1. x < copy.addr
        <5>1. ~(x \in copy.addr .. copy.addr + WORD - 1)
          BY <1>9, <3>4, <3>6
        <5> QED
          BY <1>1, <1>4, <2>1, <5>1
      <4>2. x \in Past
        BY <1>1, <2>1, <4>1 DEF Past
      <4> QED
        BY <1>2, <3>6, <4>2 DEF Mapped, Undisturbed
    <3> QED
      BY <1>0, <1>2, <1>5, <2>2, <2>4, <2>6, <3>2, <3>3, <3>4, <3>5, <3>6, Finds
  <2>7. CASE ~(copy.op = "umovestr" /\ \E b \in copy.addr .. copy.addr + WORD - 1 : Nul(b))
    <3>1. copy' = c
      BY <1>7, <1>12, <2>7
    <3>2. copy.len > m => copy.addr + WORD = copy.addr0 + Read + m
      BY <1>5, <2>1
    <3> QED
      BY <1>0, <1>2, <1>5, <1>9, <2>2, <2>3, <2>4, <2>5, <2>7, <3>1, <3>2, Continues
  <2> QED
    BY <2>6, <2>7
<1> QED
  BY <1>10, <1>11, <1>12

LEMMA MStep ==
  ASSUME MInv, [MemoryNext]_memvars
  PROVE  MInv'
<1>1. CASE mem.alive /\ \E op \in {"umoven", "umovestr"}, a \in 0 .. Top - 1, high \in {0, 1}, n \in 0 .. MaxLen :
              Start(op, a, high, n)
  BY <1>1, StartStep DEF Op
<1>2. CASE UmovenReadv
  BY <1>2, UmovenReadvStep
<1>3. CASE UmovestrReadv
  BY <1>3, UmovestrReadvStep
<1>4. CASE PeekHead
  BY <1>4, PeekHeadStep
<1>5. CASE PeekWord
  BY <1>5, PeekWordStep
<1>6. CASE \E p \in mem.mapped : Unmap(p)
  BY <1>6, UnmapStep
<1>7. CASE Killed
  BY <1>7, KilledStep
<1>8. CASE Again
  BY <1>8 DEF Again, MInv
<1>9. CASE UNCHANGED memvars
  <2>1. copy' = copy /\ mem' = mem
    BY <1>9 DEF memvars
  <2>2. /\ Read' = Read /\ Past' = Past /\ Asked' = Asked /\ Returned' = Returned /\ Undisturbed' = Undisturbed
        /\ \A b : Nul(b)' = Nul(b) /\ Mapped(b)' = Mapped(b)
    BY <2>1, Zenon DEF Read, Past, Asked, Returned, Undisturbed, Nul, Mapped
  <2>3. Ends' = Ends /\ CopyInv' = CopyInv
    BY <2>1, <2>2, Zenon DEF Ends, CopyInv, Nul, Mapped, Read, Past
  <2> QED
    BY <2>1, <2>2, <2>3, Zenon DEF MInv, UmovenExact, UmovestrExact, Mapped
<1> QED
  BY <1>1, <1>2, <1>3, <1>4, <1>5, <1>6, <1>7, <1>8, <1>9 DEF MemoryNext

\* What was copied is where it was asked for.
LEMMA MemoryExact == MInv => CopyExact
<1> SUFFICES ASSUME MInv, copy # NoCopy PROVE CopyExact
  BY Zenon DEF CopyExact, CopySound, UmovenExact, UmovestrExact, Returned
<1>1. /\ CopyInv /\ copy.addr0 \in Nat /\ copy.len0 \in Nat /\ copy.len \in Nat /\ Read \in Nat
      /\ copy.len0 = Read + copy.len
  BY AtWork
<1>2. copy.got = Bytes(copy.addr0, Read) /\ Len(Bytes(copy.addr0, Read)) = Read
  BY <1>1, BytesSeq, Zenon DEF CopyInv
<1>3. ASSUME NEW i \in 1 .. Read PROVE copy.got[i] \div PAGE \in copy.mapped0
  <2>1. copy.got[i] = copy.addr0 + i - 1
    BY <1>1, <1>2 DEF Bytes
  <2>2. copy.addr0 + i - 1 \in Past
    BY <1>1 DEF Past
  <2> QED
    BY <1>1, <2>1, <2>2 DEF CopyInv
<1>4. CopySound
  BY <1>1, <1>2, <1>3 DEF CopySound, CopyInv
<1> QED
  BY <1>4 DEF MInv, CopyExact

(* umoven and umovestr copy exactly what their results say, whatever the   *)
(* sizes of a page, a chunk and a word, however long the request, and      *)
(* while threads unmap pages and the task is killed.                       *)
THEOREM CopiesAreExact == MemorySpec => []CopyExact
<1>1. MemoryInit => MInv
  BY MInit
<1>2. MInv /\ [MemoryNext]_memvars => MInv'
  BY MStep
<1>3. MInv => CopyExact
  BY MemoryExact
<1> QED
  BY <1>1, <1>2, <1>3, PTL DEF MemorySpec
=============================================================================
