------------------------- MODULE BlockWritesProofs -------------------------
(***************************************************************************)
(* TLAPS proofs about BlockWrites, for every size of a block and every     *)
(* offset and count.                                                       *)
(***************************************************************************)
EXTENDS BlockWrites, TLAPS

LEMMA Quotient ==
  ASSUME NEW x \in Nat, NEW b \in Nat \ {0}
  PROVE  x \div b \in Nat /\ (x \div b) * b <= x /\ x < (x \div b) * b + b
  OBVIOUS

LEMMA Multiples ==
  ASSUME NEW x \in Int, NEW y \in Int, NEW b \in Nat \ {0}, x < y
  PROVE  x * b + b <= y * b
  OBVIOUS

LEMMA Adjacent ==
  ASSUME NEW a \in Int, NEW b \in Int, NEW c \in Int, NEW d \in Int, a <= b, b <= c, c <= d
  PROVE  /\ (a .. b - 1) \cup (b .. c - 1) \cup (c .. d - 1) = a .. d - 1
         /\ (a .. b - 1) \cap (b .. c - 1) = {} /\ (a .. b - 1) \cap (c .. d - 1) = {}
         /\ (b .. c - 1) \cap (c .. d - 1) = {}
  OBVIOUS

LEMMA EmptyRange ==
  ASSUME NEW x \in Nat, NEW n \in Nat
  PROVE  Range_of(x, n) = {} <=> n = 0
<1>1. n # 0 => x \in x .. x + (n - 1)
  OBVIOUS
<1>2. n = 0 => x .. x + (n - 1) = {}
  OBVIOUS
<1> QED
  BY <1>1, <1>2 DEF Range_of

LEMMA BlockSize ==
  ASSUME NEW count \in Nat
  PROVE  BLOCK_SIZE(count) \in Nat \ {0}
  BY BlockWritesAssumption DEF BLOCK_SIZE

\* The first block that starts in the write or behind it.
LEMMA FirstBlock ==
  ASSUME NEW offset \in Nat, NEW b \in Nat \ {0}
  PROVE  \E q \in 0 .. offset :
           /\ blocks_byte_offset(offset, b) = q * b
           /\ offset <= q * b /\ q * b < offset + b
           /\ \A k \in Nat : offset <= k * b => q * b <= k * b
<1> DEFINE q == (offset + b - 1) \div b
<1>1. q \in Nat /\ q * b <= offset + b - 1 /\ offset + b - 1 < q * b + b
  BY Quotient
<1>2. blocks_byte_offset(offset, b) = q * b
  BY DEF blocks_byte_offset
<1> HIDE DEF q
<1>3. q * b \in Int
  BY <1>1
<1>4. offset <= q * b /\ q * b < offset + b
  BY <1>1, <1>3
<1>5. q <= offset
  <2> SUFFICES ASSUME offset < q PROVE FALSE
    BY <1>1
  <2>1. offset * b + b <= q * b
    BY <1>1, Multiples
  <2>2. offset <= offset * b
    OBVIOUS
  <2> QED
    BY <1>3, <1>4, <2>1, <2>2
<1>6. ASSUME NEW k \in Nat, offset <= k * b PROVE q * b <= k * b
  <2>1. CASE k < q
    <3>1. k * b + b <= q * b
      BY <1>1, <2>1, Multiples
    <3>2. k * b \in Int
      OBVIOUS
    <3> QED
      BY <1>3, <1>4, <1>6, <3>1, <3>2
  <2>2. CASE k = q
    BY <1>3, <2>2
  <2>3. CASE q < k
    <3>1. q * b + b <= k * b
      BY <1>1, <2>3, Multiples
    <3>2. k * b \in Int
      OBVIOUS
    <3> QED
      BY <1>3, <3>1, <3>2
  <2> QED
    BY <1>1, <2>1, <2>2, <2>3
<1> QED
  BY <1>1, <1>2, <1>4, <1>5, <1>6

\* The parts of a write, by where its first block starts (B) and how many
\* bytes of whole blocks there are (m).
LEMMA Parts ==
  ASSUME NEW offset \in Nat, NEW count \in Nat \ {0}, NEW b \in Nat \ {0}
  PROVE  \E B \in Nat, m \in Nat :
           /\ B = blocks_byte_offset(offset, b) /\ m = b * blocks_count(offset, count, b)
           /\ offset <= B
           /\ \/ /\ B - offset >= count /\ m = 0
                 /\ pre_blocks_count(offset, count, b) = count /\ post_blocks_count(offset, count, b) = 0
              \/ /\ B - offset < count
                 /\ pre_blocks_count(offset, count, b) = B - offset
                 /\ post_blocks_offset(offset, count, b) = B + m
                 /\ B + m <= offset + count /\ offset + count < B + m + b
                 /\ post_blocks_count(offset, count, b) = offset + count - (B + m)
           /\ m = 0 \/ m >= b
<1>1. PICK q \in 0 .. offset : blocks_byte_offset(offset, b) = q * b /\ offset <= q * b
  BY FirstBlock, Zenon
<1> DEFINE B == q * b
           n == offset + count - B
           c == blocks_count(offset, count, b)
           m == b * c
<1>2. B \in Nat /\ n \in Int
  BY <1>1
<1>3. c = (IF n > 0 THEN n ELSE 0) \div b
  BY <1>1 DEF blocks_count
<1> HIDE DEF B, n, c
<1>4. pre_blocks_count(offset, count, b) = (IF B - offset > count THEN count ELSE B - offset)
  BY <1>1 DEF pre_blocks_count, B
<1>5. post_blocks_offset(offset, count, b) = B + m
  BY <1>1 DEF post_blocks_offset, B, c
<1>6. n = offset + count - B /\ offset <= B /\ B = blocks_byte_offset(offset, b)
  BY <1>1 DEF n, B
<1>7. c \in Nat /\ c * b <= (IF n > 0 THEN n ELSE 0) /\ (IF n > 0 THEN n ELSE 0) < c * b + b
  BY <1>2, <1>3, Quotient
<1>8. m \in Nat /\ c * b = m
  BY <1>7
<1>9. m = 0 \/ m >= b
  <2>1. CASE c = 0
    BY <2>1
  <2>2. CASE c # 0
    <3>1. 0 * b + b <= c * b
      BY <1>7, <2>2, Multiples
    <3> QED
      BY <1>8, <3>1
  <2> QED
    BY <2>1, <2>2
<1> HIDE DEF m
<1>10. CASE B - offset >= count
  <2>1. n <= 0
    BY <1>2, <1>6, <1>10
  <2>2. m = 0
    BY <1>2, <1>7, <1>8, <2>1
  <2>3. pre_blocks_count(offset, count, b) = count
    BY <1>2, <1>4, <1>10
  <2>4. post_blocks_count(offset, count, b) = 0
    BY <2>3 DEF post_blocks_count
  <2> QED
    BY <1>2, <1>6, <1>8, <1>9, <1>10, <2>2, <2>3, <2>4 DEF m, c
<1>11. CASE B - offset < count
  <2>1. n > 0
    BY <1>2, <1>6, <1>11
  <2>2. m <= n /\ n < m + b
    BY <1>2, <1>7, <1>8, <2>1
  <2>3. pre_blocks_count(offset, count, b) = B - offset
    BY <1>2, <1>4, <1>11
  <2>4. post_blocks_count(offset, count, b) = offset + count - (B + m)
    BY <1>5, <1>11, <2>3 DEF post_blocks_count
  <2>5. B + m <= offset + count /\ offset + count < B + m + b
    BY <1>2, <1>6, <1>8, <2>2
  <2> QED
    BY <1>2, <1>5, <1>6, <1>8, <1>9, <1>11, <2>3, <2>4, <2>5 DEF m, c
<1> QED
  BY <1>2, <1>10, <1>11

\* There are whole blocks exactly if some block lies in the range.
LEMMA WholeBlocks ==
  ASSUME NEW offset \in 0 .. MaxExtent, NEW count \in Nat \ {0}, NEW b \in Nat \ {0}
  PROVE  b * blocks_count(offset, count, b) # 0 <=>
           \E k \in 0 .. MaxExtent : Range_of(k * b, b) \subseteq Range_of(offset, count)
<1>0. MaxExtent \in Nat /\ offset \in Nat
  BY BlockWritesAssumption
<1>1. PICK q \in 0 .. offset : /\ blocks_byte_offset(offset, b) = q * b
                               /\ offset <= q * b /\ \A k \in Nat : offset <= k * b => q * b <= k * b
  BY <1>0, FirstBlock, Zenon
<1>2. PICK B \in Nat, m \in Nat :
           /\ B = q * b /\ m = b * blocks_count(offset, count, b) /\ offset <= B
           /\ \/ B - offset >= count /\ m = 0
              \/ B - offset < count /\ B + m <= offset + count /\ offset + count < B + m + b
           /\ m = 0 \/ m >= b
  BY <1>0, <1>1, Parts, Zenon
<1>3. ASSUME m # 0
      PROVE  \E k \in 0 .. MaxExtent : Range_of(k * b, b) \subseteq Range_of(offset, count)
  <2>1. q \in 0 .. MaxExtent
    BY <1>0
  <2>2. B + b <= offset + count
    BY <1>0, <1>2, <1>3
  <2>3. Range_of(B, b) \subseteq Range_of(offset, count)
    BY <1>0, <1>2, <2>2 DEF Range_of
  <2> QED
    BY <1>2, <2>1, <2>3
<1>4. ASSUME NEW k \in 0 .. MaxExtent, Range_of(k * b, b) \subseteq Range_of(offset, count), m = 0
      PROVE  FALSE
  <2> DEFINE K == k * b
  <2>0. K \in Nat /\ k \in Nat
    BY <1>0
  <2>1. K \in Range_of(K, b) /\ K + (b - 1) \in Range_of(K, b)
    BY <2>0 DEF Range_of
  <2>2. offset <= K /\ K + (b - 1) <= offset + (count - 1)
    <3>1. K \in Range_of(offset, count) /\ K + (b - 1) \in Range_of(offset, count)
      BY <1>4, <2>1
    <3> QED
      BY <1>0, <2>0, <3>1 DEF Range_of
  <2>3. B <= K
    BY <1>1, <1>2, <2>0, <2>2, Zenon
  <2> HIDE DEF K
  <2> QED
    BY <1>0, <1>2, <1>4, <2>0, <2>2, <2>3
<1> QED
  BY <1>2, <1>3, <1>4

\* What is written, and how it ends.
LEMMA SpecialExact ==
  ASSUME NEW offset \in 0 .. MaxExtent, NEW count \in 1 .. MaxExtent
  PROVE  LET whole == Range_of(offset, count)
             t     == told(offset, count)
             b     == BLOCK_SIZE(count)
             block == \E k \in 0 .. MaxExtent : Range_of(k * b, b) \subseteq whole
             out   == write_special(offset, count)
         IN  /\ t[1] \cup t[2] \cup t[3] = whole
             /\ t[1] \cap t[2] = {} /\ t[1] \cap t[3] = {} /\ t[2] \cap t[3] = {}
             /\ out.ended = IF count > SMALL /\ block THEN "dd" ELSE "written"
             /\ out.ended = "written" => out.written = whole
<1> DEFINE whole == Range_of(offset, count)
           t     == told(offset, count)
           b     == BLOCK_SIZE(count)
           block == \E k \in 0 .. MaxExtent : Range_of(k * b, b) \subseteq whole
           out   == write_special(offset, count)
<1>0. MaxExtent \in Nat /\ offset \in Nat /\ count \in Nat \ {0} /\ SMALL \in Nat
  BY BlockWritesAssumption
<1>1. b \in Nat \ {0}
  BY <1>0, BlockSize
<1> HIDE DEF b
<1>2. PICK B \in Nat, m \in Nat :
           /\ B = blocks_byte_offset(offset, b) /\ m = b * blocks_count(offset, count, b)
           /\ offset <= B
           /\ \/ /\ B - offset >= count /\ m = 0
                 /\ pre_blocks_count(offset, count, b) = count /\ post_blocks_count(offset, count, b) = 0
              \/ /\ B - offset < count
                 /\ pre_blocks_count(offset, count, b) = B - offset
                 /\ post_blocks_offset(offset, count, b) = B + m
                 /\ B + m <= offset + count /\ offset + count < B + m + b
                 /\ post_blocks_count(offset, count, b) = offset + count - (B + m)
           /\ m = 0 \/ m >= b
  BY <1>0, <1>1, Parts, Zenon
<1>3. /\ t[1] = Range_of(offset, pre_blocks_count(offset, count, b))
      /\ t[2] = Range_of(B, m)
      /\ t[3] = Range_of(post_blocks_offset(offset, count, b), post_blocks_count(offset, count, b))
  BY <1>2 DEF told, b
<1>4. asserts_hold(offset, count, b)
  <2> DEFINE pre == pre_blocks_count(offset, count, b)
             post == post_blocks_count(offset, count, b)
  <2> SUFFICES /\ B - offset > count => m = 0
               /\ pre >= 0 /\ m >= 0 /\ post >= 0
               /\ pre + m + post = count
               /\ pre < count => B = offset + pre
    BY <1>2 DEF asserts_hold
  <2> HIDE DEF pre, post
  <2> QED
    BY <1>0, <1>2 DEF pre, post
<1>5. m # 0 <=> block
  BY <1>0, <1>1, <1>2, WholeBlocks, Zenon
<1>6. t[2] # {} <=> m # 0
  <2>1. Range_of(B, m) = {} <=> m = 0
    BY EmptyRange
  <2> HIDE DEF t
  <2> QED
    BY <1>3, <2>1
<1>7. /\ t[1] \cup t[2] \cup t[3] = whole
      /\ t[1] \cap t[2] = {} /\ t[1] \cap t[3] = {} /\ t[2] \cap t[3] = {}
  <2> HIDE DEF t
  <2>1. CASE B - offset >= count
    <3>1. t[1] = whole
      BY <1>0, <1>2, <1>3, <2>1
    <3>2. t[2] = {}
      BY <1>0, <1>2, <1>6, <2>1
    <3>3. t[3] = {}
      <4>1. post_blocks_count(offset, count, b) = 0 /\ m = 0
        BY <1>0, <1>2, <2>1
      <4>2. post_blocks_offset(offset, count, b) = B + m
        BY <1>2 DEF post_blocks_offset
      <4> QED
        BY <1>2, <1>3, <4>1, <4>2 DEF Range_of
    <3> QED
      BY <3>1, <3>2, <3>3
  <2>2. CASE B - offset < count
    <3>1. /\ t[1] = offset .. B - 1 /\ t[2] = B .. B + m - 1
          /\ t[3] = B + m .. offset + count - 1 /\ whole = offset .. offset + count - 1
      <4>1. /\ pre_blocks_count(offset, count, b) = B - offset
            /\ post_blocks_offset(offset, count, b) = B + m
            /\ post_blocks_count(offset, count, b) = offset + count - (B + m)
        BY <1>0, <1>2, <2>2
      <4>2. /\ t[1] = Range_of(offset, B - offset) /\ t[2] = Range_of(B, m)
            /\ t[3] = Range_of(B + m, offset + count - (B + m))
        BY <1>3, <4>1, Zenon
      <4>3. /\ offset + ((B - offset) - 1) = B - 1 /\ B + (m - 1) = B + m - 1
            /\ (B + m) + ((offset + count - (B + m)) - 1) = offset + count - 1
            /\ offset + (count - 1) = offset + count - 1
        BY <1>0
      <4> QED
        BY <4>2, <4>3, Zenon DEF Range_of
    <3>2. offset \in Int /\ B \in Int /\ B + m \in Int /\ offset + count \in Int
          /\ offset <= B /\ B <= B + m /\ B + m <= offset + count
      BY <1>0, <1>2, <2>2
    <3> HIDE DEF whole
    <3> QED
      BY <3>1, <3>2, Adjacent
  <2> QED
    BY <1>0, <1>2, <2>1, <2>2
<1>8. out = IF count <= SMALL THEN [written |-> whole, ended |-> "written"]
            ELSE IF t[2] # {} THEN [written |-> t[1], ended |-> "dd"]
            ELSE [written |-> t[1] \cup t[3], ended |-> "written"]
  BY <1>4 DEF write_special, b
<1> HIDE DEF t, whole, block
<1>9. /\ out.ended = IF count > SMALL /\ block THEN "dd" ELSE "written"
      /\ out.ended = "written" => out.written = whole
  <2> HIDE DEF out
  <2> QED
    BY <1>0, <1>5, <1>6, <1>7, <1>8
<1> QED
  BY <1>7, <1>9 DEF t, whole, block, b

\* The bytes that replay_disk_ops writes for a range of zeros or garbage are the
\* range, in parts that do not overlap, and no assertion fails, for every size
\* of a block, offset and count; with a whole block in the range, the replay
\* ends in dd.
THEOREM BlocksAreExact == SpecialSpec => []BlocksExact
<1> DEFINE Inv == special.op = "special" =>
                    \E offset \in 0 .. MaxExtent, count \in 1 .. MaxExtent :
                      special = [op |-> "special", offset |-> offset, count |-> count,
                                 told |-> told(offset, count), out |-> write_special(offset, count)]
<1>1. SpecialInit => Inv
  BY DEF SpecialInit
<1>2. Inv /\ [SpecialNext]_special => Inv'
  BY DEF SpecialNext, Special
<1>3. Inv => BlocksExact
  <2> SUFFICES ASSUME special.op = "special", Inv PROVE BlocksExact
    BY DEF BlocksExact
  <2>1. PICK offset \in 0 .. MaxExtent, count \in 1 .. MaxExtent :
               special = [op |-> "special", offset |-> offset, count |-> count,
                          told |-> told(offset, count), out |-> write_special(offset, count)]
    OBVIOUS
  <2>2. /\ special.offset = offset /\ special.count = count
        /\ special.told = told(offset, count) /\ special.out = write_special(offset, count)
    BY <2>1
  <2> DEFINE whole == Range_of(offset, count)
             t     == told(offset, count)
             b     == BLOCK_SIZE(count)
             block == \E k \in 0 .. MaxExtent : Range_of(k * b, b) \subseteq whole
             out   == write_special(offset, count)
  <2>3. /\ t[1] \cup t[2] \cup t[3] = whole
        /\ t[1] \cap t[2] = {} /\ t[1] \cap t[3] = {} /\ t[2] \cap t[3] = {}
        /\ out.ended = IF count > SMALL /\ block THEN "dd" ELSE "written"
        /\ out.ended = "written" => out.written = whole
    BY SpecialExact
  <2> QED
    BY <2>2, <2>3 DEF BlocksExact
<1> QED
  BY <1>1, <1>2, <1>3, PTL DEF SpecialSpec

=============================================================================
