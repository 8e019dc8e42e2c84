---------------------------- MODULE BlockWrites ----------------------------
(***************************************************************************)
(* How replay_disk_ops (alice.py) writes zeros or garbage: few bytes at    *)
(* once, many with dd in three parts, of which the middle is whole blocks  *)
(* at a multiple of their size.                                            *)
(***************************************************************************)
EXTENDS Integers

CONSTANTS SMALL,        \* 4096: the size of a block, and what is written at once
          BIG,          \* 1024 * 1024: the size of a block of a write of more than HUGE
          HUGE,         \* 4 * 1024 * 1024
          MaxExtent     \* bound: offset and count of a write

ASSUME BlockWritesAssumption ==
    /\ SMALL \in Nat \ {0} /\ BIG \in Nat \ {0} /\ HUGE \in Nat /\ MaxExtent \in Nat
    /\ HUGE < MaxExtent

VARIABLE special        \* the write, the ranges that were written and how it ended

NoSpecial == [op |-> "none"]
Range_of(offset, count) == offset..offset + (count - 1)

BLOCK_SIZE(count) == IF count > HUGE THEN BIG ELSE SMALL

blocks_byte_offset_down(offset, b) == (offset \div b) * b                      \* Mutant
blocks_byte_offset(offset, b) == ((offset + b - 1) \div b) * b                 \* math.ceil
blocks_count(offset, count, b) ==
    LET n == offset + count - blocks_byte_offset(offset, b)
    IN  (IF n > 0 THEN n ELSE 0) \div b
pre_blocks_count(offset, count, b) ==
    LET n == blocks_byte_offset(offset, b) - offset
    IN  IF n > count THEN count ELSE n
post_blocks_offset(offset, count, b) == blocks_byte_offset(offset, b) + b * blocks_count(offset, count, b)
post_blocks_count(offset, count, b) ==
    IF pre_blocks_count(offset, count, b) < count THEN offset + count - post_blocks_offset(offset, count, b)
    ELSE 0

(* The assertions in between that are not about values just assigned. *)
asserts_hold(offset, count, b) ==
    LET pre    == pre_blocks_count(offset, count, b)
        blocks == b * blocks_count(offset, count, b)
        post   == post_blocks_count(offset, count, b)
    IN  /\ blocks_byte_offset(offset, b) - offset > count => blocks = 0
        /\ pre >= 0 /\ blocks >= 0 /\ post >= 0
        /\ pre + blocks + post = count
        /\ pre < count => blocks_byte_offset(offset, b) = offset + pre

(* The parts, one dd each if not empty. *)
told(offset, count) ==
    LET b == BLOCK_SIZE(count)
    IN  <<Range_of(offset, pre_blocks_count(offset, count, b)),
          Range_of(blocks_byte_offset(offset, b), b * blocks_count(offset, count, b)),
          Range_of(post_blocks_offset(offset, count, b), post_blocks_count(offset, count, b))>>

(* blocks_offset is the quotient of /, a float, which dd does not take for *)
(* a number; check_call raises.                                            *)
write_special(offset, count) ==
    LET t == told(offset, count)
    IN  IF count <= SMALL THEN [written |-> Range_of(offset, count), ended |-> "written"]
        ELSE IF ~asserts_hold(offset, count, BLOCK_SIZE(count)) THEN [written |-> {}, ended |-> "assert"]
        ELSE IF t[2] # {} THEN [written |-> t[1], ended |-> "dd"]
        ELSE [written |-> t[1] \cup t[3], ended |-> "written"]

Special(offset, count) ==
    special' = [op |-> "special", offset |-> offset, count |-> count, told |-> told(offset, count),
                out |-> write_special(offset, count)]

SpecialInit == special = [op |-> "start"]
SpecialNext ==
    /\ special.op = "start"
    /\ \E offset \in 0..MaxExtent, count \in 1..MaxExtent : Special(offset, count)

SpecialSpec == SpecialInit /\ [][SpecialNext]_special

-----------------------------------------------------------------------------
(* The three parts are the range of the write, each byte in one of them,   *)
(* wherever it starts and ends in its blocks, and no assertion fails.  Of  *)
(* a range with a whole block only the bytes in front of it are written    *)
(* before the replay ends in an exception; any other is written in full.   *)
BlocksExact ==
    special.op = "special" =>
        LET whole == Range_of(special.offset, special.count)
            t     == special.told
            b     == BLOCK_SIZE(special.count)
            block == \E k \in 0..MaxExtent : Range_of(k * b, b) \subseteq whole
        IN  /\ t[1] \cup t[2] \cup t[3] = whole
            /\ t[1] \cap t[2] = {} /\ t[1] \cap t[3] = {} /\ t[2] \cap t[3] = {}
            /\ special.out.ended = IF special.count > SMALL /\ block THEN "dd" ELSE "written"
            /\ special.out.ended = "written" => special.out.written = whole
=============================================================================
