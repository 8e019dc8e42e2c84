------------------------------ MODULE Quoting ------------------------------
(***************************************************************************)
(* Strings in the trace: string_quote, printstr, printpathn and dumpstr    *)
(* (util.c), and what becomes of a quoted path when parse_line splits the  *)
(* line and __get_micro_op evaluates the field.  A byte is its number, a   *)
(* text the sequence of the numbers of its characters.                     *)
(***************************************************************************)
EXTENDS Integers, Sequences, SequencesExt

CONSTANTS Bytes256,   \* the bytes strings are made of, a set of bytes with 0
          MaxString,  \* bound: the length of a string
          Limit,      \* max_strlen, the option -s
          ROW         \* 16: the bytes in a row of a dump

ASSUME QuotingAssumption ==
    /\ Bytes256 \subseteq 0..255 /\ 0 \in Bytes256
    /\ MaxString \in Nat /\ Limit \in Nat /\ ROW \in Nat \ {0}

VARIABLE quoted     \* the function called last, its input and what it printed

NoQuote == [op |-> "none"]

NUL == 0
QUOTE == 34
COMMA == 44
BACKSLASH == 92
Digit(d) == 48 + d
IsDigit(c) == c \in 48..57
IsOctal(c) == c \in 48..55
Ellipsis == <<46, 46, 46>>
Hex(d) == IF d < 10 THEN 48 + d ELSE 87 + d

-----------------------------------------------------------------------------
(* The escape of one byte.  The octal one is as short as the next byte     *)
(* allows: a digit would be taken for a part of it.                        *)
Letter == [c \in {12, 10, 13, 9, 11} |->
              CASE c = 12 -> 102 [] c = 10 -> 110 [] c = 13 -> 114 [] c = 9 -> 116 [] c = 11 -> 118]

(* Mutant: whatever comes next. *)
octal_short(c, digitNext) ==
    IF c >= 64 THEN <<Digit(c \div 64), Digit((c \div 8) % 8), Digit(c % 8)>>
    ELSE IF c >= 8 THEN <<Digit(c \div 8), Digit(c % 8)>> ELSE <<Digit(c)>>
octal(c, digitNext) ==
    IF digitNext \/ c >= 64 THEN <<Digit(c \div 64), Digit((c \div 8) % 8), Digit(c % 8)>>
    ELSE IF c >= 8 THEN <<Digit(c \div 8), Digit(c % 8)>>
    ELSE <<Digit(c)>>

Escaped(c, digitNext) ==
    CASE c \in {QUOTE, BACKSLASH} -> <<BACKSLASH, c>>
      [] c \in DOMAIN Letter -> <<BACKSLASH, Letter[c]>>
      [] c \in 32..126 \ {QUOTE, BACKSLASH} -> <<c>>
      [] OTHER -> <<BACKSLASH>> \o octal(c, digitNext)

HexEscaped(c) == <<BACKSLASH, 120, Hex(c \div 16), Hex(c % 16)>>

(* The buffer buf holds size bytes and, for a NUL-terminated string, one   *)
(* more than is quoted.  ret is 0 if the whole string was printed.         *)
string_quote(buf, asciz, size, xflag) ==
    LET most   == IF asciz THEN size - 1 ELSE size
        stops  == {i \in 1..most : asciz /\ buf[i] = NUL}
        n      == IF stops = {} THEN most ELSE (CHOOSE i \in stops : \A j \in stops : i <= j) - 1
        usehex == \/ xflag > 1
                  \/ xflag = 1 /\ \E i \in 1..n : buf[i] > 126 \/ (buf[i] < 32 /\ buf[i] \notin 9..13)
        piece(i) == IF usehex THEN HexEscaped(buf[i])
                    ELSE Escaped(buf[i], i < most /\ IsDigit(buf[i + 1]))
    IN  [text |-> <<QUOTE>> \o FlattenSeq([i \in 1..n |-> piece(i)]) \o <<QUOTE>>,
         ret  |-> IF asciz /\ buf[n + 1] = NUL THEN 0 ELSE 1]

-----------------------------------------------------------------------------
(* The bytes that umovestr reads of a string at most n long with its NUL,  *)
(* and whether it saw the NUL (TraceeMemory).                              *)
UpTo(s, n) == SubSeq(s, 1, IF Len(s) < n THEN Len(s) ELSE n)
Fetched(str, n) == UpTo(str \o <<NUL>>, n)
NulSeen(str, n) == Len(str) < n
Buffer(bytes, n) == bytes \o [i \in 1..(n - Len(bytes)) |-> NUL]   \* the rest is never looked at

(* Mutant: no byte is fetched beyond the n that are printed. *)
quoted_path_tight(str, n, xflag) ==
    LET path == [Buffer(Fetched(str, n), n + 1) EXCEPT ![n + 1] = NUL]
    IN  string_quote(path, TRUE, n + 1, xflag).text
        \o IF NulSeen(str, n) THEN <<>> ELSE Ellipsis
(* Mutant: the NUL written at n is counted twice. *)
quoted_path_short(str, n, xflag) ==
    LET path == [Buffer(Fetched(str, n + 1), n + 1) EXCEPT ![n + 1] = NUL]
    IN  string_quote(path, TRUE, IF n = 0 THEN 1 ELSE n, xflag).text
        \o IF NulSeen(str, n + 1) THEN <<>> ELSE Ellipsis
(* A path, with "..." if it is longer than n. *)
quoted_path(str, n, xflag) ==
    LET path == [Buffer(Fetched(str, n + 1), n + 1) EXCEPT ![n + 1] = NUL]
    IN  string_quote(path, TRUE, n + 1, xflag).text
        \o IF NulSeen(str, n + 1) THEN <<>> ELSE Ellipsis

(* A string of len bytes, or NUL-terminated (len = -1): at most max_strlen *)
(* of it.                                                                  *)
quoted_str(str, len, max_strlen, xflag) ==
    LET size == IF len = -1 THEN max_strlen + 1 ELSE IF len < max_strlen THEN len ELSE max_strlen
        buf  == IF len = -1 THEN Buffer(Fetched(str, size), size) ELSE UpTo(str, size)
        q    == string_quote(buf, len = -1, size, xflag)
    IN  q.text \o IF q.ret = 1 /\ (len < 0 \/ len > max_strlen) THEN Ellipsis ELSE <<>>

(* Mutant: the last row is as long as the others. *)
dumpstr_full(str) ==
    [k \in 1..((Len(str) + ROW - 1) \div ROW) |->
        [at    |-> ROW * (k - 1),
         hex   |-> [i \in 1..ROW |-> IF ROW * (k - 1) + i <= Len(str) THEN str[ROW * (k - 1) + i] ELSE 32],
         ascii |-> <<>>]]
(* The rows of a hex dump: the offset, the bytes or blanks (-1), and the   *)
(* characters, dots for the unprintable and spaces beyond the end.         *)
dumpstr(str) ==
    LET padded == str \o [i \in 1..((ROW - (Len(str) % ROW)) % ROW) |-> 32]
        cell(i) == IF i <= Len(str) THEN padded[i] ELSE -1
        char(c) == IF c \in 32..126 THEN c ELSE 46
    IN  [k \in 1..(Len(padded) \div ROW) |->
            [at    |-> ROW * (k - 1),
             hex   |-> [i \in 1..ROW |-> cell(ROW * (k - 1) + i)],
             ascii |-> [i \in 1..ROW |-> char(padded[ROW * (k - 1) + i])]]]

(* The dump of an array of buffers: a heading with the length and the      *)
(* number of each, then its rows.                                          *)
dumpiov(bufs) ==
    FlattenSeq([i \in 1..Len(bufs) |->
        <<[heading |-> Len(bufs[i]), buffer |-> i - 1]>> \o dumpstr(bufs[i])])

(* Calls that transfer bytes on a descriptor, by the decoder they have;    *)
(* "none" is any other.                                                    *)
readers == {"read", "readv"}
writers == {"write", "writev"}

(* What a call that did not fail has dumped, by the qualifiers of its      *)
(* descriptor (-e read=, -e write=); known: it is below num_quals.  Of a   *)
(* descriptor asked for in both ways only what is read is.                 *)
dumped_string_whole(c) == c.bufs[1]                    \* Mutant: the buffer, not what was read
dumped_string(c) == IF c.call = "read" THEN SubSeq(c.bufs[1], 1, c.u_rval) ELSE c.bufs[1]
dumpio(c) ==
    LET wanted == IF "READ" \in c.quals THEN readers ELSE IF "WRITE" \in c.quals THEN writers ELSE {}
    IN  IF c.failed \/ ~c.known \/ c.call \notin wanted THEN <<>>
        ELSE IF c.call \in {"readv", "writev"} THEN dumpiov(c.bufs)
        ELSE dumpstr(dumped_string(c))

-----------------------------------------------------------------------------
(* Reading back.                                                           *)

Unlettered(c) ==
    IF \E b \in DOMAIN Letter : Letter[b] = c THEN CHOOSE b \in DOMAIN Letter : Letter[b] = c ELSE c
HexDigit(c) == IF c >= 97 THEN c - 87 ELSE c - 48

(* What Python's eval makes of a literal: up to three octal digits, two    *)
(* hexadecimal ones, a letter, or the character itself.                    *)
evaluated(text) ==
    LET body == SubSeq(text, 2, Len(text) - 1)
        octals(i) == Cardinality({j \in i..i + 2 : j <= Len(body) /\ \A k \in i..j : IsOctal(body[k])})
        value(i, n) == FoldLeft(LAMBDA acc, c : 8 * acc + (c - 48), 0, SubSeq(body, i, i + n - 1))
        read[i \in 1..Len(body) + 1] ==
            CASE i > Len(body) -> <<>>
              [] i <= Len(body) /\ body[i] # BACKSLASH -> <<body[i]>> \o read[i + 1]
              [] i <= Len(body) /\ body[i] = BACKSLASH /\ IsOctal(body[i + 1]) ->
                    <<value(i + 1, octals(i + 1))>> \o read[i + 1 + octals(i + 1)]
              [] i <= Len(body) /\ body[i] = BACKSLASH /\ body[i + 1] = 120 ->
                    <<16 * HexDigit(body[i + 2]) + HexDigit(body[i + 3])>> \o read[i + 4]
              [] OTHER -> <<Unlettered(body[i + 1])>> \o read[i + 2]
    IN  read[1]

(* A character beyond ASCII is two bytes of the file name it is used in. *)
encoded(chars) ==
    FlattenSeq([i \in 1..Len(chars) |->
        IF chars[i] < 128 THEN <<chars[i]>>
        ELSE <<192 + chars[i] \div 64, 128 + (chars[i] % 64)>>])

(* The field of the line that holds the path: csv splits at commas inside  *)
(* the quotes too, since no field begins with its quote.                   *)
FirstField(text) ==
    IF \E i \in 1..Len(text) : text[i] = COMMA
    THEN SubSeq(text, 1, (CHOOSE i \in 1..Len(text) : text[i] = COMMA /\ \A j \in 1..i - 1 : text[j] # COMMA) - 1)
    ELSE text

-----------------------------------------------------------------------------
Strings == UNION {[1..n -> Bytes256] : n \in 0..MaxString}
Paths   == UNION {[1..n -> Bytes256 \ {NUL}] : n \in 0..MaxString}

Quote(str, xflag) ==
    quoted' = [op |-> "string_quote", str |-> str, x |-> xflag, asciz |-> FALSE,
               out |-> string_quote(str, FALSE, Len(str), xflag)]
QuoteAsciz(str, n, xflag) ==
    quoted' = [op |-> "string_quote", str |-> UpTo(str, n - 1), x |-> xflag, asciz |-> TRUE,
               out |-> string_quote(Buffer(Fetched(str, n), n), TRUE, n, xflag)]
PrintPath(str, n, xflag) ==
    quoted' = [op |-> "printpathn", str |-> str, x |-> xflag, n |-> n, out |-> quoted_path(str, n, xflag)]
PrintStr(str, len, xflag) ==
    quoted' = [op |-> "printstr", str |-> str, len |-> len, out |-> quoted_str(str, len, Limit, xflag)]
Dump(str) ==
    quoted' = [op |-> "dumpstr", str |-> str, out |-> dumpstr(str)]
Transfer(c) ==
    quoted' = [op |-> "dumpio", c |-> c, out |-> dumpio(c)]

(* Bound: two buffers of one kind of byte; the first is that of read and   *)
(* write.                                                                  *)
Transfers ==
    LET filled(n, b) == [i \in 1..n |-> b]
    IN  {c \in [call : readers \cup writers \cup {"none"}, quals : SUBSET {"READ", "WRITE"},
                failed : BOOLEAN, known : BOOLEAN, u_rval : 0..MaxString,
                bufs : {<<filled(m, 65), filled(n, 66)>> : m, n \in 0..MaxString}] :
            c.u_rval <= Len(c.bufs[1]) + IF c.call \in {"readv", "writev"} THEN Len(c.bufs[2]) ELSE 0}

QuotingInit == quoted = [op |-> "start"]

QuotingNext ==
    /\ quoted.op = "start"
    /\ \/ \E str \in Strings, x \in 0..2 : Quote(str, x)
       \/ \E str \in Paths, n \in 1..MaxString + 1, x \in 0..2 : QuoteAsciz(str, n, x)
       \/ \E str \in Paths, n \in 0..MaxString, x \in 0..2 : PrintPath(str, n, x)
       \/ \E str \in Paths, x \in 0..2 : PrintStr(str, -1, x)
       \/ \E str \in Strings, x \in 0..2 : PrintStr(str, Len(str), x)
       \/ \E str \in Strings : Dump(str)
       \/ \E c \in Transfers : Transfer(c)

QuotingSpec == QuotingInit /\ [][QuotingNext]_quoted

-----------------------------------------------------------------------------
(* What string_quote prints evaluates to the bytes it was given, whatever  *)
(* follows an escape, and with its NUL fits the buffer its comment         *)
(* promises ("up to (3 + `size' * 4) bytes").                              *)
QuoteInverse ==
    quoted.op = "string_quote" =>
        /\ evaluated(quoted.out.text) = quoted.str
        /\ Len(quoted.out.text) + 1 <= 3 + 4 * Len(quoted.str)

(* "..." is printed exactly when something is left out, by printstr and by *)
(* printpathn, at the limit and around it.                                 *)
EllipsisExact ==
    /\ quoted.op = "printpathn" =>
          (Last(quoted.out) # QUOTE <=> Len(quoted.str) > quoted.n)
    /\ quoted.op = "printstr" =>
          (Last(quoted.out) # QUOTE <=> Len(quoted.str) > Limit)

(* A path printed whole, without -x, names the same file when ALICE has    *)
(* read it back, unless it has a comma in it or a byte beyond ASCII.       *)
PathReadBack ==
    quoted.op = "printpathn" /\ quoted.x = 0 /\ Len(quoted.str) <= quoted.n =>
        LET field == FirstField(quoted.out)
            whole == field = quoted.out     \* or its quote is not closed, and eval raises
        IN  (whole /\ encoded(evaluated(field)) = quoted.str)
            <=> \A i \in 1..Len(quoted.str) : quoted.str[i] < 128 /\ quoted.str[i] # COMMA

(* The rows of a dump have the bytes in order, each with its offset, and   *)
(* nothing after the last.                                                 *)
DumpRows ==
    quoted.op = "dumpstr" =>
        /\ SelectSeq(FlattenSeq([k \in 1..Len(quoted.out) |-> quoted.out[k].hex]), LAMBDA c : c # -1) = quoted.str
        /\ \A k \in 1..Len(quoted.out) : quoted.out[k].hex[1] = quoted.str[quoted.out[k].at + 1]

(* -e read and -e write dump the bytes of every transfer that was asked    *)
(* for, and only those: what was read, and what was to be written (more    *)
(* than that if less was).  Of readv the buffers are dumped whole, however *)
(* little was read.  The writes on a descriptor of which the reads are     *)
(* asked for too are not dumped.                                           *)
DumpedAsAsked ==
    quoted.op = "dumpio" =>
        LET c     == quoted.c
            bytes == SelectSeq(FlattenSeq([k \in 1..Len(quoted.out) |->
                                   IF "hex" \in DOMAIN quoted.out[k] THEN quoted.out[k].hex ELSE <<>>]),
                               LAMBDA b : b # -1)
            asked == /\ ~c.failed /\ c.known
                     /\ \/ c.call \in readers /\ "READ" \in c.quals
                        \/ c.call \in writers /\ c.quals = {"WRITE"}
        IN  bytes = IF ~asked THEN <<>>
                    ELSE CASE c.call = "read" -> SubSeq(c.bufs[1], 1, c.u_rval)
                           [] c.call = "write" -> c.bufs[1]
                           [] OTHER -> c.bufs[1] \o c.bufs[2]

(* Strings, paths and dumps in a trace stand for the bytes of the program, *)
(* whole where they are said to be whole, and those that were asked for.   *)
StringsExact == QuoteInverse /\ EllipsisExact /\ PathReadBack /\ DumpRows /\ DumpedAsAsked
=============================================================================
