------------------------------- MODULE Counts -------------------------------
(***************************************************************************)
(* The option -c: the time arithmetic of util.c (tv_add, tv_sub, tv_mul,   *)
(* tv_div), and count.c, which charges every call with a time and prints   *)
(* the summary.                                                            *)
(***************************************************************************)
EXTENDS Integers, Sequences, FiniteSets, SequencesExt

CONSTANTS Million,      \* 1000000: microseconds in a second
          Seconds,      \* the seconds of the time stamps of an instance
          DTimes,       \* the system times of a call
          Overheads,    \* the values of -O; -1 if it is not given
          MaxCounted    \* bound: calls counted

ASSUME CountsAssumption ==
    /\ Million \in Nat \ {0} /\ Seconds \subseteq Nat /\ MaxCounted \in Nat
    /\ \A d \in DTimes : d.sec \in Nat /\ d.usec \in 0..Million - 1
    /\ Overheads \subseteq Nat \cup {-1}

VARIABLE tally

(* Division as C does it. *)
CDiv(a, b) == IF a >= 0 THEN a \div b ELSE -((-a) \div b)
CMod(a, b) == a - b * CDiv(a, b)

tv(s, u)   == [sec |-> s, usec |-> u]
Usecs(t)   == t.sec * Million + t.usec
tv_nz(a)   == a.sec # 0 \/ a.usec # 0
tv_cmp(a, b) ==
    IF a.sec < b.sec \/ (a.sec = b.sec /\ a.usec < b.usec) THEN -1
    ELSE IF a = b THEN 0 ELSE 1
tv_add(a, b) ==
    LET u == a.usec + b.usec
    IN  IF u >= Million THEN tv(a.sec + b.sec + 1, u - Million) ELSE tv(a.sec + b.sec, u)
tv_sub_borrowless(a, b) == tv(a.sec - b.sec, a.usec - b.usec)     \* Mutant
tv_sub(a, b) ==
    LET u == a.usec - b.usec
    IN  IF u < 0 THEN tv(a.sec - b.sec - 1, u + Million) ELSE tv(a.sec - b.sec, u)
tv_div(a, n) ==
    LET u == CDiv(CMod(a.sec, n) * Million + a.usec + n \div 2, n)
    IN  tv(CDiv(a.sec, n) + CDiv(u, Million), CMod(u, Million))
tv_mul(a, n) ==
    LET u == a.usec * n
    IN  tv(a.sec * n + u \div Million, u % Million)

-----------------------------------------------------------------------------
personalities == 0..1
scnos == 1..2                    \* the calls in range
NoCounts == [calls |-> 0, errors |-> 0, time |-> tv(0, 0)]

(* What a call is charged: its system time if it is known and less than    *)
(* the wall-clock time; of a call without one at most the shortest time    *)
(* seen or a tick.                                                         *)
charged(wall, dtime, shortest, one_tick) ==
    IF tv_cmp(wall, dtime) <= 0 THEN wall
    ELSE IF tv_nz(dtime) THEN dtime
    ELSE IF tv_cmp(wall, one_tick) > 0
    THEN IF tv_cmp(shortest, one_tick) < 0 THEN shortest ELSE one_tick
    ELSE wall

(* On exit from a call entered at etime.  walls is not in the code: the    *)
(* wall-clock time of all calls of the same number.                        *)
count_syscall(pers, scno, failed, etime, now, dtime) ==
    LET wall == tv_sub(now, etime)
        time == charged(wall, dtime, tally.shortest, tally.one_tick)
    IN  /\ tally.pc = "count" /\ tally.n < MaxCounted
        /\ tally' =
              IF scno \notin scnos THEN [tally EXCEPT !.n = @ + 1]
              ELSE [tally EXCEPT
                      !.n = @ + 1,
                      !.counted = @ \cup {pers},
                      !.counts[pers][scno].calls = @ + 1,
                      !.counts[pers][scno].errors = @ + (IF failed THEN 1 ELSE 0),
                      !.counts[pers][scno].time = tv_add(@, time),
                      !.shortest = IF tv_cmp(time, @) < 0 THEN time ELSE @,
                      !.walls[pers][scno] = @ + (Usecs(now) - Usecs(etime)),
                      !.back = @ \/ tv_cmp(now, etime) < 0]

-----------------------------------------------------------------------------
set_overhead(n) == IF n = -1 THEN tv(-1, -1) ELSE tv(n \div Million, n % Million)

(* Mutant: not rounded down to eight tenths. *)
overhead_full(given, shortest) == IF given.sec = -1 THEN tv_mul(shortest, 8) ELSE given
overhead(given, shortest) ==
    IF given.sec = -1 THEN tv_div(tv_mul(shortest, 8), 10) ELSE given

(* Negative if a comes first. *)
time_cmp_ascending(cc, a, b) == tv_cmp(cc[a].time, cc[b].time)     \* Mutant
time_cmp(cc, a, b)  == -tv_cmp(cc[a].time, cc[b].time)
count_cmp(cc, a, b) == IF cc[a].calls < cc[b].calls THEN 1 ELSE IF cc[a].calls > cc[b].calls THEN -1 ELSE 0
syscall_cmp(a, b)   == a - b
set_sortby(by, cc, a, b) ==
    CASE by = "time" -> time_cmp(cc, a, b)
      [] by = "calls" -> count_cmp(cc, a, b)
      [] by = "name" -> syscall_cmp(a, b)
      [] by = "nothing" -> 0
(* qsort: the orders it may leave; none without a comparison. *)
Orders(by, cc) ==
    LET orders == {s \in [1..Cardinality(scnos) -> scnos] : \A i, j \in 1..Len(s) : s[i] = s[j] => i = j}
    IN  IF by = "nothing" THEN {s \in orders : \A i \in 1..Len(s) : s[i] = i}
        ELSE {s \in orders : \A i \in 1..Len(s) - 1 : set_sortby(by, cc, s[i], s[i + 1]) <= 0}

(* The overhead of the tracer is taken off every call.  The overhead is    *)
(* worked out once, for all personalities.                                 *)
call_summary_pers(pers) ==
    LET over == overhead(tally.overhead, tally.shortest)
        used == {s \in scnos : tally.counts[pers][s].calls > 0}
        less(c) == IF c.calls = 0 THEN c ELSE [c EXCEPT !.time = tv_sub(@, tv_mul(over, c.calls))]
        cc   == [s \in scnos |-> less(tally.counts[pers][s])]
        cum  == FoldLeft(LAMBDA acc, s : IF s \in used THEN tv_add(acc, cc[s].time) ELSE acc,
                         tv(0, 0), [i \in 1..Cardinality(scnos) |-> i])
    IN  \E order \in Orders(tally.sortby, cc) :
          LET rows == SelectSeq(order, LAMBDA s : s \in used)
          IN  tally' = [tally EXCEPT
                !.overhead = over,
                !.counts[pers] = cc,
                !.printed = Append(@, [pers |-> pers, total |-> cum,
                    rows |-> [i \in 1..Len(rows) |->
                        [scno |-> rows[i], calls |-> cc[rows[i]].calls, time |-> cc[rows[i]].time,
                         percall |-> Usecs(tv_div(cc[rows[i]].time, cc[rows[i]].calls))]]]),
                !.todo = @ \ {pers}]

(* The personalities that counted anything, in order; the personality of   *)
(* the tracer is set for each and put back.                                *)
call_summary_start == /\ tally.pc = "count"
                      /\ tally' = [tally EXCEPT !.pc = "summary", !.todo = tally.counted]
call_summary ==
    /\ tally.pc = "summary" /\ tally.todo # {}
    /\ call_summary_pers(CHOOSE p \in tally.todo : \A q \in tally.todo : p <= q)

-----------------------------------------------------------------------------
NoTally == tally = [pc |-> "none"]
CountsInit ==
    \E by \in {"time", "calls", "name", "nothing"}, o \in Overheads, tick \in 0..1 :
        tally = [pc |-> "count", n |-> 0, sortby |-> by, overhead |-> set_overhead(o), given |-> o,
                 one_tick |-> tv(0, tick), shortest |-> tv(Million, 0), counted |-> {},
                 counts |-> [p \in personalities |-> [s \in scnos |-> NoCounts]],
                 walls |-> [p \in personalities |-> [s \in scnos |-> 0]],
                 back |-> FALSE, todo |-> {}, printed |-> <<>>]

Stamps == {tv(s, u) : s \in Seconds, u \in 0..Million - 1}
CountsNext ==
    \/ /\ tally.pc = "count"
       /\ \E pers \in personalities, scno \in scnos \cup {0}, failed \in BOOLEAN,
             etime \in {tv(0, 0), tv(0, Million - 1)}, now \in Stamps, dtime \in DTimes :
             count_syscall(pers, scno, failed, etime, now, dtime)
    \/ call_summary_start
    \/ call_summary

CountsSpec == CountsInit /\ [][CountsNext]_tally

-----------------------------------------------------------------------------
TableRows == {<<i, j>> \in (1..2) \X (1..2) :
            i <= Len(tally.printed) /\ j <= Len(tally.printed[i].rows)}
Row(x) == tally.printed[x[1]].rows[x[2]]

(* A call is never charged more than the time that went by during it; so   *)
(* neither are all the calls of a number, whatever carries and borrows it  *)
(* took to add them up.                                                    *)
ChargedAtMostWall ==
    tally.pc = "count" /\ ~tally.back =>
        \A p \in personalities, s \in scnos :
            LET t == tally.counts[p][s].time
            IN  t.usec \in 0..Million - 1 /\ 0 <= Usecs(t) /\ Usecs(t) <= tally.walls[p][s]

(* With the overhead the tracer works out itself, no call of a summary has *)
(* a negative time, for however short a time the shortest one was          *)
(* measured; provided the clock was not set back during a call.            *)
SummaryNotNegative ==
    tally.pc = "summary" /\ ~tally.back /\ tally.given = -1 =>
        \A x \in TableRows : Usecs(Row(x).time) >= 0

(* The rows of a summary add up to its total, each with the rounded time   *)
(* of one call, in the order that was asked for.                           *)
SummaryAddsUp ==
    tally.pc = "summary" =>
        \A i \in 1..Len(tally.printed) :
            LET rows == tally.printed[i].rows
                before(a, b) == CASE tally.sortby = "time" -> Usecs(a.time) >= Usecs(b.time)
                                  [] tally.sortby = "calls" -> a.calls >= b.calls
                                  [] OTHER -> a.scno < b.scno
            IN  /\ FoldLeft(LAMBDA acc, r : acc + Usecs(r.time), 0, rows) = Usecs(tally.printed[i].total)
                /\ \A j \in 1..Len(rows) - 1 : before(rows[j], rows[j + 1])
                /\ \A j \in 1..Len(rows) : LET r == rows[j] IN Usecs(r.time) >= 0 =>
                      2 * r.percall * r.calls \in 2 * Usecs(r.time) - r.calls..2 * Usecs(r.time) + r.calls

(* The times of -c: no more than went by, none negative, adding up to the  *)
(* total that is printed.                                                  *)
SummarySound == ChargedAtMostWall /\ SummaryNotNegative /\ SummaryAddsUp
=============================================================================
