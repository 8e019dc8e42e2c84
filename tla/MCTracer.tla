------------------------------ MODULE MCTracer ------------------------------
(***************************************************************************)
(* The tracer on small instances: a command that makes three calls, one    *)
(* that is sent a signal, one whose tracer is interrupted; two threads     *)
(* attached to with -p, and two that are sent two signals (a stop and a    *)
(* continuation, say) while the tracer may be interrupted; and two that    *)
(* start a third thread.  A call may start the second thread or a process, *)
(* execute a program or exit.                                              *)
(***************************************************************************)
EXTENDS Tracer

Mode(l, i, t, c, s) ==
    [launch |-> l, interactive |-> i, third |-> FALSE, threads |-> t, calls |-> c, signals |-> s]
MCModes == {Mode(TRUE, FALSE, 1, 3, 0), Mode(TRUE, FALSE, 1, 2, 1), Mode(TRUE, TRUE, 1, 2, 0),
            Mode(FALSE, FALSE, 2, 1, 0), Mode(FALSE, TRUE, 2, 0, 2),
            [Mode(FALSE, FALSE, 2, 1, 0) EXCEPT !.third = TRUE]}
=============================================================================
