------------------------------ MODULE TraceLog ------------------------------
(***************************************************************************)
(* What the log of a traced task promises, whatever the tracer does to     *)
(* keep it.  Something happens to a task: it makes a call, gets a signal,  *)
(* dies.  The task is then held until that has been told in its log, so    *)
(* the log never misses an event, never invents one and never tells two in *)
(* the wrong order; only a death, which needs no permission, can overtake  *)
(* an event that has not been told.  Once recording ends nothing more is   *)
(* owed.                                                                   *)
(***************************************************************************)
EXTENDS Naturals, Sequences

CONSTANTS Tasks, None       \* None: no event

VARIABLES told,        \* per task, the events in its log
          due,         \* per task, the event it is held for
          recording

Deaths == {"killed", "exited"}

Keeps(p)    == told'[p] = told[p]

(* An event later than all that was told. *)
Happens(p) ==
    /\ due[p] = None /\ due'[p].k \in {"call", "sig"}
    /\ told[p] # <<>> => due'[p].n > told[p][Len(told[p])].n
    /\ Keeps(p)
Tells(p) ==
    /\ due[p] # None /\ due'[p] = None
    /\ told'[p] = Append(told[p], due[p])
Dies(p) ==
    /\ due[p].k \notin Deaths /\ due'[p].k \in Deaths
    /\ due'[p].n > due[p].n
    /\ Keeps(p)
(* A leader that died because a thread executes: its pid lives on. *)
Vanishes(p) ==
    /\ due[p].k = "exited" /\ due'[p] = None
    /\ Keeps(p)
Stays(p)    == due'[p] = due[p] /\ Keeps(p)
Forgets(p)  == ~recording' /\ due'[p] \in {None, due[p]} /\ Keeps(p)

Init == /\ told = [p \in Tasks |-> <<>>]
        /\ due = [p \in Tasks |-> None]
        /\ recording = TRUE
Next == /\ recording' => recording
        /\ \A p \in Tasks : Happens(p) \/ Tells(p) \/ Dies(p) \/ Vanishes(p) \/ Stays(p) \/ Forgets(p)

Spec == Init /\ [][Next]_<<told, due, recording>>
=============================================================================
