---------------------------- MODULE ConflictOrder ---------------------------
(***************************************************************************)
(* What a transaction scheduler promises: transactions run in parallel,    *)
(* but of two that conflict the one submitted first runs first, to its     *)
(* end.  The outcome is then that of running them one by one in the order  *)
(* of submission.                                                          *)
(***************************************************************************)
EXTENDS Integers, Sequences

CONSTANT Contexts          \* the lock contexts a transaction may have

VARIABLES
  tasks,                   \* lock contexts in the order of submission
  running,
  finished

vars == <<tasks, running, finished>>

Conflict(c, d) ==
  \E a \in DOMAIN c \cap DOMAIN d : c[a] = "Writable" \/ d[a] = "Writable"

Init == tasks = <<>> /\ running = {} /\ finished = {}

MayStart(t, all) ==
  t \notin running \cup finished /\ \A u \in 1 .. t - 1 : Conflict(all[u], all[t]) => u \in finished

Submit(c) ==
  /\ tasks' = Append(tasks, c)
  /\ \/ running' = running
     \/ MayStart(Len(tasks'), tasks') /\ running' = running \cup {Len(tasks')}
  /\ finished' = finished

Start(t) ==
  /\ MayStart(t, tasks)
  /\ running' = running \cup {t}
  /\ UNCHANGED <<tasks, finished>>

Finish(t) ==
  /\ t \in running
  /\ running' = running \ {t}
  /\ finished' = finished \cup {t}
  /\ tasks' = tasks

(* A new block starts with nothing left over from the one before.          *)
NewBlock ==
  /\ finished = DOMAIN tasks
  /\ tasks' = <<>> /\ finished' = {}
  /\ running' = running

Next ==
  \/ \E c \in Contexts : Submit(c)
  \/ \E t \in DOMAIN tasks : Start(t) \/ Finish(t)
  \/ NewBlock

Spec == Init /\ [][Next]_vars
=============================================================================
