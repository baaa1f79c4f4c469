--------------------------- MODULE GuardedProcess ---------------------------
(***************************************************************************)
(* A pool of guarded plugin processes (GuardedProcessPool): each process   *)
(* is watched by a coroutine of the main thread that restarts it when it   *)
(* exits, and kills it when the pool is closed.  The pool is used by the   *)
(* service on the main thread, and by the tests on worker threads.         *)
(***************************************************************************)
EXTENDS Naturals

CONSTANTS Guards,      \* the processes of the pool
          MaxRestarts  \* bound: restarts of a process

ASSUME PoolAssumption == MaxRestarts \in Nat

VARIABLES user,     \* the thread of the pool's user: "main" or "worker"
          pool,     \* "open", or "closed" once close() has cancelled its job
          looper,   \* the coroutine of each guard
          process,  \* its process
          waiter,   \* its threads in waitFor that have an exit code to deliver
          fatal,    \* guards whose onFatal has been posted
          restarts  \* restarts of each process

vars == <<user, pool, looper, process, waiter, fatal, restarts>>

TypeOK ==
  /\ user \in {"main", "worker"} /\ pool \in {"open", "closed"}
  /\ looper \in [Guards -> {"none", "posted", "receiving", "resumed", "asked",
                            "killed", "ended", "dropped"}]
  /\ process \in [Guards -> {"none", "alive", "exited"}]
  /\ waiter \in [Guards -> 0..1]
  /\ fatal \subseteq Guards
  /\ restarts \in [Guards -> 0..MaxRestarts]

Init ==
  /\ user \in {"main", "worker"} /\ pool = "open" /\ fatal = {}
  /\ looper = [g \in Guards |-> "none"] /\ process = [g \in Guards |-> "none"]
  /\ waiter = [g \in Guards |-> 0] /\ restarts = [g \in Guards |-> 0]

Goto(g, pc) == looper' = [looper EXCEPT ![g] = pc]

\* start: spawns the process and launches its coroutine, which begins at once
\* on the main thread and is posted to it otherwise.  A spawn that fails
\* throws to the caller.
start(g) ==
  /\ pool = "open" /\ looper[g] = "none"
  /\ process' = [process EXCEPT ![g] = "alive"]
  /\ Goto(g, IF user = "main" THEN "receiving" ELSE "posted")
  /\ waiter' = [waiter EXCEPT ![g] = IF user = "main" THEN 1 ELSE 0]
  /\ UNCHANGED <<user, pool, fatal, restarts>>

\* The main thread comes to a posted coroutine; one whose job is cancelled
\* does not execute its body.
Dispatch(g) ==
  /\ looper[g] = "posted"
  /\ IF pool = "closed"
     THEN Goto(g, "dropped") /\ UNCHANGED waiter
     ELSE Goto(g, "receiving") /\ waiter' = [waiter EXCEPT ![g] = @ + 1]
  /\ UNCHANGED <<user, pool, process, fatal, restarts>>

\* close, which the user of the pool calls whatever has happened before.
close ==
  /\ pool = "open" /\ pool' = "closed"
  /\ UNCHANGED <<user, looper, process, waiter, fatal, restarts>>

\* A process exits by itself, or obeys a request to.
Exit(g) ==
  /\ process[g] = "alive" /\ process' = [process EXCEPT ![g] = "exited"]
  /\ UNCHANGED <<user, pool, looper, waiter, fatal, restarts>>

\* The waiter hands the exit code to the coroutine, which is then resumed.
Receive(g) ==
  /\ looper[g] = "receiving" /\ process[g] = "exited" /\ waiter[g] > 0
  /\ waiter' = [waiter EXCEPT ![g] = @ - 1] /\ Goto(g, "resumed")
  /\ UNCHANGED <<user, pool, process, fatal, restarts>>

\* Mutant: a process that exits too fast is not reported.
GiveUpSilently(g) ==
  /\ looper[g] = "resumed" /\ pool = "open" /\ Goto(g, "ended")
  /\ UNCHANGED <<user, pool, process, waiter, fatal, restarts>>

\* The process exited within a second, or cannot be spawned again: the guard
\* ends, and posts onFatal.
GiveUp(g) ==
  /\ looper[g] = "resumed" /\ pool = "open"
  /\ fatal' = fatal \cup {g} /\ Goto(g, "ended")
  /\ UNCHANGED <<user, pool, process, waiter, restarts>>

Restart(g) ==
  /\ looper[g] = "resumed" /\ pool = "open" /\ restarts[g] < MaxRestarts
  /\ process' = [process EXCEPT ![g] = "alive"]
  /\ waiter' = [waiter EXCEPT ![g] = @ + 1]
  /\ restarts' = [restarts EXCEPT ![g] = @ + 1]
  /\ Goto(g, "receiving")
  /\ UNCHANGED <<user, pool, fatal>>

\* The finally block of a cancelled coroutine, which takes the process for
\* running also when its exit code was on the way: the process is asked to
\* end and its exit awaited for a while.
Ask(g) ==
  /\ looper[g] \in {"receiving", "resumed"} /\ pool = "closed"
  /\ Goto(g, "asked")
  /\ UNCHANGED <<user, pool, process, waiter, fatal, restarts>>

\* Mutant: after the timeout the guard waits without killing.
KillForgotten(g) ==
  /\ looper[g] = "asked" /\ Goto(g, "killed")
  /\ UNCHANGED <<user, pool, process, waiter, fatal, restarts>>

\* The wait timed out (before Android 7 a SIGTERM, from 8 on a destroy, came
\* first; the versions between destroy at once): kill.
Kill(g) ==
  /\ looper[g] = "asked" /\ Goto(g, "killed")
  /\ process' = [process EXCEPT ![g] = "exited"]
  /\ UNCHANGED <<user, pool, waiter, fatal, restarts>>

\* The exit code that ends the guard.
Reaped(g) ==
  /\ looper[g] \in {"asked", "killed"} /\ process[g] = "exited" /\ waiter[g] > 0
  /\ waiter' = [waiter EXCEPT ![g] = @ - 1] /\ Goto(g, "ended")
  /\ UNCHANGED <<user, pool, process, fatal, restarts>>

Loop(g) ==
  \/ Dispatch(g) \/ Receive(g) \/ GiveUp(g) \/ Restart(g)
  \/ Ask(g) \/ Kill(g) \/ Reaped(g)

Next == close \/ \E g \in Guards : start(g) \/ Exit(g) \/ Loop(g)

\* The coroutines run and their timers expire; no process has to exit, and
\* nobody has to close the pool.
Spec == Init /\ [][Next]_vars /\ \A g \in Guards : WF_vars(Loop(g))

-----------------------------------------------------------------------------

\* "clean-up cannot be cancelled" (GuardedProcessPool.kt:80): closing the pool
\* ends its processes, also one that ignores the request and one that is being
\* restarted at that moment.  The one exception is a coroutine that a worker
\* thread has posted and that close() overtakes: it never runs, and neither
\* does its clean-up.
CloseKills ==
  \A g \in Guards : pool = "closed" ~>
    process[g] # "alive" \/ (user = "worker" /\ looper[g] = "dropped")

\* A process that exits while the pool is open is restarted or reported.
ExitIsHandled ==
  \A g \in Guards : process[g] = "exited" ~>
    process[g] = "alive" \/ g \in fatal \/ pool = "closed"
=============================================================================
