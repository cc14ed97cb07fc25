--------------------------- MODULE SerialExecutor ---------------------------
(***************************************************************************)
(* What an event loop promises to the threads that hand it functors: one   *)
(* thread executes them, each one once, in the order in which they were    *)
(* accepted, save those the loop's own code executes at once; a functor    *)
(* that asks the executor to stop closes it only when everything accepted  *)
(* before it has been executed.  EventLoop implements this module.         *)
(***************************************************************************)
EXTENDS Sequences

CONSTANTS Tasks,      \* the functors handed to the executor, each one once
          StopTasks   \* those among them that ask the executor to stop

VARIABLES todo,    \* functors accepted and not yet executed, oldest first
          ran,     \* functors executed, in order of execution
          open     \* FALSE once the executor has stopped

execVars == <<todo, ran, open>>

Elements(s) == {s[i] : i \in DOMAIN s}

ExecInit ==
    /\ todo = <<>>
    /\ ran = <<>>
    /\ open = TRUE

Unseen(k) == k \notin Elements(todo) \cup Elements(ran)

\* A functor is accepted, also by an executor that has stopped.
Accept(k) ==
    /\ Unseen(k)
    /\ todo' = Append(todo, k)
    /\ UNCHANGED <<ran, open>>

\* The oldest accepted functor is executed.
Execute ==
    /\ open
    /\ todo # <<>>
    /\ ran' = Append(ran, Head(todo))
    /\ todo' = Tail(todo)
    /\ UNCHANGED open

\* The executor's own thread executes a functor without accepting it first.
ExecuteAtOnce(k) ==
    /\ open
    /\ Unseen(k)
    /\ ran' = Append(ran, k)
    /\ UNCHANGED <<todo, open>>

Close ==
    /\ open
    /\ Elements(ran) \cap StopTasks # {}
    /\ open' = FALSE
    /\ UNCHANGED <<todo, ran>>

ExecNext ==
    \/ \E k \in Tasks : Accept(k) \/ ExecuteAtOnce(k)
    \/ Execute
    \/ Close

ExecSpec == ExecInit /\ [][ExecNext]_execVars
=============================================================================
