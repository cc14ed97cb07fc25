------------------------------ MODULE Deadlines ------------------------------
(* What a timer wheel promises: a timer runs at its deadline, not a tick    *)
(* earlier and not a tick later, unless it is cancelled, put off or         *)
(* replaced before; and it runs once.                                       *)
EXTENDS Naturals

CONSTANTS Ids,
          MaxDelay

NoDeadline == 0

VARIABLES now,      \* ticks so far
          deadline, \* each timer's tick, NoDeadline without a timer
          ran       \* at which tick each timer ran last

Init ==
    /\ now = 0
    /\ deadline = [i \in Ids |-> NoDeadline]
    /\ ran = [i \in Ids |-> 0]

\* A tick comes only after everything due before it has run.
Tick ==
    /\ \A i \in Ids : deadline[i] # NoDeadline => deadline[i] > now
    /\ now' = now + 1
    /\ UNCHANGED <<deadline, ran>>

\* A new timer, a replaced one, and one that is put off.
Set(i) ==
    /\ \E delay \in 1..MaxDelay : deadline' = [deadline EXCEPT ![i] = now + delay]
    /\ UNCHANGED <<now, ran>>

Cancel(i) ==
    /\ deadline' = [deadline EXCEPT ![i] = NoDeadline]
    /\ UNCHANGED <<now, ran>>

\* A timer runs, and is forgotten before its task is called.
Run(i) ==
    /\ deadline[i] = now
    /\ deadline[i] # NoDeadline
    /\ deadline' = [deadline EXCEPT ![i] = NoDeadline]
    /\ ran' = [ran EXCEPT ![i] = now]
    /\ UNCHANGED now

Next == Tick \/ \E i \in Ids : Set(i) \/ Cancel(i) \/ Run(i)

DeadlineSpec == Init /\ [][Next]_<<now, deadline, ran>>
=============================================================================
