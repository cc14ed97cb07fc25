--------------------------- MODULE AtMostOnceCall ---------------------------
(***************************************************************************)
(* What the client's Requestor and the server's router promise together:   *)
(* a call is executed at most once, it completes at most once, and what it *)
(* completes with is what its own execution produced.  A call may also be  *)
(* executed and never complete, or never be executed.                      *)
(***************************************************************************)
EXTENDS Sequences

CONSTANTS Calls,     \* the calls, each with an identifier of its own
          Kinds,     \* what an execution may produce
          Reported   \* what the client accepts as the answer to a call

VARIABLES called,    \* the calls made so far
          executed,  \* what the executions of each call produced
          outcome    \* what each call was completed with

callVars == <<called, executed, outcome>>

CallInit ==
    /\ called = {}
    /\ executed = [c \in Calls |-> <<>>]
    /\ outcome = [c \in Calls |-> <<>>]

Invoke(c) ==
    /\ c \notin called
    /\ called' = called \cup {c}
    /\ UNCHANGED <<executed, outcome>>

Perform(c, k) ==
    /\ c \in called
    /\ executed[c] = <<>>
    /\ executed' = [executed EXCEPT ![c] = <<k>>]
    /\ UNCHANGED <<called, outcome>>

Complete(c) ==
    /\ \E k \in Reported : executed[c] = <<k>>
    /\ outcome[c] = <<>>
    /\ outcome' = [outcome EXCEPT ![c] = executed[c]]
    /\ UNCHANGED <<called, executed>>

CallNext ==
    \E c \in Calls :
        \/ Invoke(c)
        \/ \E k \in Kinds : Perform(c, k)
        \/ Complete(c)

CallSpec == CallInit /\ [][CallNext]_callVars
=============================================================================
