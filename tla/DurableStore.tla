---------------------------- MODULE DurableStore ----------------------------
(***************************************************************************)
(* What a database promises to the program that commits to it: a commit    *)
(* that was reported as done is found whenever the program is started      *)
(* again, whole, and one that was under way is found whole or not at all.  *)
(***************************************************************************)
EXTENDS Naturals

CONSTANTS Pages, Values  \* what a page can hold, 0 at first

VARIABLES
    stored,   \* what the program would find if it were started now
    told,     \* what it has been told: by a start, or by a commit since
    pending,  \* contents that commits not reported as done would make
    sound     \* no known defect of the detailed log has occurred

vars == <<stored, told, pending, sound>>

Init ==
    /\ stored = [p \in Pages |-> 0] /\ told = stored
    /\ pending = {} /\ sound = TRUE

\* A transaction's changes become visible to a start all at once.
Write ==
    /\ told' = told
    /\ LET new == stored'
       IN  /\ pending' = pending \cup {new}
           /\ \E v \in Values : \A p \in Pages : new[p] \in {told[p], v}

Report == pending' = {} /\ told' = stored /\ UNCHANGED stored

\* A loss of power, or a later write, takes a commit back that was not reported.
Retract == UNCHANGED <<told, pending>> /\ stored' \in pending \cup {told}

\* A start finds what is stored; a loss of power may still take it back.
Restart ==
    /\ told' = stored
    /\ pending' = (pending \cup {told}) \ {stored}
    /\ UNCHANGED stored

Next == sound /\ (~sound' \/ (UNCHANGED sound /\ (Retract \/ Report \/ Write \/ Restart)))

Spec == Init /\ [][Next]_vars
=============================================================================
