--------------------------- MODULE MCLuaInstances ---------------------------
(***************************************************************************)
(* LuaInstances, and with it DataFiles, on small instances.  The bounds    *)
(* are spent on updates or on scripts: either no request comes, and the    *)
(* file that is not downloaded is missing; or nothing fails, one thread at *)
(* a time updates, and it is there.                                        *)
(***************************************************************************)
EXTENDS LuaInstances

\* Of three data files the second needs the first, and the third is made of a file
\* that is not downloaded; set-up can do without it.
ThreeMadeOf == <<{1}, {2}, {3}>>
ThreeUses == <<{}, {1}, {}>>

NoRequests == requests = MaxRequests /\ \A t \in Chats : step[t] = "done"
NoFailures == faults = MaxFaults /\ stops = MaxStops
KeptThere == \A s \in Kept : raw[s] = "whole"
Unused == {u \in Updaters : pc[u] = "unused"}

MCInit ==
    /\ Init /\ LuaInit
    /\ \/ NoRequests /\ ~NoFailures /\ Unused = {} /\ ~KeptThere
       \/ NoFailures /\ ~NoRequests /\ Unused = Updaters \ {First} /\ KeptThere

MCSpec == MCInit /\ [][LuaNext]_allVars /\ LuaFairness
=============================================================================
