----------------------------- MODULE MCConnChan -----------------------------
(***************************************************************************)
(* ConnChan on small instances, and HttpStream: a behaviour is one of the  *)
(* connection thread, with the parts of answers as its steps, or one of    *)
(* the reading of one answer byte by byte.                                 *)
(***************************************************************************)
EXTENDS ConnChan, HttpStream

AnyResponse == [form |-> "none", fields |-> 1, body |-> <<>>, chunks |-> 0, ends |-> <<>>]

MCInit ==
    /\ Init /\ StreamInit
    /\ reading = "unused" => response = AnyResponse /\ sent /\ ~hangsUp
    /\ reading # "unused" => ~slow

MCNext ==
    \/ reading = "unused" /\ Next /\ UNCHANGED streamVars
    \/ StreamNext /\ UNCHANGED vars

MCSpec ==
    /\ MCInit /\ [][MCNext]_<<vars, streamVars>>
    /\ Fairness /\ WF_streamVars(ReadStep)

=============================================================================
