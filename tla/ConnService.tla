----------------------------- MODULE ConnService -----------------------------
(***************************************************************************)
(* What a connection thread promises to the threads that put requests on   *)
(* its channel (the ConnChanType that mkconnthing returns): requests are   *)
(* taken in the order they were put, each is answered exactly once, by its *)
(* own answer or by an error, before the next one is taken, and the game   *)
(* server executes each at most once.  An answered request was executed    *)
(* before it was answered.  One that failed may be executed late or never. *)
(***************************************************************************)
EXTENDS Sequences

CONSTANT Requests

VARIABLES
    queue,     \* requests put and not yet answered
    executed,  \* requests in the order the game server executed them
    answer     \* request |-> what was put in its MVar

svcVars == <<queue, executed, answer>>

Put(s) == {s[i] : i \in DOMAIN s}

Init ==
    /\ queue = <<>>
    /\ executed = <<>>
    /\ answer = [r \in Requests |-> "none"]

Submit(r) ==
    /\ r \notin Put(queue) /\ answer[r] = "none"
    /\ queue' = Append(queue, r)
    /\ UNCHANGED <<executed, answer>>

Execute(r) ==
    /\ r \notin Put(executed)
    /\ answer[r] = "error" \/ (queue # <<>> /\ r = Head(queue))
    /\ executed' = Append(executed, r)
    /\ UNCHANGED <<queue, answer>>

Answer(r) ==
    /\ queue # <<>> /\ r = Head(queue)
    /\ \/ r \in Put(executed) /\ answer' = [answer EXCEPT ![r] = "ok"]
       \/ answer' = [answer EXCEPT ![r] = "error"]
    /\ queue' = Tail(queue)
    /\ UNCHANGED executed

Next == \E r \in Requests : Submit(r) \/ Execute(r) \/ Answer(r)

Spec == Init /\ [][Next]_svcVars

=============================================================================
