---------------------------- MODULE RequestReply ----------------------------
(***************************************************************************)
(* What a connection promises its callers: every call has a request of its *)
(* own, the server gets a request at most once, a call returns "ok" only   *)
(* when the server has its own request, and "send_failed" only when it     *)
(* does not and never will.  A call may time out whatever became of it.    *)
(***************************************************************************)
CONSTANTS Callers, Ids, NoRequest

VARIABLES
    busy,     \* callers inside a call
    current,  \* the request each of them has made, or NoRequest
    outcome,  \* what each caller's last call returned, "none" during a call
    issued,   \* requests made so far
    open,     \* requests on their way to the server
    served    \* requests the server has received

vars == <<busy, current, outcome, issued, open, served>>

Init ==
    /\ busy = {}
    /\ current = [c \in Callers |-> NoRequest]
    /\ outcome = [c \in Callers |-> "none"]
    /\ issued = {}
    /\ open = {}
    /\ served = {}

Call(c) ==
    /\ c \notin busy
    /\ busy' = busy \cup {c}
    /\ outcome' = [outcome EXCEPT ![c] = "none"]
    /\ UNCHANGED <<current, issued, open, served>>

Return(c, o) ==
    /\ busy' = busy \ {c}
    /\ current' = [current EXCEPT ![c] = NoRequest]
    /\ outcome' = [outcome EXCEPT ![c] = o]
    /\ UNCHANGED <<issued, open, served>>

(* No request is made: the connection is down, or too many are pending. *)
Refuse(c) ==
    /\ current[c] = NoRequest
    /\ Return(c, "not_connected") \/ Return(c, "exceeded")

Issue(c, i) ==
    /\ c \in busy
    /\ current[c] = NoRequest
    /\ i \notin issued
    /\ current' = [current EXCEPT ![c] = i]
    /\ issued' = issued \cup {i}
    /\ open' = open \cup {i}
    /\ UNCHANGED <<busy, outcome, served>>

Serve(i) ==
    /\ i \in open
    /\ open' = open \ {i}
    /\ served' = served \cup {i}
    /\ UNCHANGED <<busy, current, outcome, issued>>

Lose(requests) ==
    /\ open' = open \ requests
    /\ UNCHANGED <<busy, current, outcome, issued, served>>

Answer(c) ==
    /\ current[c] \in served
    /\ Return(c, "ok")

FailToSend(c) ==
    /\ current[c] # NoRequest
    /\ current[c] \notin open \cup served
    /\ Return(c, "send_failed")

GiveUp(c) ==
    /\ current[c] # NoRequest
    /\ Return(c, "timeout")

Next ==
    \/ \E c \in Callers : Call(c) \/ Refuse(c) \/ Answer(c) \/ FailToSend(c) \/ GiveUp(c)
    \/ \E c \in Callers, i \in Ids : Issue(c, i)
    \/ \E i \in Ids : Serve(i)
    \/ \E requests \in SUBSET open : Lose(requests)

Spec == Init /\ [][Next]_vars

(* No two calls share a request, and one that the server has is not on its way again. *)
Exclusive ==
    /\ \A c, d \in Callers : c # d /\ current[c] = current[d] => current[c] = NoRequest
    /\ open \cap served = {}
=============================================================================
