----------------------------- MODULE IssueCounter -----------------------------
(***************************************************************************)
(* What create_issue_in_project promises: a project counts its issues.     *)
(* Creating one takes the next number, one at a time; a number that was    *)
(* given is never given again, also when its issue is removed.             *)
(***************************************************************************)
EXTENDS Naturals

VARIABLES
    sequence,  \* for every project, the last number given
    numbers    \* the numbers of its issues

counterVars == <<sequence, numbers>>

NumbersInRange ==
    /\ DOMAIN numbers = DOMAIN sequence
    /\ \A p \in DOMAIN sequence : sequence[p] \in Nat /\ numbers[p] \subseteq 1..sequence[p]

Init == NumbersInRange

CreateIssue(p) ==
    /\ sequence' = [sequence EXCEPT ![p] = @ + 1]
    /\ numbers' = [numbers EXCEPT ![p] = @ \cup {sequence[p] + 1}]

RemoveIssue(p) ==
    /\ \E n \in numbers[p] : numbers' = [numbers EXCEPT ![p] = @ \ {n}]
    /\ UNCHANGED sequence

CreateProject(p) ==
    /\ p \notin DOMAIN sequence
    /\ sequence' = [q \in DOMAIN sequence \cup {p} |-> IF q = p THEN 0 ELSE sequence[q]]
    /\ numbers' = [q \in DOMAIN sequence \cup {p} |-> IF q = p THEN {} ELSE numbers[q]]

RemoveProject(p) ==
    /\ sequence' = [q \in DOMAIN sequence \ {p} |-> sequence[q]]
    /\ numbers' = [q \in DOMAIN sequence \ {p} |-> numbers[q]]

Next ==
    \/ \E p \in DOMAIN sequence : CreateIssue(p) \/ RemoveIssue(p) \/ RemoveProject(p)
    \/ \E p \in DOMAIN sequence' \ DOMAIN sequence : CreateProject(p)

Spec == Init /\ [][Next]_counterVars

-----------------------------------------------------------------------------
(* While its project exists, an issue gets a number above all that were ever given in it, so *)
(* no identifier that somebody wrote down comes to mean another issue.                       *)
NeverGivenAgain ==
    [][\A p \in DOMAIN sequence \cap DOMAIN sequence' :
           \A n \in numbers'[p] \ numbers[p] : n > sequence[p]]_counterVars
=============================================================================
