-------------------------------- MODULE Rounds --------------------------------
(* What the program promises its user, without threads: graphs are accepted    *)
(* one at a time, each of the two approximate solvers answers every accepted   *)
(* graph at most once, a separator closes a round only when both have          *)
(* answered it, and CNF-SAT-VC answers at most once per graph, possibly after  *)
(* its round is closed and even after the program is over.                     *)
EXTENDS Naturals

CONSTANT Approx          \* the solvers that always answer

VARIABLES accepted, answered, cnfAnswers, closed, over

vars == <<accepted, answered, cnfAnswers, closed, over>>

Init ==
    /\ accepted = 0 /\ closed = 0 /\ cnfAnswers = 0 /\ over = FALSE
    /\ answered = [w \in Approx |-> 0]

Accept ==
    /\ ~over /\ accepted = closed
    /\ accepted' = accepted + 1
    /\ UNCHANGED <<answered, cnfAnswers, closed, over>>

Answer(w) ==
    /\ ~over /\ answered[w] < accepted
    /\ answered' = [answered EXCEPT ![w] = @ + 1]
    /\ UNCHANGED <<accepted, cnfAnswers, closed, over>>

CnfAnswer ==
    /\ cnfAnswers < accepted
    /\ cnfAnswers' = cnfAnswers + 1
    /\ UNCHANGED <<accepted, answered, closed, over>>

Close ==
    /\ ~over /\ closed < accepted
    /\ \A w \in Approx : answered[w] = accepted
    /\ closed' = closed + 1
    /\ UNCHANGED <<accepted, answered, cnfAnswers, over>>

End == ~over /\ over' = TRUE /\ UNCHANGED <<accepted, answered, cnfAnswers, closed>>

Next == Accept \/ (\E w \in Approx : Answer(w)) \/ CnfAnswer \/ Close \/ End

Spec == Init /\ [][Next]_vars
===============================================================================
