-------------------------- MODULE EvaluationBudget --------------------------
(***************************************************************************)
(* What both private evaluation lifecycles of the repository promise,      *)
(* stated without locks, files or processes:                               *)
(*                                                                         *)
(*   - a subject (a sealed holdout corpus, or one candidate on one blind   *)
(*     epoch) has a budget of attempts;                                    *)
(*   - an attempt is reserved before protected bytes are opened, stays     *)
(*     reserved whatever happens to the attempt, and is never given back;  *)
(*   - a closed (contaminated) subject takes no new attempt and none of    *)
(*     its bytes are opened any more.                                      *)
(*                                                                         *)
(* Holdout refines this for any number of concurrent processes; Blind does *)
(* so only while its commands do not overlap (see MCBlindAttempts.cfg).    *)
(***************************************************************************)
EXTENDS Integers, Sequences, Functions

CONSTANTS
    Subjects,   \* what a budget is kept for
    Attempts,   \* run identities
    Budget      \* attempts a subject may spend

VARIABLES
    reserved,   \* per subject, its reservations in the order they were made
    opened,     \* the <<attempt, subject>> pairs whose protected bytes were read
    closed      \* subjects marked contaminated

vars == <<reserved, opened, closed>>

Init ==
    /\ reserved = [s \in Subjects |-> << >>]
    /\ opened = {}
    /\ closed = {}

Reserve(s, a) ==
    /\ s \notin closed
    /\ Len(reserved[s]) < Budget
    /\ reserved' = [reserved EXCEPT ![s] = Append(@, a)]
    /\ UNCHANGED <<opened, closed>>

Open(s, a) ==
    /\ s \notin closed
    /\ a \in Range(reserved[s])
    /\ opened' = opened \cup {<<a, s>>}
    /\ UNCHANGED <<reserved, closed>>

Close(s) ==
    /\ closed' = closed \cup {s}
    /\ UNCHANGED <<reserved, opened>>

Next ==
    \E s \in Subjects :
        \/ \E a \in Attempts : Reserve(s, a) \/ Open(s, a)
        \/ Close(s)

Spec == Init /\ [][Next]_vars

=============================================================================
