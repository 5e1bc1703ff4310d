---------------------------- MODULE AtomicFiles ----------------------------
(***************************************************************************)
(* What a commit of several files promises, stated without journals or     *)
(* temporary files: the files of `tree` change together, in one step, and  *)
(* only when each of them still holds what the update was staged against.  *)
(* Somebody else may edit any file between two steps; `edits` counts those *)
(* edits, so a step that does not count one is a step of the program.      *)
(***************************************************************************)
EXTENDS Naturals

CONSTANTS Names,    \* the files
          Contents  \* what a file can hold

VARIABLES tree,     \* what a reader who knows of the commit sees
          snapshot, \* what the update in progress was staged against
          edits

vars == <<tree, snapshot, edits>>

Init ==
    /\ tree \in [Names -> Contents]
    /\ snapshot = tree
    /\ edits = 0

Stage ==
    /\ \E F \in SUBSET Names :
          snapshot' = [f \in Names |-> IF f \in F THEN tree[f] ELSE snapshot[f]]
    /\ UNCHANGED <<tree, edits>>

Commit ==
    /\ \E F \in SUBSET Names, c \in Contents :
          /\ \A f \in F : tree[f] = snapshot[f]
          /\ tree' = [f \in Names |-> IF f \in F THEN c ELSE tree[f]]
    /\ UNCHANGED <<snapshot, edits>>

Edit ==
    /\ edits' = edits + 1
    /\ tree' \in [Names -> Contents]
    /\ UNCHANGED snapshot

Next == Stage \/ Commit \/ Edit

Spec == Init /\ [][Next]_vars

=============================================================================
