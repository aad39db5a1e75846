--------------------------- MODULE PassContract ---------------------------
(* What the Learner promises about its learning passes, without the threads *)
(* and locks that keep the promise: passes are exclusive, the memory scope   *)
(* never moves while one runs, and the audit log is emptied only by the end   *)
(* of a pass.                                                               *)
CONSTANT Scopes

VARIABLES running,  \* is a pass in progress?
          scope,    \* the memory scope new findings are filed under
          log       \* ids of the transitions not yet reported

contractVars == <<running, scope, log>>

Init == /\ running = FALSE
        /\ scope \in Scopes
        /\ log = {}

Begin == /\ ~running
         /\ running' = TRUE
         /\ UNCHANGED <<scope, log>>

\* A pass files, sweeps and merges; a step may log more transitions, drops none.
Work == /\ running
        /\ log \subseteq log'
        /\ UNCHANGED <<running, scope>>

End == /\ running
       /\ running' = FALSE
       /\ log' = {}
       /\ UNCHANGED scope

Rescope == /\ ~running
           /\ scope' \in Scopes
           /\ UNCHANGED <<running, log>>

\* A restore is logged between two passes, never under a running one.
NoteRestore == /\ ~running
               /\ \E id \in log' : id \notin log /\ log' = log \cup {id}
               /\ UNCHANGED <<running, scope>>

Next == Begin \/ Work \/ End \/ Rescope \/ NoteRestore

Spec == Init /\ [][Next]_contractVars
===========================================================================
