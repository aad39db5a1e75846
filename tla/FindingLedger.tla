---------------------------- MODULE FindingLedger ----------------------------
(* What the Learner promises about the findings it is given in one life of its    *)
(* process, whatever the queue, the retries and the failing writes do: a finding  *)
(* is taken from the journal at most once, and leaves the Learner's custody only  *)
(* when its key is settled in the memory, when another finding of its key stays   *)
(* in custody, or when it is lost to an error; what is settled or lost stays so.  *)
(* Only a restart of the host wipes the ledger.                                  *)
CONSTANT KeyOf(_)  \* a finding's key

VARIABLES
  taken,    \* findings taken from the journal
  custody,  \* findings the Learner has still to deal with
  settled,  \* keys filed
  lost      \* findings lost to an error

vars == <<taken, custody, settled, lost>>

Init == taken = {} /\ custody = {} /\ settled = {} /\ lost = {}

\* The tail of the journal: no finding of it was taken before.
Take == /\ taken \subseteq taken'
        /\ custody' = custody \cup (taken' \ taken)
        /\ UNCHANGED <<settled, lost>>

Settle(f) == /\ custody' = custody \ {f}
             /\ settled' = settled \cup {KeyOf(f)}
             /\ UNCHANGED <<taken, lost>>

\* The key is settled already, or another finding of it is still in custody.
Supersede(f) == /\ custody' = custody \ {f}
                /\ KeyOf(f) \in settled \cup {KeyOf(g) : g \in custody'}
                /\ UNCHANGED <<taken, settled, lost>>

\* One finding, or all of a tail whose extraction failed.
Lose == /\ custody' \subseteq custody
        /\ lost' = lost \cup (custody \ custody')
        /\ UNCHANGED <<taken, settled>>

Wipe == taken' = {} /\ custody' = {} /\ settled' = {} /\ lost' = {}

Next == \/ Take \/ Lose \/ Wipe
        \/ \E f \in custody : Settle(f) \/ Supersede(f)

Spec == Init /\ [][Next]_vars
=============================================================================
