--------------------------- MODULE EffectContract ---------------------------
(***************************************************************************)
(* What the execution boundary promises about real effects, with no ledger, *)
(* worker or provider in sight: an effect takes place at most once, only    *)
(* while its task is held open for it, and the task is released only on a   *)
(* verdict that agrees with what happened.                                  *)
(***************************************************************************)
CONSTANTS
    Ids,        \* authorized executions
    TaskOfId,   \* the task an execution belongs to
    EffectOfId, \* the effect it would have
    Repeatable  \* effects a task may have more than once

VARIABLES
    phase,    \* "idle", "open" (may yet happen), "done", "void"
    happened  \* the executions whose effect took place

contractVars == <<phase, happened>>

ContractTypeOK ==
    /\ phase \in [Ids -> {"idle", "open", "done", "void"}]
    /\ happened \subseteq Ids

SameEffect(i, j) == TaskOfId[i] = TaskOfId[j] /\ EffectOfId[i] = EffectOfId[j]

Open(i) ==
    /\ phase[i] = "idle"
    /\ \A j \in Ids : TaskOfId[j] = TaskOfId[i] => phase[j] # "open"
    /\ EffectOfId[i] \notin Repeatable => \A j \in Ids : SameEffect(i, j) => phase[j] # "done"
    /\ phase' = [phase EXCEPT ![i] = "open"]
    /\ UNCHANGED happened

Happen(i) ==
    /\ phase[i] = "open" /\ i \notin happened
    /\ happened' = happened \cup {i}
    /\ UNCHANGED phase

Settle(i) ==
    /\ phase[i] = "open"
    /\ phase' = [phase EXCEPT ![i] = IF i \in happened THEN "done" ELSE "void"]
    /\ UNCHANGED happened

ContractInit == phase = [i \in Ids |-> "idle"] /\ happened = {}

ContractNext == \E i \in Ids : Open(i) \/ Happen(i) \/ Settle(i)

ContractSpec == ContractInit /\ [][ContractNext]_contractVars

-----------------------------------------------------------------------------
\* A verdict agrees with the world, and nothing happens unreserved.
VerdictsAreTrue ==
    \A i \in Ids : /\ phase[i] = "done" => i \in happened
                   /\ phase[i] \in {"idle", "void"} => i \notin happened

\* An effect that may not repeat happens at most once in its task.
HappensOnce ==
    \A i, j \in happened : SameEffect(i, j) /\ EffectOfId[i] \notin Repeatable => i = j
=============================================================================
