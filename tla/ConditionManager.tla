-------------------------- MODULE ConditionManager --------------------------
(***************************************************************************)
(* The conditions of one status under every sequence of calls of the       *)
(* condition manager, on any of its dependents.  GitLabSourceStatus calls  *)
(* it through MarkSecrets, MarkNoSecrets, MarkSink and MarkNoSink.         *)
(***************************************************************************)
EXTENDS ConditionSet

\* With no dependents, a fresh status would have all of them True and the happy
\* condition absent; GitLabSource has two.
ASSUME DependentsAssumption == Dependents # {}

VARIABLE conds

TypeOK == conds \in Conditions

Init == conds = NoConditions

Initialize == conds' = InitializeConditions(conds)

SetTrue(t) == conds' = MarkTrue(conds, t)

SetUnknown(t) == conds' = MarkUnknown(conds, t)

SetFalse(t) == conds' = MarkFalse(conds, t)

Next ==
    \/ Initialize
    \/ \E t \in Dependents : SetTrue(t) \/ SetUnknown(t) \/ SetFalse(t)

Spec == Init /\ [][Next]_conds

-----------------------------------------------------------------------------

\* "MarkTrue ... marks the happy condition to true if all other dependents are
\* also true" (condition_set.go), and no later call leaves it True when a
\* dependent stopped being True: Ready and its dependents never disagree.
HappyIffAllTrue == IsHappy(conds) <=> \A d \in Dependents : conds[d] = "True"

\* "Failed conditions trump Unknown conditions": whatever is marked after it,
\* a failure of one dependent stays visible in the happy condition.
FailureIsVisible ==
    (\E d \in Dependents : conds[d] = "False") => conds[Happy] = "False"
=============================================================================
