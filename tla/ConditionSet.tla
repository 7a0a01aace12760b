---------------------------- MODULE ConditionSet ----------------------------
(***************************************************************************)
(* The living condition set of knative duck types (condition_set.go): what *)
(* each method of the condition manager does to the conditions of a        *)
(* status, given as a function from condition types to values.  Reasons,   *)
(* messages and times are left out; severities never change.               *)
(***************************************************************************)
CONSTANTS Dependents,   \* condition types the happy condition depends on
          Happy         \* the happy condition type, "Ready"

ASSUME HappyAssumption == Happy \notin Dependents

ConditionTypes == Dependents \cup {Happy}

\* "Absent" is a condition that the status does not list.
ConditionValues == {"Absent", "True", "False", "Unknown"}

Conditions == [ConditionTypes -> ConditionValues]

NoConditions == [t \in ConditionTypes |-> "Absent"]

IsHappy(c) == c[Happy] = "True"

InitializeConditions(c) ==
    [t \in ConditionTypes |-> IF c[t] = "Absent" THEN "Unknown" ELSE c[t]]

\* Mutant: the other dependents are not asked.
MarkTrueAlone(c, t) == [c EXCEPT ![t] = "True", ![Happy] = "True"]

\* The happy condition follows once no dependent differs from True.
MarkTrue(c, t) ==
    LET marked == [c EXCEPT ![t] = "True"]
    IN  IF \A d \in Dependents : marked[d] = "True"
        THEN [marked EXCEPT ![Happy] = "True"]
        ELSE marked

\* Mutant: failures of other dependents do not count.
MarkUnknownAlone(c, t) == [c EXCEPT ![t] = "Unknown", ![Happy] = "Unknown"]

\* A failed dependent keeps the happy condition failed.
MarkUnknown(c, t) ==
    LET marked == [c EXCEPT ![t] = "Unknown"]
    IN  [marked EXCEPT ![Happy] =
            IF \E d \in Dependents : marked[d] = "False" THEN "False" ELSE "Unknown"]

MarkFalse(c, t) == [c EXCEPT ![t] = "False", ![Happy] = "False"]
=============================================================================
