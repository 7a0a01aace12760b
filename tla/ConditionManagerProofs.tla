----------------------- MODULE ConditionManagerProofs -----------------------
(***************************************************************************)
(* The condition manager keeps its promises for every set of dependents.   *)
(***************************************************************************)
EXTENDS ConditionManager, TLAPS

\* HappyIffAllTrue and FailureIsVisible are inductive, given the types.
IInv == TypeOK /\ HappyIffAllTrue /\ FailureIsVisible

LEMMA IndInvInit == Init => IInv
BY HappyAssumption, DependentsAssumption
   DEF Init, IInv, TypeOK, HappyIffAllTrue, FailureIsVisible, IsHappy,
       NoConditions, Conditions, ConditionTypes, ConditionValues

\* Every call of the manager preserves the invariant.
LEMMA IndInvNext == IInv /\ [Next]_conds => IInv'
<1> SUFFICES ASSUME IInv, [Next]_conds PROVE IInv'
    OBVIOUS
<1> USE HappyAssumption
        DEF IInv, TypeOK, HappyIffAllTrue, FailureIsVisible, IsHappy,
            Conditions, ConditionTypes, ConditionValues
<1>1. CASE Initialize
    BY <1>1 DEF Initialize, InitializeConditions
<1>2. ASSUME NEW t \in Dependents, SetTrue(t) PROVE IInv'
    <2> DEFINE marked == [conds EXCEPT ![t] = "True"]
    <2>1. CASE \A d \in Dependents : marked[d] = "True"
        BY <1>2, <2>1 DEF SetTrue, MarkTrue
    <2>2. CASE ~ \A d \in Dependents : marked[d] = "True"
        BY <1>2, <2>2 DEF SetTrue, MarkTrue
    <2> QED BY <2>1, <2>2
<1>3. ASSUME NEW t \in Dependents, SetUnknown(t) PROVE IInv'
    <2> DEFINE marked == [conds EXCEPT ![t] = "Unknown"]
    <2>1. CASE \E d \in Dependents : marked[d] = "False"
        BY <1>3, <2>1 DEF SetUnknown, MarkUnknown
    <2>2. CASE ~ \E d \in Dependents : marked[d] = "False"
        BY <1>3, <2>2 DEF SetUnknown, MarkUnknown
    <2> QED BY <2>1, <2>2
<1>4. ASSUME NEW t \in Dependents, SetFalse(t) PROVE IInv'
    BY <1>4 DEF SetFalse, MarkFalse
<1>5. CASE UNCHANGED conds
    BY <1>5
<1> QED BY <1>1, <1>2, <1>3, <1>4, <1>5 DEF Next

\* Ready is True exactly while every dependent is, after any calls.
THEOREM HappyIsTheConjunction == Spec => []HappyIffAllTrue
BY IndInvInit, IndInvNext, PTL DEF Spec, IInv

\* A failed dependent is never hidden by a later call on another one.
THEOREM FailuresStayVisible == Spec => []FailureIsVisible
BY IndInvInit, IndInvNext, PTL DEF Spec, IInv
=============================================================================
