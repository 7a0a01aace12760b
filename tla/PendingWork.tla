---------------------------- MODULE PendingWork ----------------------------
(***************************************************************************)
(* What the controller promises about scheduling, without saying how:      *)
(* every request to reconcile a key that arrives is remembered until a     *)
(* worker begins a reconciliation of that key after it arrived, and no two *)
(* workers ever reconcile the same key at once.                            *)
(***************************************************************************)
CONSTANTS Keys, Workers, NoKey

VARIABLES pending,      \* keys with a request that no reconciliation has seen
          active        \* the key each worker is reconciling, or NoKey

vars == <<pending, active>>

Init ==
    /\ pending = {}
    /\ active = [w \in Workers |-> NoKey]

Request(k) ==
    /\ pending' = pending \cup {k}
    /\ UNCHANGED active

Start(w, k) ==
    /\ active[w] = NoKey
    /\ k \in pending
    /\ \A v \in Workers : active[v] # k
    /\ pending' = pending \ {k}
    /\ active' = [active EXCEPT ![w] = k]

Finish(w) ==
    /\ active[w] # NoKey
    /\ active' = [active EXCEPT ![w] = NoKey]
    /\ UNCHANGED pending

Next ==
    \/ \E k \in Keys : Request(k)
    \/ \E w \in Workers, k \in Keys : Start(w, k)
    \/ \E w \in Workers : Finish(w)

Spec == Init /\ [][Next]_vars
=============================================================================
