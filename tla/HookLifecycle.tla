---------------------------- MODULE HookLifecycle ----------------------------
(***************************************************************************)
(* What becomes of webhooks, as seen from the API server, GitLab and the   *)
(* events, without cache, queue and workers: at each step one source is    *)
(* written, a hook is registered, or a hook is dealt with.  A hook is      *)
(* recorded once, and a source that it is recorded in is guarded by the    *)
(* finalizer until the hook is deleted or named in an event.               *)
(***************************************************************************)
EXTENDS Naturals

CONSTANTS Keys, NoHook

VARIABLES
    record,     \* of each key: uid (0 if there is no source), deleting, guarded, hook
    hooks,      \* webhooks in GitLab
    named       \* IDs of hooks that events name

vars == <<record, hooks, named>>

There(k) == record[k].uid # 0

\* The owner is there and has not been replaced under its name.
Alive(owner) == record[owner[1]].uid = owner[2]

\* Nothing is left to be done for the hook.
Released(id) == id = NoHook \/ id \in named \/ \A h \in hooks : h.id # id

\* At first every hook is recorded.
Init == \A h \in hooks : \E k \in Keys : There(k) /\ record[k].hook = h.id

\* Only the source of k changes.
Write(k) ==
    /\ record' = [record EXCEPT ![k] = record'[k]]
    /\ UNCHANGED <<hooks, named>>

CreateSource(k) ==
    /\ ~There(k)
    /\ Write(k)
    /\ There(k)'
    /\ record'[k].hook = NoHook
    /\ ~record'[k].guarded
    /\ ~record'[k].deleting

\* The ID stays, or is given to a source that has none, or is cleared in the end; the
\* source of a hook goes, or loses its guard, once the hook is released.
WriteSource(k) ==
    LET old == record[k]
        new == record'[k]
    IN  /\ There(k)
        /\ Write(k)
        /\ old.guarded /\ ~Released(old.hook) => new.guarded
        /\ There(k)' =>
            /\ new.uid = old.uid
            /\ old.deleting => new.deleting
            /\ \/ new.hook = old.hook
               \/ /\ old.hook = NoHook
                  /\ \A h \in hooks : h.id = new.hook => h.owner[1] = k
               \/ new.hook = NoHook /\ old.deleting /\ Released(old.hook)

\* One hook more, for a source that is not known to have one.
Register ==
    /\ \E new \in hooks' :
        /\ hooks' = hooks \cup {new}
        /\ \A h \in hooks : h.id # new.id
        /\ Alive(new.owner) => record[new.owner[1]].hook = NoHook
    /\ UNCHANGED <<record, named>>

\* A hook is deleted or named, or both.
Unregister ==
    /\ hooks' \subseteq hooks
    /\ \A h \in hooks \ hooks' : Alive(h.owner) => record[h.owner[1]].deleting
    /\ named \subseteq named'
    /\ UNCHANGED record

Next == (\E k \in Keys : CreateSource(k) \/ WriteSource(k)) \/ Register \/ Unregister

Spec == Init /\ [][Next]_vars
=============================================================================
