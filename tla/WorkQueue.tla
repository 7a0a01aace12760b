----------------------------- MODULE WorkQueue -----------------------------
(***************************************************************************)
(* The delaying work queue of client-go that schedules the                 *)
(* reconciliations: the FIFO with its dirty and processing sets (queue.go) *)
(* and the delayed re-adds (delaying_queue.go).                            *)
(*                                                                         *)
(* Every method holds the queue's mutex from beginning to end, so each is  *)
(* one action.  Delays are abstracted to "at any later time"; the entries  *)
(* of the buffered channel and of the heap behind AddAfter are one set,    *)
(* because the heap keeps a single entry per key.                          *)
(***************************************************************************)
EXTENDS Naturals, Sequences

CONSTANT Keys           \* namespace/name strings of the custom resources

VARIABLES queue,        \* keys in the order in which they will be handed out
          dirty,        \* keys that need processing
          processing,   \* keys handed out and not yet Done
          waiting,      \* keys to be added again after a delay
          shuttingDown

queueVars == <<queue, dirty, processing, waiting, shuttingDown>>

QueueInit ==
    /\ queue = <<>>
    /\ dirty = {}
    /\ processing = {}
    /\ waiting = {}
    /\ shuttingDown = FALSE

\* A new process starts with an empty queue; nothing of the old one survives.
QueueReset ==
    /\ queue' = <<>>
    /\ dirty' = {}
    /\ processing' = {}
    /\ waiting' = {}
    /\ shuttingDown' = FALSE

QueueTypeOK ==
    /\ queue \in Seq(Keys)
    /\ dirty \subseteq Keys
    /\ processing \subseteq Keys
    /\ waiting \subseteq Keys
    /\ shuttingDown \in BOOLEAN

\* Mutant: Add forgets that the key is being processed.
EnqueuedWhileProcessing(k) ==
    IF shuttingDown \/ k \in dirty
    THEN UNCHANGED <<queue, dirty>>
    ELSE dirty' = dirty \cup {k} /\ queue' = Append(queue, k)

\* Mutant: Add ignores a key that is being processed.
EnqueuedUnlessProcessing(k) ==
    IF shuttingDown \/ k \in dirty \cup processing
    THEN UNCHANGED <<queue, dirty>>
    ELSE dirty' = dirty \cup {k} /\ queue' = Append(queue, k)

\* The body of Add, on the three variables it touches.
Enqueued(k) ==
    \/ /\ shuttingDown \/ k \in dirty
       /\ UNCHANGED <<queue, dirty>>
    \/ /\ ~shuttingDown
       /\ k \notin dirty
       /\ dirty' = dirty \cup {k}
       /\ queue' = IF k \in processing THEN queue ELSE Append(queue, k)

Add(k) ==
    /\ Enqueued(k)
    /\ UNCHANGED <<processing, waiting, shuttingDown>>

\* Hands out the head of the queue, as soon as there is one.
Get(k) ==
    /\ queue # <<>>
    /\ k = Head(queue)
    /\ queue' = Tail(queue)
    /\ processing' = processing \cup {k}
    /\ dirty' = dirty \ {k}
    /\ UNCHANGED <<waiting, shuttingDown>>

\* Mutant: the key leaves the dirty set when it is done.
DoneClearingDirty(k) ==
    /\ processing' = processing \ {k}
    /\ dirty' = dirty \ {k}
    /\ UNCHANGED <<queue, shuttingDown>>

\* A key that was added while it was being processed goes back to the queue.
DoneEffect(k) ==
    /\ processing' = processing \ {k}
    /\ queue' = IF k \in dirty THEN Append(queue, k) ELSE queue
    /\ UNCHANGED <<dirty, shuttingDown>>

Done(k) ==
    /\ DoneEffect(k)
    /\ UNCHANGED waiting

\* AddAfter drops the key at shutdown.
AddAfterEffect(k) ==
    waiting' = IF shuttingDown THEN waiting ELSE waiting \cup {k}

AddAfter(k) ==
    /\ AddAfterEffect(k)
    /\ UNCHANGED <<queue, dirty, processing, shuttingDown>>

\* The waiting loop moves a ready entry to the queue.
AddReady(k) ==
    /\ k \in waiting
    /\ waiting' = waiting \ {k}
    /\ Enqueued(k)
    /\ UNCHANGED <<processing, shuttingDown>>

ShutDown ==
    /\ ~shuttingDown
    /\ shuttingDown' = TRUE
    /\ UNCHANGED <<queue, dirty, processing, waiting>>

-----------------------------------------------------------------------------

InQueue(k) == \E i \in 1..Len(queue) : queue[i] = k

\* "Every element of queue should be in the dirty set and not in the
\* processing set" (queue.go), no key is queued twice, and no dirty key is
\* lost: it is queued, or its worker will queue it again when it is Done.
QueueConsistent ==
    /\ \A i \in 1..Len(queue) : queue[i] \in dirty /\ queue[i] \notin processing
    /\ \A i, j \in 1..Len(queue) : queue[i] = queue[j] => i = j
    /\ \A k \in dirty : InQueue(k) \/ k \in processing
=============================================================================
