-------------------------- MODULE WorkQueueProofs --------------------------
(***************************************************************************)
(* What the operations of the work queue preserve, for the proofs about    *)
(* the modules that are built on it.                                       *)
(***************************************************************************)
EXTENDS WorkQueue, TLAPS

\* Add puts the key into the dirty set and touches no other.
LEMMA EnqueuedKeepsTypes ==
    ASSUME QueueTypeOK, NEW k \in Keys, Enqueued(k)
    PROVE  /\ queue' \in Seq(Keys)
           /\ dirty' \subseteq Keys
           /\ ~shuttingDown => k \in dirty'
           /\ dirty \subseteq dirty'
           /\ dirty' \subseteq dirty \cup {k}
BY DEF QueueTypeOK, Enqueued

\* Add appends a key that is neither queued nor being processed, or nothing.
LEMMA EnqueuedKeepsConsistency ==
    ASSUME QueueTypeOK, QueueConsistent, NEW k \in Keys, Enqueued(k),
           UNCHANGED processing
    PROVE  QueueConsistent'
<1>1. CASE UNCHANGED <<queue, dirty>>
    BY <1>1 DEF QueueConsistent, InQueue
<1>2. CASE k \notin dirty /\ dirty' = dirty \cup {k} /\ k \in processing /\ queue' = queue
    BY <1>2 DEF QueueConsistent, InQueue
<1>3. CASE k \notin dirty /\ dirty' = dirty \cup {k} /\ k \notin processing
           /\ queue' = Append(queue, k)
    <2>1. /\ Len(queue') = Len(queue) + 1
          /\ \A i \in 1..Len(queue) : queue'[i] = queue[i]
          /\ queue'[Len(queue) + 1] = k
          /\ Len(queue) \in Nat
        BY <1>3 DEF QueueTypeOK
    <2>2. \A i \in 1..Len(queue) : queue[i] # k
        BY <1>3 DEF QueueConsistent
    <2>3. \A i \in 1..Len(queue') : queue'[i] \in dirty' /\ queue'[i] \notin processing'
        BY <1>3, <2>1 DEF QueueConsistent
    <2>4. \A i, j \in 1..Len(queue') : queue'[i] = queue'[j] => i = j
        BY <2>1, <2>2 DEF QueueConsistent
    <2>5. ASSUME NEW l \in dirty' PROVE InQueue(l)' \/ l \in processing'
        <3>1. CASE l = k
            BY <2>1, <3>1 DEF InQueue
        <3>2. CASE l \in dirty
            BY <2>1, <3>2 DEF QueueConsistent, InQueue
        <3> QED BY <1>3, <3>1, <3>2
    <2> QED BY <2>3, <2>4, <2>5 DEF QueueConsistent
<1> QED BY <1>1, <1>2, <1>3 DEF Enqueued

\* Get takes the only occurrence of its key off the queue.
LEMMA GetKeepsConsistency ==
    ASSUME QueueTypeOK, QueueConsistent, NEW k \in Keys, Get(k)
    PROVE  /\ QueueConsistent'
           /\ k \in dirty
           /\ k \notin processing
<1>1. /\ Len(queue) \in Nat
      /\ Len(queue) > 0
      /\ k = queue[1]
      /\ Len(queue') = Len(queue) - 1
      /\ \A i \in 1..Len(queue') : queue'[i] = queue[i + 1]
    BY DEF QueueTypeOK, Get
<1>2. k \in dirty /\ k \notin processing
    BY <1>1 DEF QueueConsistent
<1>3. \A i \in 2..Len(queue) : queue[i] # k
    BY <1>1 DEF QueueConsistent
<1>4. \A i \in 1..Len(queue') : queue'[i] \in dirty' /\ queue'[i] \notin processing'
    BY <1>1, <1>3 DEF QueueConsistent, Get
<1>5. \A i, j \in 1..Len(queue') : queue'[i] = queue'[j] => i = j
    BY <1>1 DEF QueueConsistent
<1>6. ASSUME NEW l \in dirty' PROVE InQueue(l)' \/ l \in processing'
    <2>1. CASE l \in processing
        BY <2>1 DEF Get
    <2>2. CASE InQueue(l)
        <3>1. PICK i \in 1..Len(queue) : queue[i] = l
            BY <2>2 DEF InQueue
        <3>2. i # 1
            BY <1>1, <3>1 DEF Get
        <3>3. i - 1 \in 1..Len(queue') /\ queue'[i - 1] = l
            BY <1>1, <3>1, <3>2
        <3> QED BY <3>3 DEF InQueue
    <2> QED BY <2>1, <2>2 DEF QueueConsistent, Get
<1> QED BY <1>2, <1>4, <1>5, <1>6 DEF QueueConsistent

\* Done queues the key again if it was added meanwhile.
LEMMA DoneKeepsConsistency ==
    ASSUME QueueTypeOK, QueueConsistent, NEW k \in processing, DoneEffect(k)
    PROVE  QueueConsistent'
<1>1. \A i \in 1..Len(queue) : queue[i] # k
    BY DEF QueueConsistent
<1>2. CASE k \notin dirty
    BY <1>1, <1>2 DEF QueueConsistent, InQueue, DoneEffect
<1>3. CASE k \in dirty
    <2>1. /\ Len(queue') = Len(queue) + 1
          /\ \A i \in 1..Len(queue) : queue'[i] = queue[i]
          /\ queue'[Len(queue) + 1] = k
          /\ Len(queue) \in Nat
        BY <1>3 DEF QueueTypeOK, DoneEffect
    <2>2. \A i \in 1..Len(queue') : queue'[i] \in dirty' /\ queue'[i] \notin processing'
        BY <1>1, <1>3, <2>1 DEF QueueConsistent, DoneEffect
    <2>3. \A i, j \in 1..Len(queue') : queue'[i] = queue'[j] => i = j
        BY <1>1, <2>1 DEF QueueConsistent
    <2>4. ASSUME NEW l \in dirty' PROVE InQueue(l)' \/ l \in processing'
        <3>1. CASE l = k
            BY <2>1, <3>1 DEF InQueue
        <3>2. CASE l # k
            BY <2>1, <3>2 DEF QueueConsistent, InQueue, DoneEffect
        <3> QED BY <3>1, <3>2
    <2> QED BY <2>2, <2>3, <2>4 DEF QueueConsistent
<1> QED BY <1>2, <1>3
=============================================================================
