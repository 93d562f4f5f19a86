------------------------ MODULE NotificationQueueProofs ------------------------
(***************************************************************************)
(* What the operations of NotificationQueue do to what is buffered, for    *)
(* every number of processes and every size of the buffer.  The proofs of  *)
(* the processes that publish rest on these lemmas.                        *)
(***************************************************************************)
EXTENDS NotificationQueue, TLAPS

(* No event is in two places of the buffers.                               *)
EachBufferedOnce ==
    \A v, w \in Processes : \A i \in 1..Len(queue[v]), j \in 1..Len(queue[w]) :
        queue[v][i] = queue[w][j] => v = w /\ i = j

-----------------------------------------------------------------------------
(* Sending an event appends it or, if the buffer is full, drops it.        *)
LEMMA PublishEffect ==
    ASSUME QueueTypeOK, NEW w \in Processes, NEW e \in Notices, Publish(w, e)
    PROVE  /\ QueueTypeOK'
           /\ UNCHANGED <<consuming, notified>>
           /\ \A v \in Processes : v # w => queue'[v] = queue[v]
           /\ IF IsFull(w) THEN queue'[w] = queue[w] ELSE queue'[w] = Append(queue[w], e)
<1>1. CASE IsFull(w)
  BY <1>1 DEF Publish, QueueTypeOK
<1>2. CASE ~ IsFull(w)
  <2>1. queue' = [queue EXCEPT ![w] = Append(queue[w], e)]
    BY <1>2 DEF Publish
  <2>2. queue[w] \in Seq(Notices)
    BY DEF QueueTypeOK
  <2>3. Append(queue[w], e) \in Seq(Notices) /\ Len(Append(queue[w], e)) <= Capacity
    BY <1>2, <2>2, CapacityAssumption DEF IsFull
  <2> QED BY <1>2, <2>1, <2>2, <2>3 DEF Publish, QueueTypeOK
<1> QED BY <1>1, <1>2

LEMMA PublishBuffers ==
    ASSUME QueueTypeOK, NEW w \in Processes, NEW e \in Notices, Publish(w, e)
    PROVE  \A v \in Processes, n \in Notices :
              Buffered(v, n)' <=> Buffered(v, n) \/ (v = w /\ n = e /\ ~ IsFull(w))
<1>1. /\ \A v \in Processes : v # w => queue'[v] = queue[v]
      /\ IF IsFull(w) THEN queue'[w] = queue[w] ELSE queue'[w] = Append(queue[w], e)
  BY PublishEffect
<1>2. CASE IsFull(w)
  BY <1>1, <1>2 DEF Buffered
<1>3. CASE ~ IsFull(w)
  <2>1. queue[w] \in Seq(Notices)
    BY DEF QueueTypeOK
  <2>2. /\ Len(queue[w]) \in Nat /\ Len(queue'[w]) = Len(queue[w]) + 1
        /\ queue'[w][Len(queue[w]) + 1] = e
        /\ \A i \in 1..Len(queue[w]) : queue'[w][i] = queue[w][i]
    BY <1>1, <1>3, <2>1
  <2>3. \A n \in Notices : Buffered(w, n)' <=> Buffered(w, n) \/ n = e
    BY <2>2 DEF Buffered
  <2>4. \A v \in Processes, n \in Notices : v # w => (Buffered(v, n)' <=> Buffered(v, n))
    BY <1>1 DEF Buffered
  <2> QED BY <1>3, <2>3, <2>4
<1> QED BY <1>2, <1>3

LEMMA PublishKeepsOnce ==
    ASSUME QueueTypeOK, EachBufferedOnce, NEW w \in Processes, NEW e \in Notices,
           Publish(w, e), \A v \in Processes : ~ Buffered(v, e)
    PROVE  EachBufferedOnce'
<1>1. /\ \A v \in Processes : v # w => queue'[v] = queue[v]
      /\ IF IsFull(w) THEN queue'[w] = queue[w] ELSE queue'[w] = Append(queue[w], e)
  BY PublishEffect
<1>2. CASE IsFull(w)
  BY <1>1, <1>2 DEF EachBufferedOnce
<1>3. CASE ~ IsFull(w)
  <2>1. queue[w] \in Seq(Notices)
    BY DEF QueueTypeOK
  <2>2. /\ queue'[w][Len(queue[w]) + 1] = e
        /\ \A i \in 1..Len(queue'[w]) :
              \/ i \in 1..Len(queue[w]) /\ queue'[w][i] = queue[w][i]
              \/ i = Len(queue[w]) + 1
    BY <1>1, <1>3, <2>1
  <2>3. \A v \in Processes : \A i \in 1..Len(queue[v]) : queue[v][i] # e
    BY DEF Buffered
  <2>4. ASSUME NEW v \in Processes, NEW i \in 1..Len(queue'[v])
        PROVE  \/ i \in 1..Len(queue[v]) /\ queue'[v][i] = queue[v][i] /\ queue'[v][i] # e
               \/ v = w /\ i = Len(queue[w]) + 1 /\ queue'[v][i] = e
    BY <1>1, <2>2, <2>3, <2>4
  <2> QED BY <2>4 DEF EachBufferedOnce
<1> QED BY <1>2, <1>3

-----------------------------------------------------------------------------
(* Receiving takes the head and tells its creator.                         *)
LEMMA ConsumeEffect ==
    ASSUME QueueTypeOK, NEW w \in Processes, Consume(w)
    PROVE  /\ QueueTypeOK'
           /\ \A v \in Processes : v # w => queue'[v] = queue[v]
           /\ queue[w] \in Seq(Notices)
           /\ queue[w] # <<>> /\ queue'[w] = Tail(queue[w])
           /\ Head(queue[w]) \in Notices
           /\ notified' = [notified EXCEPT ![Head(queue[w])] = @ + 1]
<1>1. queue[w] \in Seq(Notices) /\ queue[w] # <<>>
  BY DEF Consume, QueueTypeOK
<1>2. Head(queue[w]) \in Notices /\ Tail(queue[w]) \in Seq(Notices)
      /\ Len(Tail(queue[w])) <= Len(queue[w])
  BY <1>1
<1>3. queue' = [queue EXCEPT ![w] = Tail(queue[w])]
  BY DEF Consume
<1>4. Len(Tail(queue[w])) <= Capacity
  BY <1>1, <1>2, CapacityAssumption DEF QueueTypeOK
<1>5. \A v \in Processes : queue'[v] = IF v = w THEN Tail(queue[w]) ELSE queue[v]
  BY <1>3 DEF QueueTypeOK
<1>6. QueueTypeOK'
  BY <1>2, <1>3, <1>4, <1>5 DEF Consume, QueueTypeOK
<1> QED BY <1>1, <1>2, <1>5, <1>6 DEF Consume

LEMMA ConsumeTakesHead ==
    ASSUME QueueTypeOK, NEW w \in Processes, Consume(w)
    PROVE  /\ Buffered(w, Head(queue[w]))
           /\ \A v \in Processes, n \in Notices :
                 /\ Buffered(v, n)' => Buffered(v, n)
                 /\ Buffered(v, n) => Buffered(v, n)' \/ (v = w /\ n = Head(queue[w]))
<1>1. /\ \A v \in Processes : v # w => queue'[v] = queue[v]
      /\ queue[w] \in Seq(Notices) /\ queue[w] # <<>> /\ queue'[w] = Tail(queue[w])
  BY ConsumeEffect
<1>2. /\ Len(queue[w]) \in Nat /\ Len(queue'[w]) = Len(queue[w]) - 1 /\ Len(queue[w]) >= 1
      /\ queue[w][1] = Head(queue[w])
      /\ \A i \in 1..Len(queue'[w]) : queue'[w][i] = queue[w][i + 1] /\ i + 1 \in 1..Len(queue[w])
  BY <1>1
<1>3. Buffered(w, Head(queue[w]))
  BY <1>2 DEF Buffered
<1>4. ASSUME NEW n \in Notices, Buffered(w, n)
      PROVE  Buffered(w, n)' \/ n = Head(queue[w])
  <2>1. PICK i \in 1..Len(queue[w]) : queue[w][i] = n
    BY <1>4 DEF Buffered
  <2>2. CASE i = 1
    BY <1>2, <2>1, <2>2
  <2>3. CASE i # 1
    <3>1. i - 1 \in 1..Len(queue'[w]) /\ queue'[w][i - 1] = n
      BY <1>2, <2>1, <2>3
    <3> QED BY <3>1 DEF Buffered
  <2> QED BY <2>2, <2>3
<1>5. \A n \in Notices : Buffered(w, n)' => Buffered(w, n)
  BY <1>2 DEF Buffered
<1>6. \A v \in Processes, n \in Notices : v # w => (Buffered(v, n)' <=> Buffered(v, n))
  BY <1>1 DEF Buffered
<1> QED BY <1>3, <1>4, <1>5, <1>6

LEMMA ConsumeKeepsOnce ==
    ASSUME QueueTypeOK, EachBufferedOnce, NEW w \in Processes, Consume(w)
    PROVE  /\ EachBufferedOnce'
           /\ \A v \in Processes, n \in Notices : n = Head(queue[w]) => ~ Buffered(v, n)'
<1>1. /\ \A v \in Processes : v # w => queue'[v] = queue[v]
      /\ queue[w] \in Seq(Notices) /\ queue[w] # <<>> /\ queue'[w] = Tail(queue[w])
  BY ConsumeEffect
<1>2. /\ Len(queue[w]) \in Nat /\ 1 \in 1..Len(queue[w])
      /\ queue[w][1] = Head(queue[w])
      /\ \A i \in 1..Len(queue'[w]) :
            queue'[w][i] = queue[w][i + 1] /\ i + 1 \in 1..Len(queue[w]) /\ i + 1 # 1 /\ i \in Nat
  BY <1>1
<1>3. ASSUME NEW v \in Processes, NEW i \in 1..Len(queue'[v])
      PROVE  \E k \in 1..Len(queue[v]) : /\ queue'[v][i] = queue[v][k]
                                         /\ k = IF v = w THEN i + 1 ELSE i
                                         /\ ~ (v = w /\ k = 1)
  BY <1>1, <1>2, <1>3
<1>4. EachBufferedOnce'
  <2> SUFFICES ASSUME NEW v \in Processes, NEW x \in Processes,
                      NEW i \in 1..Len(queue'[v]), NEW j \in 1..Len(queue'[x]),
                      queue'[v][i] = queue'[x][j]
               PROVE  v = x /\ i = j
    BY DEF EachBufferedOnce
  <2>1. PICK k \in 1..Len(queue[v]) : queue'[v][i] = queue[v][k] /\ k = IF v = w THEN i + 1 ELSE i
    BY <1>3
  <2>2. PICK l \in 1..Len(queue[x]) : queue'[x][j] = queue[x][l] /\ l = IF x = w THEN j + 1 ELSE j
    BY <1>3
  <2>3. queue[v][k] = queue[x][l]
    BY <2>1, <2>2
  <2>4. v = x /\ k = l
    BY <2>3 DEF EachBufferedOnce
  <2> QED BY <2>1, <2>2, <2>4
<1>5. ASSUME NEW v \in Processes, NEW i \in 1..Len(queue'[v]), queue'[v][i] = Head(queue[w])
      PROVE  FALSE
  <2>1. PICK k \in 1..Len(queue[v]) : queue'[v][i] = queue[v][k] /\ ~ (v = w /\ k = 1)
    BY <1>3
  <2> QED BY <1>2, <1>5, <2>1 DEF EachBufferedOnce
<1> QED BY <1>4, <1>5 DEF Buffered

-----------------------------------------------------------------------------
(* A process that begins or ends has nothing in its buffer.                *)
LEMMA OpenOrCloseEmpties ==
    ASSUME QueueTypeOK, NEW w \in Processes, OpenQueue(w) \/ CloseQueue(w)
    PROVE  /\ QueueTypeOK' /\ UNCHANGED notified
           /\ queue'[w] = <<>> /\ \A v \in Processes : v # w => queue'[v] = queue[v]
           /\ \A v \in Processes, n \in Notices : Buffered(v, n)' <=> v # w /\ Buffered(v, n)
           /\ EachBufferedOnce => EachBufferedOnce'
<1>1. /\ UNCHANGED notified /\ consuming' \in [Processes -> BOOLEAN]
      /\ queue' = [queue EXCEPT ![w] = <<>>]
  BY DEF OpenQueue, CloseQueue, QueueTypeOK
<1>2. queue'[w] = <<>> /\ \A v \in Processes : v # w => queue'[v] = queue[v]
  BY <1>1 DEF QueueTypeOK
<1>3. QueueTypeOK'
  BY <1>1, <1>2, CapacityAssumption DEF QueueTypeOK
<1>4. \A v \in Processes, n \in Notices : Buffered(v, n)' <=> v # w /\ Buffered(v, n)
  BY <1>2 DEF Buffered
<1>5. EachBufferedOnce => EachBufferedOnce'
  BY <1>2 DEF EachBufferedOnce
<1> QED BY <1>1, <1>2, <1>3, <1>4, <1>5
=============================================================================
