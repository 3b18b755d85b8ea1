--------------------------- MODULE DeliveryProofs ---------------------------
(***************************************************************************)
(* Proofs about Delivery, for every set of messages, processes and copies, *)
(* every retry limit and every bound on failures.                          *)
(***************************************************************************)
EXTENDS Delivery, TLAPS

USE DeliveryAssumption DEF PossibleFaults

\* A free slot and a stored copy are copies.
LEMMA StoredIsCopy ==
    /\ FreeSlot \in Copy
    /\ \A place \in Places, m \in Messages, r \in 0..MaxRetries :
          Stored(place, m, r) \in Copy
BY DEF FreeSlot, Stored, Copy, Places, InBroker, InConsumer, InRequeuer

\* Every reachable state is well formed: a copy outside a free slot carries a
\* message, a copy is held exactly while a process works on it, only a consume
\* loop can hold an orphan, and a retry is scheduled only below MAX_RETRIES.
THEOREM DeliveryTypeOK == Spec => []TypeOK
<1> USE DEF Places, InBroker, InConsumer, InRequeuer
<1>1. Init => TypeOK
  BY DEF Init, TypeOK, WellFormed, FreeSlot, Copy
<1>2. TypeOK /\ [Next]_vars => TypeOK'
  <2> SUFFICES ASSUME TypeOK, [Next]_vars
               PROVE  TypeOK'
    OBVIOUS
  <2>1. ASSUME NEW m \in Messages, Publish(m)
        PROVE  TypeOK'
    BY <2>1 DEF Publish, Free, Stored, TypeOK, WellFormed, Copy
  <2>2. ASSUME NEW p \in Processes, NEW i \in Copies, Deliver(p, i)
        PROVE  TypeOK'
    BY <2>2 DEF Deliver, TypeOK, WellFormed, Copy
  <2>3. ASSUME NEW p \in Processes, NEW i \in Copies, RequeueTake(p, i)
        PROVE  TypeOK'
    BY <2>3 DEF RequeueTake, TypeOK, WellFormed, Copy
  <2>4. ASSUME NEW i \in Copies, HandlerReturns(i)
        PROVE  TypeOK'
    BY <2>4 DEF HandlerReturns, Move, TypeOK, WellFormed, Copy
  <2>5. ASSUME NEW i \in Copies, HandlerRaises(i)
        PROVE  TypeOK'
    BY <2>5 DEF HandlerRaises, Move, TypeOK, WellFormed, Copy
  <2>6. ASSUME NEW i \in Copies, HandlerTimesOut(i)
        PROVE  TypeOK'
    BY <2>6 DEF HandlerTimesOut, Move, TypeOK, WellFormed, Copy
  <2>7. ASSUME NEW i \in Copies, PublishToRetryQueue(i)
        PROVE  TypeOK'
    <3>1. PICK j \in Copies :
            /\ Free(j)
            /\ copies' = [copies EXCEPT
                             ![j] = Stored("delay", copies[i].msg, copies[i].rc + 1),
                             ![i].at = "ack"]
      BY <2>7 DEF PublishToRetryQueue
    <3>2. i # j
      BY <2>7, <3>1 DEF PublishToRetryQueue, Free, TypeOK, WellFormed, Copy
    <3>3. copies[i] \in Copy /\ copies[i].msg \in Messages /\ copies[i].rc + 1 \in 0..MaxRetries
      BY <2>7 DEF PublishToRetryQueue, TypeOK, WellFormed, Copy
    <3>4. Stored("delay", copies[i].msg, copies[i].rc + 1) \in Copy
      BY <3>3, StoredIsCopy
    <3>5. [copies[i] EXCEPT !.at = "ack"] \in Copy
      BY <3>3 DEF Copy
    <3>6. \A k \in Copies : copies'[k] =
             IF k = j THEN Stored("delay", copies[i].msg, copies[i].rc + 1)
             ELSE IF k = i THEN [copies[i] EXCEPT !.at = "ack"]
             ELSE copies[k]
      BY <3>1, <3>2 DEF TypeOK
    <3>7. copies' \in [Copies -> Copy]
      BY <3>1, <3>2, <3>4, <3>5 DEF TypeOK
    <3>8. \A k \in Copies : WellFormed(copies'[k])
      BY <2>7, <3>3, <3>6 DEF PublishToRetryQueue, TypeOK, WellFormed, Stored, Copy
    <3>9. QED
      BY <2>7, <3>7, <3>8 DEF PublishToRetryQueue, TypeOK
  <2>8. ASSUME NEW i \in Copies, RetryPublishFails(i)
        PROVE  TypeOK'
    BY <2>8 DEF RetryPublishFails, Move, TypeOK, WellFormed, Copy
  <2>9. ASSUME NEW i \in Copies, Ack(i)
        PROVE  TypeOK'
    BY <2>9 DEF Ack, FreeSlot, TypeOK, WellFormed, Copy
  <2>10. ASSUME NEW i \in Copies, Reject(i)
         PROVE  TypeOK'
    BY <2>10 DEF Reject, FreeSlot, Stored, TypeOK, WellFormed, Copy
  <2>11. ASSUME NEW i \in Copies, Expire(i)
         PROVE  TypeOK'
    BY <2>11 DEF Expire, Move, TypeOK, WellFormed, Copy
  <2>12. ASSUME NEW i \in Copies, RequeuePublish(i)
         PROVE  TypeOK'
    <3>1. PICK j \in Copies :
            /\ Free(j)
            /\ copies' = [copies EXCEPT
                             ![j] = Stored("queue", copies[i].msg, copies[i].rc),
                             ![i].at = "republished"]
      BY <2>12 DEF RequeuePublish
    <3>2. i # j
      BY <2>12, <3>1 DEF RequeuePublish, Free, TypeOK, WellFormed, Copy
    <3>3. copies[i] \in Copy /\ copies[i].msg \in Messages /\ copies[i].rc \in 0..MaxRetries
      BY <2>12 DEF RequeuePublish, TypeOK, WellFormed, Copy
    <3>4. Stored("queue", copies[i].msg, copies[i].rc) \in Copy
      BY <3>3, StoredIsCopy
    <3>5. [copies[i] EXCEPT !.at = "republished"] \in Copy
      BY <3>3 DEF Copy
    <3>6. \A k \in Copies : copies'[k] =
             IF k = j THEN Stored("queue", copies[i].msg, copies[i].rc)
             ELSE IF k = i THEN [copies[i] EXCEPT !.at = "republished"]
             ELSE copies[k]
      BY <3>1, <3>2 DEF TypeOK
    <3>7. copies' \in [Copies -> Copy]
      BY <3>1, <3>2, <3>4, <3>5 DEF TypeOK
    <3>8. \A k \in Copies : WellFormed(copies'[k])
      BY <2>12, <3>3, <3>6 DEF RequeuePublish, TypeOK, WellFormed, Stored, Copy
    <3>9. QED
      BY <2>12, <3>7, <3>8 DEF RequeuePublish, TypeOK
  <2>13. ASSUME NEW i \in Copies, RequeueAck(i)
         PROVE  TypeOK'
    BY <2>13 DEF RequeueAck, FreeSlot, TypeOK, WellFormed, Copy
  <2>14. ASSUME NEW i \in Copies, RequeueFails(i)
         PROVE  TypeOK'
    <3>1. PICK left \in {FreeSlot, Stored("requeue", copies[i].msg, copies[i].rc)} :
            copies' = [copies EXCEPT ![i] = left]
      BY <2>14 DEF RequeueFails
    <3>2. copies[i].msg \in Messages /\ copies[i].rc \in 0..MaxRetries
      BY <2>14 DEF RequeueFails, TypeOK, WellFormed, Copy
    <3>3. left \in Copy
      BY <3>1, <3>2, StoredIsCopy
    <3>4. WellFormed(left)
      BY <3>1, <3>2 DEF WellFormed, FreeSlot, Stored
    <3>5. requeuing' \in [Processes -> BOOLEAN]
      BY <2>14 DEF RequeueFails, TypeOK
    <3>6. QED
      BY <2>14, <3>1, <3>3, <3>4, <3>5 DEF RequeueFails, TypeOK
  <2>15. ASSUME NEW i \in Copies, ConnectionLost(i)
         PROVE  TypeOK'
    <3>1. PICK j \in Copies :
            /\ Free(j)
            /\ copies' = [copies EXCEPT
                             ![j] = Stored("queue", copies[i].msg, copies[i].rc),
                             ![i].orphan = TRUE]
      BY <2>15 DEF ConnectionLost
    <3>2. i # j
      BY <2>15, <3>1 DEF ConnectionLost, Free, TypeOK, WellFormed, Copy
    <3>3. copies[i] \in Copy /\ copies[i].msg \in Messages /\ copies[i].rc \in 0..MaxRetries
      BY <2>15 DEF ConnectionLost, TypeOK, WellFormed, Copy
    <3>4. Stored("queue", copies[i].msg, copies[i].rc) \in Copy
      BY <3>3, StoredIsCopy
    <3>5. [copies[i] EXCEPT !.orphan = TRUE] \in Copy
      BY <3>3 DEF Copy
    <3>6. \A k \in Copies : copies'[k] =
             IF k = j THEN Stored("queue", copies[i].msg, copies[i].rc)
             ELSE IF k = i THEN [copies[i] EXCEPT !.orphan = TRUE]
             ELSE copies[k]
      BY <3>1, <3>2 DEF TypeOK
    <3>7. copies' \in [Copies -> Copy]
      BY <3>1, <3>2, <3>4, <3>5 DEF TypeOK
    <3>8. \A k \in Copies : WellFormed(copies'[k])
      BY <2>15, <3>3, <3>6 DEF ConnectionLost, TypeOK, WellFormed, Stored, Copy
    <3>9. breaks' \in 0..MaxBreaks
      BY <2>15 DEF ConnectionLost, TypeOK
    <3>10. QED
      BY <2>15, <3>7, <3>8, <3>9 DEF ConnectionLost, TypeOK
  <2>16. ASSUME NEW p \in Processes, Crash(p)
         PROVE  TypeOK'
    <3>1. ASSUME NEW i \in Copies
          PROVE  Returned(copies[i]) \in Copy \/ copies[i].by # p
      <4>1. CASE copies[i].by = p
        <5>1. copies[i].msg \in Messages /\ copies[i].rc \in 0..MaxRetries
          BY <4>1 DEF TypeOK, WellFormed, Copy
        <5>2. QED
          BY <5>1, StoredIsCopy DEF Returned
      <4>2. QED
        BY <4>1
    <3>2. copies' \in [Copies -> Copy]
      BY <2>16, <3>1 DEF Crash, TypeOK
    <3>3. \A i \in Copies : WellFormed(copies'[i])
      BY <2>16 DEF Crash, Returned, FreeSlot, Stored, TypeOK, WellFormed, Copy
    <3>4. QED
      BY <2>16, <3>2, <3>3 DEF Crash, TypeOK
  <2>17. ASSUME NEW p \in Processes, Pause(p)
         PROVE  TypeOK'
    BY <2>17 DEF Pause, Held, FreeSlot, Stored, TypeOK, WellFormed, Copy
  <2>18. ASSUME NEW p \in Processes, Resume(p)
         PROVE  TypeOK'
    BY <2>18 DEF Resume, TypeOK, WellFormed, Copy
  <2>19. CASE UNCHANGED vars
    BY <2>19 DEF vars, TypeOK
  <2>20. QED
    BY <2>1, <2>2, <2>3, <2>4, <2>5, <2>6, <2>7, <2>8, <2>9, <2>10, <2>11,
       <2>12, <2>13, <2>14, <2>15, <2>16, <2>17, <2>18, <2>19
       DEF Next, Consume, Requeue
<1>3. QED
  BY <1>1, <1>2, PTL DEF Spec

-----------------------------------------------------------------------------
\* A published message has been handled or is still in the broker, whatever
\* crashes, lost connections and pauses do, as long as no handler times out and
\* no retry and no republish fails (connection.py:478-481).
THEOREM NoMessageIsLost == Spec => []NoMessageLost
<1> USE DEF Places, InBroker, InConsumer, InRequeuer
<1>1. Init => NoMessageLost
  BY DEF Init, NoMessageLost, EveryMessageKept
<1>2. TypeOK /\ NoMessageLost /\ [Next]_vars => NoMessageLost'
  <2> SUFFICES ASSUME TypeOK, NoMessageLost, [Next]_vars, FaultKinds = {},
                      NEW m \in published', m \notin succeeded'
               PROVE  \E k \in Copies : k \in Live(m)'
    BY DEF NoMessageLost, EveryMessageKept
  <2> USE DEF Live, IsLive
  <2>1. ASSUME NEW n \in Messages, Publish(n)
        PROVE  \E k \in Copies : k \in Live(m)'
    <3>1. PICK j \in Copies :
            Free(j) /\ copies' = [copies EXCEPT ![j] = Stored("queue", n, 0)]
      BY <2>1 DEF Publish
    <3>2. CASE m = n
      BY <3>1, <3>2 DEF Stored, TypeOK
    <3>3. CASE m # n
      <4>1. PICK k \in Copies : k \in Live(m)
        BY <2>1, <3>3 DEF Publish, NoMessageLost, EveryMessageKept
      <4>2. k # j
        BY <3>1, <4>1 DEF Free
      <4>3. QED
        BY <3>1, <4>1, <4>2 DEF TypeOK
    <3>4. QED
      BY <3>2, <3>3
  <2>2. ASSUME published' = published, succeeded \subseteq succeeded'
        PROVE  \E k \in Copies : k \in Live(m)
    BY <2>2 DEF NoMessageLost, EveryMessageKept
  <2>3. ASSUME NEW p \in Processes, NEW i \in Copies,
               Deliver(p, i) \/ RequeueTake(p, i)
        PROVE  \E k \in Copies : k \in Live(m)'
    <3>1. PICK k \in Copies : k \in Live(m)
      BY <2>2, <2>3 DEF Deliver, RequeueTake
    <3>2. k \in Live(m)'
      BY <2>3, <3>1 DEF Deliver, RequeueTake, TypeOK, Copy
    <3>3. QED
      BY <3>2
  <2>4. ASSUME NEW i \in Copies, HandlerReturns(i)
        PROVE  \E k \in Copies : k \in Live(m)'
    BY <2>2, <2>4 DEF HandlerReturns, Move, TypeOK
  <2>5. ASSUME NEW i \in Copies, HandlerRaises(i)
        PROVE  \E k \in Copies : k \in Live(m)'
    BY <2>2, <2>5 DEF HandlerRaises, Move, TypeOK
  <2>6. ASSUME NEW i \in Copies,
               HandlerTimesOut(i) \/ RetryPublishFails(i) \/ RequeueFails(i)
        PROVE  FALSE
    BY <2>6 DEF HandlerTimesOut, RetryPublishFails, RequeueFails
  <2>7. ASSUME NEW i \in Copies, PublishToRetryQueue(i)
        PROVE  \E k \in Copies : k \in Live(m)'
    <3>1. PICK j \in Copies :
            /\ Free(j)
            /\ copies' = [copies EXCEPT
                             ![j] = Stored("delay", copies[i].msg, copies[i].rc + 1),
                             ![i].at = "ack"]
      BY <2>7 DEF PublishToRetryQueue
    <3>2. PICK k \in Copies : k \in Live(m)
      BY <2>2, <2>7 DEF PublishToRetryQueue
    <3>3. k # j /\ i # j
      BY <2>7, <3>1, <3>2 DEF Free, PublishToRetryQueue
    <3>4. CASE k = i
      BY <3>1, <3>2, <3>3, <3>4 DEF Stored, TypeOK
    <3>5. CASE k # i
      BY <3>1, <3>2, <3>3, <3>5 DEF TypeOK
    <3>6. QED
      BY <3>4, <3>5
  <2>8. ASSUME NEW i \in Copies, Ack(i) \/ RequeueAck(i)
        PROVE  \E k \in Copies : k \in Live(m)'
    BY <2>2, <2>8 DEF Ack, RequeueAck, TypeOK
  <2>9. ASSUME NEW i \in Copies, Reject(i)
        PROVE  \E k \in Copies : k \in Live(m)'
    BY <2>2, <2>9 DEF Reject, Stored, TypeOK
  <2>10. ASSUME NEW i \in Copies, Expire(i)
         PROVE  \E k \in Copies : k \in Live(m)'
    BY <2>2, <2>10 DEF Expire, Move, TypeOK
  <2>11. ASSUME NEW i \in Copies, RequeuePublish(i)
         PROVE  \E k \in Copies : k \in Live(m)'
    <3>1. PICK j \in Copies :
            /\ Free(j)
            /\ copies' = [copies EXCEPT
                             ![j] = Stored("queue", copies[i].msg, copies[i].rc),
                             ![i].at = "republished"]
      BY <2>11 DEF RequeuePublish
    <3>2. PICK k \in Copies : k \in Live(m)
      BY <2>2, <2>11 DEF RequeuePublish
    <3>3. k # j /\ i # j
      BY <2>11, <3>1, <3>2 DEF Free, RequeuePublish
    <3>4. CASE k = i
      BY <3>1, <3>2, <3>3, <3>4 DEF Stored, TypeOK
    <3>5. CASE k # i
      BY <3>1, <3>2, <3>3, <3>5 DEF TypeOK
    <3>6. QED
      BY <3>4, <3>5
  <2>12. ASSUME NEW i \in Copies, ConnectionLost(i)
         PROVE  \E k \in Copies : k \in Live(m)'
    <3>1. PICK j \in Copies :
            /\ Free(j)
            /\ copies' = [copies EXCEPT
                             ![j] = Stored("queue", copies[i].msg, copies[i].rc),
                             ![i].orphan = TRUE]
      BY <2>12 DEF ConnectionLost
    <3>2. PICK k \in Copies : k \in Live(m)
      BY <2>2, <2>12 DEF ConnectionLost
    <3>3. k # j /\ i # j
      BY <2>12, <3>1, <3>2 DEF Free, ConnectionLost
    <3>4. CASE k = i
      BY <3>1, <3>2, <3>3, <3>4 DEF Stored, TypeOK
    <3>5. CASE k # i
      BY <3>1, <3>2, <3>3, <3>5 DEF TypeOK
    <3>6. QED
      BY <3>4, <3>5
  <2>13. ASSUME NEW p \in Processes, Crash(p)
         PROVE  \E k \in Copies : k \in Live(m)'
    <3>1. PICK k \in Copies : k \in Live(m)
      BY <2>2, <2>13 DEF Crash
    <3>2. k \in Live(m)'
      BY <2>13, <3>1 DEF Crash, Returned, Stored
    <3>3. QED
      BY <3>2
  <2>14. ASSUME NEW p \in Processes, Pause(p)
         PROVE  \E k \in Copies : k \in Live(m)'
    <3>1. PICK k \in Copies : k \in Live(m)
      BY <2>2, <2>14 DEF Pause
    <3>2. k \in Live(m)'
      BY <2>14, <3>1 DEF Pause, Stored
    <3>3. QED
      BY <3>2
  <2>15. ASSUME NEW p \in Processes, Resume(p)
         PROVE  \E k \in Copies : k \in Live(m)'
    BY <2>2, <2>15 DEF Resume
  <2>16. CASE UNCHANGED vars
    BY <2>2, <2>16 DEF vars
  <2>17. QED
    BY <2>1, <2>3, <2>4, <2>5, <2>6, <2>7, <2>8, <2>9, <2>10, <2>11, <2>12,
       <2>13, <2>14, <2>15, <2>16 DEF Next, Consume, Requeue
<1>3. QED
  BY <1>1, <1>2, DeliveryTypeOK, PTL DEF Spec

-----------------------------------------------------------------------------
\* A copy's retry count never runs ahead of the attempts made on its message,
\* and a copy is rejected only when its count has reached MAX_RETRIES.
THEOREM RetryCountIsEarned == Spec => []CountsAttempts
<1> USE DEF Places, InBroker, InConsumer, InRequeuer
<1>1. Init => CountsAttempts
  BY DEF Init, CountsAttempts, FreeSlot
<1>2. TypeOK /\ CountsAttempts /\ [Next]_vars => CountsAttempts'
  <2> SUFFICES ASSUME TypeOK, CountsAttempts, [Next]_vars
               PROVE  CountsAttempts'
    OBVIOUS
  <2> USE DEF CountsAttempts
  <2>0. \A i \in Copies : copies[i] \in Copy /\ WellFormed(copies[i])
    BY DEF TypeOK
  <2> USE <2>0
  <2>1. ASSUME NEW m \in Messages, Publish(m)
        PROVE  CountsAttempts'
    BY <2>1 DEF Publish, Stored, AttemptsSoFar, TypeOK
  <2>2. ASSUME NEW p \in Processes, NEW i \in Copies, Deliver(p, i)
        PROVE  CountsAttempts'
    <3>1. copies[i].msg \in Messages
      BY <2>2 DEF Deliver, WellFormed
    <3>2. \A n \in Messages : attempts'[n] >= attempts[n]
      BY <2>2, <3>1 DEF Deliver, TypeOK
    <3>3. attempts'[copies[i].msg] = attempts[copies[i].msg] + 1
      BY <2>2, <3>1 DEF Deliver, TypeOK
    <3>4. \A k \in Copies : copies'[k] =
             IF k = i THEN [copies[i] EXCEPT !.at = "handler", !.by = p] ELSE copies[k]
      BY <2>2 DEF Deliver, TypeOK
    <3>5. attempts \in [Messages -> Nat] /\ attempts' \in [Messages -> Nat]
      BY <2>2, <3>1 DEF Deliver, TypeOK
    <3>6. ASSUME NEW k \in Copies, copies'[k].at # "free"
          PROVE  attempts'[copies'[k].msg] >= AttemptsSoFar(copies'[k])
      <4>1. CASE k = i
        <5>1. /\ copies'[k].msg = copies[i].msg
              /\ copies'[k].rc = copies[i].rc
              /\ copies'[k].at = "handler"
          BY <3>4, <4>1 DEF Copy
        <5>2. attempts[copies[i].msg] >= copies[i].rc
          BY <2>2 DEF Deliver, AttemptsSoFar
        <5>3. copies[i].rc \in Nat /\ attempts[copies[i].msg] \in Nat
          BY <3>1, <3>5 DEF Copy
        <5>4. QED
          BY <3>3, <5>1, <5>2, <5>3 DEF AttemptsSoFar
      <4>2. CASE k # i
        <5>1. copies'[k] = copies[k] /\ copies[k].msg \in Messages
          BY <3>4, <3>6, <4>2 DEF WellFormed
        <5>2. AttemptsSoFar(copies[k]) \in Nat
          BY DEF AttemptsSoFar, Copy
        <5>3. QED
          BY <3>2, <3>5, <3>6, <5>1, <5>2
      <4>3. QED
        BY <4>1, <4>2
    <3>7. ASSUME NEW k \in Copies, copies'[k].at \in {"reject", "dlq"}
          PROVE  copies'[k] = copies[k]
      <4>1. copies'[i].at = "handler"
        BY <3>1, <3>4 DEF Copy
      <4>2. QED
        BY <3>4, <3>7, <4>1
    <3>8. QED
      BY <3>6, <3>7
  <2>3. ASSUME NEW p \in Processes, NEW i \in Copies, RequeueTake(p, i)
        PROVE  CountsAttempts'
    BY <2>3 DEF RequeueTake, AttemptsSoFar, TypeOK, Copy
  <2>4. ASSUME NEW i \in Copies,
               HandlerReturns(i) \/ HandlerRaises(i) \/ HandlerTimesOut(i)
        PROVE  CountsAttempts'
    BY <2>4 DEF HandlerReturns, HandlerRaises, HandlerTimesOut, Move,
                AttemptsSoFar, TypeOK, Copy
  <2>5. ASSUME NEW i \in Copies, PublishToRetryQueue(i)
        PROVE  CountsAttempts'
    <3>1. PICK j \in Copies :
            /\ Free(j)
            /\ copies' = [copies EXCEPT
                             ![j] = Stored("delay", copies[i].msg, copies[i].rc + 1),
                             ![i].at = "ack"]
      BY <2>5 DEF PublishToRetryQueue
    <3>2. i # j
      BY <2>5, <3>1 DEF PublishToRetryQueue, Free
    <3>3. \A k \in Copies : copies'[k] =
             IF k = j THEN Stored("delay", copies[i].msg, copies[i].rc + 1)
             ELSE IF k = i THEN [copies[i] EXCEPT !.at = "ack"]
             ELSE copies[k]
      BY <3>1, <3>2 DEF TypeOK
    <3>4. attempts' = attempts
      BY <2>5 DEF PublishToRetryQueue
    <3>5. ASSUME NEW k \in Copies
          PROVE  /\ copies'[k].at # "free" =>
                       attempts[copies'[k].msg] >= AttemptsSoFar(copies'[k])
                 /\ copies'[k].at = "reject" => copies'[k].rc = MaxRetries
                 /\ (copies'[k].at = "dlq" /\ MaxPauses = 0) =>
                       copies'[k].rc = MaxRetries
      <4>1. CASE k = j
        <5>1. copies'[k] = Stored("delay", copies[i].msg, copies[i].rc + 1)
          BY <3>3, <4>1
        <5>2. attempts[copies[i].msg] >= AttemptsSoFar(copies[i])
          BY <2>5 DEF PublishToRetryQueue
        <5>3. AttemptsSoFar(copies[i]) >= copies[i].rc + 1
          BY <2>5 DEF PublishToRetryQueue, AttemptsSoFar, Copy
        <5>4. /\ copies[i].rc \in Nat
              /\ AttemptsSoFar(copies[i]) \in Nat
              /\ attempts[copies[i].msg] \in Nat
          BY <2>5 DEF PublishToRetryQueue, AttemptsSoFar, WellFormed, TypeOK, Copy
        <5>5. attempts[copies[i].msg] >= copies[i].rc + 1
          BY <5>2, <5>3, <5>4
        <5>6. QED
          BY <5>1, <5>5 DEF Stored, AttemptsSoFar
      <4>2. CASE k = i
        <5>1. copies'[k] = [copies[i] EXCEPT !.at = "ack"]
          BY <3>2, <3>3, <4>2
        <5>2. /\ copies'[k].msg = copies[i].msg
              /\ copies'[k].rc = copies[i].rc
              /\ copies'[k].at = "ack"
          BY <5>1 DEF Copy
        <5>3. AttemptsSoFar(copies'[k]) = AttemptsSoFar(copies[i])
          BY <2>5, <5>2 DEF PublishToRetryQueue, AttemptsSoFar
        <5>4. QED
          BY <2>5, <5>2, <5>3 DEF PublishToRetryQueue
      <4>3. CASE k # i /\ k # j
        BY <3>3, <4>3
      <4>4. QED
        BY <4>1, <4>2, <4>3
    <3>6. QED
      BY <3>4, <3>5
  <2>6. ASSUME NEW i \in Copies,
               RetryPublishFails(i) \/ Expire(i)
        PROVE  CountsAttempts'
    BY <2>6 DEF RetryPublishFails, Expire, Move, AttemptsSoFar, TypeOK, Copy
  <2>7. ASSUME NEW i \in Copies, Ack(i) \/ RequeueAck(i)
        PROVE  CountsAttempts'
    BY <2>7 DEF Ack, RequeueAck, FreeSlot, TypeOK
  <2>8. ASSUME NEW i \in Copies, Reject(i)
        PROVE  CountsAttempts'
    BY <2>8 DEF Reject, FreeSlot, Stored, AttemptsSoFar, TypeOK
  <2>9. ASSUME NEW i \in Copies, RequeuePublish(i)
        PROVE  CountsAttempts'
    <3>1. PICK j \in Copies :
            /\ Free(j)
            /\ copies' = [copies EXCEPT
                             ![j] = Stored("queue", copies[i].msg, copies[i].rc),
                             ![i].at = "republished"]
      BY <2>9 DEF RequeuePublish
    <3>2. i # j
      BY <2>9, <3>1 DEF RequeuePublish, Free
    <3>3. \A k \in Copies : copies'[k] =
             IF k = j THEN Stored("queue", copies[i].msg, copies[i].rc)
             ELSE IF k = i THEN [copies[i] EXCEPT !.at = "republished"]
             ELSE copies[k]
      BY <3>1, <3>2 DEF TypeOK
    <3>4. attempts' = attempts
      BY <2>9 DEF RequeuePublish
    <3>5. ASSUME NEW k \in Copies
          PROVE  /\ copies'[k].at # "free" =>
                       attempts[copies'[k].msg] >= AttemptsSoFar(copies'[k])
                 /\ copies'[k].at = "reject" => copies'[k].rc = MaxRetries
                 /\ (copies'[k].at = "dlq" /\ MaxPauses = 0) =>
                       copies'[k].rc = MaxRetries
      <4>1. CASE k = j
        <5>1. copies'[k] = Stored("queue", copies[i].msg, copies[i].rc)
          BY <3>3, <4>1
        <5>2. attempts[copies[i].msg] >= AttemptsSoFar(copies[i])
          BY <2>9 DEF RequeuePublish
        <5>3. AttemptsSoFar(copies[i]) >= copies[i].rc
          BY <2>9 DEF RequeuePublish, AttemptsSoFar, Copy
        <5>4. /\ copies[i].rc \in Nat
              /\ AttemptsSoFar(copies[i]) \in Nat
              /\ attempts[copies[i].msg] \in Nat
          BY <2>9 DEF RequeuePublish, AttemptsSoFar, WellFormed, TypeOK, Copy
        <5>5. attempts[copies[i].msg] >= copies[i].rc
          BY <5>2, <5>3, <5>4
        <5>6. QED
          BY <5>1, <5>5 DEF Stored, AttemptsSoFar
      <4>2. CASE k = i
        <5>1. copies'[k] = [copies[i] EXCEPT !.at = "republished"]
          BY <3>2, <3>3, <4>2
        <5>2. /\ copies'[k].msg = copies[i].msg
              /\ copies'[k].rc = copies[i].rc
              /\ copies'[k].at = "republished"
          BY <5>1 DEF Copy
        <5>3. AttemptsSoFar(copies'[k]) = AttemptsSoFar(copies[i])
          BY <2>9, <5>2 DEF RequeuePublish, AttemptsSoFar
        <5>4. QED
          BY <2>9, <5>2, <5>3 DEF RequeuePublish
      <4>3. CASE k # i /\ k # j
        BY <3>3, <4>3
      <4>4. QED
        BY <4>1, <4>2, <4>3
    <3>6. QED
      BY <3>4, <3>5
  <2>10. ASSUME NEW i \in Copies, RequeueFails(i)
         PROVE  CountsAttempts'
    BY <2>10 DEF RequeueFails, FreeSlot, Stored, AttemptsSoFar, TypeOK
  <2>11. ASSUME NEW i \in Copies, ConnectionLost(i)
        PROVE  CountsAttempts'
    <3>1. PICK j \in Copies :
            /\ Free(j)
            /\ copies' = [copies EXCEPT
                             ![j] = Stored("queue", copies[i].msg, copies[i].rc),
                             ![i].orphan = TRUE]
      BY <2>11 DEF ConnectionLost
    <3>2. i # j
      BY <2>11, <3>1 DEF ConnectionLost, Free
    <3>3. \A k \in Copies : copies'[k] =
             IF k = j THEN Stored("queue", copies[i].msg, copies[i].rc)
             ELSE IF k = i THEN [copies[i] EXCEPT !.orphan = TRUE]
             ELSE copies[k]
      BY <3>1, <3>2 DEF TypeOK
    <3>4. attempts' = attempts
      BY <2>11 DEF ConnectionLost
    <3>5. ASSUME NEW k \in Copies
          PROVE  /\ copies'[k].at # "free" =>
                       attempts[copies'[k].msg] >= AttemptsSoFar(copies'[k])
                 /\ copies'[k].at = "reject" => copies'[k].rc = MaxRetries
                 /\ (copies'[k].at = "dlq" /\ MaxPauses = 0) =>
                       copies'[k].rc = MaxRetries
      <4>1. CASE k = j
        <5>1. copies'[k] = Stored("queue", copies[i].msg, copies[i].rc)
          BY <3>3, <4>1
        <5>2. attempts[copies[i].msg] >= AttemptsSoFar(copies[i])
          BY <2>11 DEF ConnectionLost
        <5>3. AttemptsSoFar(copies[i]) >= copies[i].rc
          BY <2>11 DEF ConnectionLost, AttemptsSoFar, Copy
        <5>4. /\ copies[i].rc \in Nat
              /\ AttemptsSoFar(copies[i]) \in Nat
              /\ attempts[copies[i].msg] \in Nat
          BY <2>11 DEF ConnectionLost, AttemptsSoFar, WellFormed, TypeOK, Copy
        <5>5. attempts[copies[i].msg] >= copies[i].rc
          BY <5>2, <5>3, <5>4
        <5>6. QED
          BY <5>1, <5>5 DEF Stored, AttemptsSoFar
      <4>2. CASE k = i
        <5>1. copies'[k] = [copies[i] EXCEPT !.orphan = TRUE]
          BY <3>2, <3>3, <4>2
        <5>2. /\ copies'[k].msg = copies[i].msg
              /\ copies'[k].rc = copies[i].rc
              /\ copies'[k].at = copies[i].at
          BY <5>1 DEF Copy
        <5>3. AttemptsSoFar(copies'[k]) = AttemptsSoFar(copies[i])
          BY <2>11, <5>2 DEF ConnectionLost, AttemptsSoFar
        <5>4. QED
          BY <2>11, <5>2, <5>3 DEF ConnectionLost
      <4>3. CASE k # i /\ k # j
        BY <3>3, <4>3
      <4>4. QED
        BY <4>1, <4>2, <4>3
    <3>6. QED
      BY <3>4, <3>5
  <2>12. ASSUME NEW p \in Processes, Crash(p)
         PROVE  CountsAttempts'
    <3>1. attempts' = attempts
      BY <2>12 DEF Crash
    <3>2. ASSUME NEW k \in Copies
          PROVE  /\ copies'[k].at # "free" =>
                       attempts[copies'[k].msg] >= AttemptsSoFar(copies'[k])
                 /\ copies'[k].at = "reject" => copies'[k].rc = MaxRetries
                 /\ (copies'[k].at = "dlq" /\ MaxPauses = 0) =>
                       copies'[k].rc = MaxRetries
      <4>1. CASE copies[k].by # p
        BY <2>12, <4>1 DEF Crash
      <4>2. CASE copies[k].by = p
        <5>1. copies'[k] = Returned(copies[k])
          BY <2>12, <4>2 DEF Crash
        <5>2. copies[k].at # "free" /\ copies[k].msg \in Messages
          BY <4>2 DEF WellFormed
        <5>3. AttemptsSoFar(copies[k]) >= copies[k].rc
          BY DEF AttemptsSoFar, Copy
        <5>4. attempts[copies[k].msg] >= copies[k].rc
          BY <5>2, <5>3 DEF TypeOK, Copy, AttemptsSoFar
        <5>5. QED
          BY <5>1, <5>4 DEF Returned, FreeSlot, Stored, AttemptsSoFar
      <4>3. QED
        BY <4>1, <4>2
    <3>3. QED
      BY <3>1, <3>2
  <2>13. ASSUME NEW p \in Processes, Pause(p)
         PROVE  CountsAttempts'
    <3>1. MaxPauses # 0
      BY <2>13 DEF Pause, TypeOK
    <3>2. QED
      BY <2>13, <3>1 DEF Pause, Held, FreeSlot, Stored, AttemptsSoFar
  <2>14. ASSUME NEW p \in Processes, Resume(p)
         PROVE  CountsAttempts'
    BY <2>14 DEF Resume
  <2>15. CASE UNCHANGED vars
    BY <2>15 DEF vars
  <2>16. QED
    BY <2>1, <2>2, <2>3, <2>4, <2>5, <2>6, <2>7, <2>8, <2>9, <2>10, <2>11,
       <2>12, <2>13, <2>14, <2>15 DEF Next, Consume, Requeue
<1>3. QED
  BY <1>1, <1>2, DeliveryTypeOK, PTL DEF Spec

\* A message reaches the dead-letter queue only after its first try and all its
\* retries have run (connection.py:24), unless the consume loop is cancelled.
THEOREM DeadLetterNeedsAllRetries == Spec => []DeadLetterIsEarnedUnpaused
<1>1. TypeOK /\ CountsAttempts => DeadLetterIsEarnedUnpaused
  <2> SUFFICES ASSUME TypeOK, CountsAttempts, MaxPauses = 0,
                      NEW i \in Copies, copies[i].at = "dlq"
               PROVE  attempts[copies[i].msg] >= MaxRetries + 1
    BY DEF DeadLetterIsEarnedUnpaused, DeadLetterIsEarned
  <2> QED
    BY DEF CountsAttempts, AttemptsSoFar
<1>2. QED
  BY <1>1, DeliveryTypeOK, RetryCountIsEarned, PTL

-----------------------------------------------------------------------------
\* While no process has crashed and no connection was lost, there are no orphans
\* and a live copy is the only one of its message, its count the attempts made so
\* far, even across pauses and the code's own faults.
THEOREM UnbrokenRunsAreCounted == Spec => []Unbroken
<1> USE DEF Places, InBroker, InConsumer, InRequeuer
<1> USE DEF Unbroken
<1>1. Init => Unbroken
  BY DEF Init, FreeSlot, IsLive
<1>2. TypeOK /\ Unbroken /\ [Next]_vars => Unbroken'
  <2> SUFFICES ASSUME TypeOK, Unbroken, [Next]_vars, breaks' = 0, breaks = 0
               PROVE  Unbroken'
    <3>1. ASSUME TypeOK, [Next]_vars, breaks' = 0
          PROVE  breaks = 0
      <4>1. breaks \in Nat /\ breaks + 1 # 0
        BY <3>1 DEF TypeOK
      <4>2. ASSUME NEW i \in Copies, Consume(i) \/ Requeue(i)
            PROVE  breaks' = breaks
        BY <4>2 DEF Consume, Requeue, HandlerReturns, HandlerRaises,
           HandlerTimesOut, PublishToRetryQueue, RetryPublishFails, Ack, Reject,
           Expire, RequeuePublish, RequeueAck, RequeueFails
      <4>3. ASSUME NEW i \in Copies, ConnectionLost(i)
            PROVE  breaks' = breaks + 1
        BY <4>3 DEF ConnectionLost
      <4>4. ASSUME NEW p \in Processes, NEW i \in Copies,
                   Deliver(p, i) \/ RequeueTake(p, i)
            PROVE  breaks' = breaks
        BY <4>4 DEF Deliver, RequeueTake
      <4>5. ASSUME NEW p \in Processes, Crash(p)
            PROVE  breaks' = breaks + 1
        BY <4>5 DEF Crash
      <4>6. ASSUME NEW p \in Processes, Pause(p) \/ Resume(p)
            PROVE  breaks' = breaks
        BY <4>6 DEF Pause, Resume
      <4>7. ASSUME NEW m \in Messages, Publish(m)
            PROVE  breaks' = breaks
        BY <4>7 DEF Publish
      <4>8. QED
        BY <3>1, <4>1, <4>2, <4>3, <4>4, <4>5, <4>6, <4>7 DEF Next, vars
    <3>2. QED
      BY <3>1
  <2>0. \A i \in Copies : copies[i] \in Copy /\ WellFormed(copies[i])
    BY DEF TypeOK
  <2> USE <2>0
  <2>1. ASSUME NEW m \in Messages, Publish(m)
        PROVE  Unbroken'
    <3>1. PICK j \in Copies :
            Free(j) /\ copies' = [copies EXCEPT ![j] = Stored("queue", m, 0)]
      BY <2>1 DEF Publish
    <3>2. /\ copies'[j] = Stored("queue", m, 0)
          /\ \A k \in Copies \ {j} : copies'[k] = copies[k]
      BY <3>1 DEF TypeOK
    <3>3. m \notin published /\ published' = published \cup {m} /\ attempts' = attempts
      BY <2>1 DEF Publish
    <3>4. /\ copies'[j].msg = m /\ ~copies'[j].orphan
          /\ AttemptsSoFar(copies'[j]) = 0
      BY <3>2 DEF Stored, AttemptsSoFar
    <3>5. \A k \in Copies \ {j} : IsLive(copies[k]) => copies'[k].msg # m
      BY <3>2, <3>3 DEF IsLive
    <3>6. QED
      BY <3>2, <3>3, <3>4, <3>5
  <2>2. ASSUME NEW p \in Processes, NEW i \in Copies, Deliver(p, i)
        PROVE  Unbroken'
    <3>1. /\ copies'[i] = [copies[i] EXCEPT !.at = "handler", !.by = p]
          /\ \A k \in Copies \ {i} : copies'[k] = copies[k]
      BY <2>2 DEF Deliver, TypeOK
    <3>2. IsLive(copies[i]) /\ copies[i].msg \in Messages /\ copies[i].rc \in 0..MaxRetries
      BY <2>2 DEF Deliver, IsLive, WellFormed, Copy
    <3>3. /\ copies'[i].msg = copies[i].msg /\ copies'[i].rc = copies[i].rc
          /\ copies'[i].at = "handler" /\ ~copies'[i].orphan
      BY <3>1 DEF Copy
    <3>4. /\ attempts[copies[i].msg] = copies[i].rc
          /\ attempts'[copies[i].msg] = copies[i].rc + 1
          /\ \A n \in Messages \ {copies[i].msg} : attempts'[n] = attempts[n]
          /\ published' = published
      BY <2>2, <3>2 DEF Deliver, AttemptsSoFar, TypeOK
    <3>5. AttemptsSoFar(copies'[i]) = copies[i].rc + 1 /\ IsLive(copies'[i])
      BY <3>3 DEF AttemptsSoFar, IsLive
    <3>6. \A k \in Copies \ {i} : IsLive(copies[k]) =>
             copies[k].msg \in Messages \ {copies[i].msg}
      BY <3>2 DEF IsLive, WellFormed
    <3>7. \A n \in Messages : attempts'[n] <= MaxRetries + 1
      BY <3>2, <3>4
    <3>8. copies[i].msg \in published
      BY <2>2 DEF Deliver
    <3>9. \A k \in Copies : IsLive(copies'[k]) =>
             IsLive(copies[k]) /\ copies'[k].msg = copies[k].msg
      BY <3>1, <3>2, <3>3
    <3>10. ASSUME NEW k \in Copies, IsLive(copies'[k])
           PROVE  attempts'[copies'[k].msg] = AttemptsSoFar(copies'[k])
      <4>1. CASE k = i
        BY <3>3, <3>4, <3>5, <4>1
      <4>2. CASE k # i
        <5>1. copies'[k] = copies[k]
          BY <3>1, <4>2
        <5>2. attempts'[copies[k].msg] = attempts[copies[k].msg]
          BY <3>4, <3>6, <3>10, <4>2, <5>1
        <5>3. QED
          BY <3>10, <5>1, <5>2
      <4>3. QED
        BY <4>1, <4>2
    <3>11. \A k, l \in Copies :
              IsLive(copies'[k]) /\ IsLive(copies'[l]) /\ copies'[k].msg = copies'[l].msg
                => k = l
      BY <3>9
    <3>12. \A k \in Copies :
              /\ ~copies'[k].orphan
              /\ copies'[k].at # "free" => copies'[k].msg \in published'
      BY <3>1, <3>3, <3>4, <3>8
    <3>13. \A n \in Messages \ published' : attempts'[n] = 0
      BY <3>4, <3>8
    <3>14. QED
      BY <3>7, <3>10, <3>11, <3>12, <3>13
  <2>3. ASSUME NEW i \in Copies,
               \/ HandlerReturns(i) \/ HandlerRaises(i) \/ HandlerTimesOut(i)
               \/ RetryPublishFails(i) \/ Expire(i)
               \/ \E p \in Processes : RequeueTake(p, i)
        PROVE  Unbroken'
    <3>1. /\ copies' \in [Copies -> Copy]
          /\ \A k \in Copies \ {i} : copies'[k] = copies[k]
          /\ copies'[i].msg = copies[i].msg
          /\ copies'[i].rc = copies[i].rc
          /\ ~copies'[i].orphan
          /\ UNCHANGED <<published, attempts>>
      BY <2>3 DEF HandlerReturns, HandlerRaises, HandlerTimesOut, Move,
         RetryPublishFails, Expire, RequeueTake, TypeOK, Copy
    <3>2. /\ IsLive(copies[i])
          /\ IsLive(copies'[i]) => AttemptsSoFar(copies'[i]) = AttemptsSoFar(copies[i])
      BY <2>3 DEF HandlerReturns, HandlerRaises, HandlerTimesOut, Move,
         RetryPublishFails, Expire, RequeueTake, TypeOK, IsLive, AttemptsSoFar, Copy
    <3>3. copies[i].msg \in published
      BY <3>2 DEF IsLive
    <3>4. QED
      BY <3>1, <3>2, <3>3
  <2>4. ASSUME NEW i \in Copies, PublishToRetryQueue(i)
        PROVE  Unbroken'
    <3>1. PICK j \in Copies :
            /\ Free(j)
            /\ copies' = [copies EXCEPT
                             ![j] = Stored("delay", copies[i].msg, copies[i].rc + 1),
                             ![i].at = "ack"]
      BY <2>4 DEF PublishToRetryQueue
    <3>2. i # j
      BY <2>4, <3>1 DEF PublishToRetryQueue, Free
    <3>3. /\ copies'[j] = Stored("delay", copies[i].msg, copies[i].rc + 1)
          /\ copies'[i] = [copies[i] EXCEPT !.at = "ack"]
          /\ \A k \in Copies \ {i, j} : copies'[k] = copies[k]
      BY <3>1, <3>2 DEF TypeOK
    <3>4. UNCHANGED <<published, attempts>>
      BY <2>4 DEF PublishToRetryQueue
    <3>5. /\ IsLive(copies[i]) /\ copies[i].msg \in published
          /\ attempts[copies[i].msg] = AttemptsSoFar(copies[i])
          /\ AttemptsSoFar(copies[i]) = copies[i].rc + 1
      BY <2>4 DEF PublishToRetryQueue, IsLive, AttemptsSoFar
    <3>6. /\ ~IsLive(copies'[i]) /\ ~IsLive(copies[j])
          /\ copies'[i].msg = copies[i].msg
          /\ ~copies'[i].orphan
      BY <3>1, <3>3 DEF IsLive, Free, Copy
    <3>7. /\ copies'[j].msg = copies[i].msg
          /\ ~copies'[j].orphan
          /\ AttemptsSoFar(copies'[j]) = copies[i].rc + 1
      BY <3>3 DEF Stored, AttemptsSoFar
    <3>8. ASSUME NEW k \in Copies, IsLive(copies'[k])
          PROVE  /\ k # i
                 /\ k = j => copies'[k].msg = copies[i].msg
                 /\ k # j => copies'[k] = copies[k] /\ copies[k].msg # copies[i].msg
      BY <3>3, <3>5, <3>6, <3>7, <3>8
    <3>9. \A k \in Copies : IsLive(copies'[k]) =>
             attempts'[copies'[k].msg] = AttemptsSoFar(copies'[k])
      BY <3>4, <3>5, <3>7, <3>8
    <3>10. \A k, l \in Copies :
             IsLive(copies'[k]) /\ IsLive(copies'[l]) /\ copies'[k].msg = copies'[l].msg
               => k = l
      BY <3>8
    <3>11. \A k \in Copies :
              /\ ~copies'[k].orphan
              /\ copies'[k].at # "free" => copies'[k].msg \in published'
      <4>1. copies'[j].msg \in published' /\ copies'[i].msg \in published'
        BY <3>4, <3>5, <3>6, <3>7
      <4>2. ASSUME NEW k \in Copies \ {i, j}
            PROVE  ~copies'[k].orphan /\ copies'[k].at # "free" => copies'[k].msg \in published'
        BY <3>3, <3>4
      <4>3. ASSUME NEW k \in Copies \ {i, j}
            PROVE  ~copies'[k].orphan
        BY <3>3
      <4>4. QED
        BY <3>6, <3>7, <4>1, <4>2, <4>3
    <3>12. QED
      BY <3>4, <3>9, <3>10, <3>11
  <2>5. ASSUME NEW i \in Copies, RequeuePublish(i)
        PROVE  Unbroken'
    <3>1. PICK j \in Copies :
            /\ Free(j)
            /\ copies' = [copies EXCEPT
                             ![j] = Stored("queue", copies[i].msg, copies[i].rc),
                             ![i].at = "republished"]
      BY <2>5 DEF RequeuePublish
    <3>2. i # j
      BY <2>5, <3>1 DEF RequeuePublish, Free
    <3>3. /\ copies'[j] = Stored("queue", copies[i].msg, copies[i].rc)
          /\ copies'[i] = [copies[i] EXCEPT !.at = "republished"]
          /\ \A k \in Copies \ {i, j} : copies'[k] = copies[k]
      BY <3>1, <3>2 DEF TypeOK
    <3>4. UNCHANGED <<published, attempts>>
      BY <2>5 DEF RequeuePublish
    <3>5. /\ IsLive(copies[i]) /\ copies[i].msg \in published
          /\ attempts[copies[i].msg] = AttemptsSoFar(copies[i])
          /\ AttemptsSoFar(copies[i]) = copies[i].rc
      BY <2>5 DEF RequeuePublish, IsLive, AttemptsSoFar
    <3>6. /\ ~IsLive(copies'[i]) /\ ~IsLive(copies[j])
          /\ copies'[i].msg = copies[i].msg
          /\ ~copies'[i].orphan
      BY <3>1, <3>3 DEF IsLive, Free, Copy
    <3>7. /\ copies'[j].msg = copies[i].msg
          /\ ~copies'[j].orphan
          /\ AttemptsSoFar(copies'[j]) = copies[i].rc
      BY <3>3 DEF Stored, AttemptsSoFar
    <3>8. ASSUME NEW k \in Copies, IsLive(copies'[k])
          PROVE  /\ k # i
                 /\ k = j => copies'[k].msg = copies[i].msg
                 /\ k # j => copies'[k] = copies[k] /\ copies[k].msg # copies[i].msg
      BY <3>3, <3>5, <3>6, <3>7, <3>8
    <3>9. \A k \in Copies : IsLive(copies'[k]) =>
             attempts'[copies'[k].msg] = AttemptsSoFar(copies'[k])
      BY <3>4, <3>5, <3>7, <3>8
    <3>10. \A k, l \in Copies :
             IsLive(copies'[k]) /\ IsLive(copies'[l]) /\ copies'[k].msg = copies'[l].msg
               => k = l
      BY <3>8
    <3>11. \A k \in Copies :
              /\ ~copies'[k].orphan
              /\ copies'[k].at # "free" => copies'[k].msg \in published'
      <4>1. copies'[j].msg \in published' /\ copies'[i].msg \in published'
        BY <3>4, <3>5, <3>6, <3>7
      <4>2. ASSUME NEW k \in Copies \ {i, j}
            PROVE  ~copies'[k].orphan /\ copies'[k].at # "free" => copies'[k].msg \in published'
        BY <3>3, <3>4
      <4>3. ASSUME NEW k \in Copies \ {i, j}
            PROVE  ~copies'[k].orphan
        BY <3>3
      <4>4. QED
        BY <3>6, <3>7, <4>1, <4>2, <4>3
    <3>12. QED
      BY <3>4, <3>9, <3>10, <3>11
  <2>6. ASSUME NEW i \in Copies,
               Ack(i) \/ RequeueAck(i) \/ Reject(i) \/ RequeueFails(i)
        PROVE  Unbroken'
    <3>1. PICK c : /\ copies' = [copies EXCEPT ![i] = c]
                   /\ \/ c = FreeSlot
                      \/ /\ copies[i].at = "reject"
                         /\ c = Stored("dlq", copies[i].msg, copies[i].rc)
                      \/ /\ copies[i].at = "republish"
                         /\ c = Stored("requeue", copies[i].msg, copies[i].rc)
      BY <2>6 DEF Ack, RequeueAck, Reject, RequeueFails
    <3>2. copies'[i] = c /\ \A k \in Copies \ {i} : copies'[k] = copies[k]
      BY <3>1 DEF TypeOK
    <3>3. UNCHANGED <<published, attempts>>
      BY <2>6 DEF Ack, RequeueAck, Reject, RequeueFails
    <3>4. ~c.orphan
      BY <3>1 DEF FreeSlot, Stored
    <3>5. IsLive(c) => /\ IsLive(copies[i]) /\ c.msg = copies[i].msg
                       /\ AttemptsSoFar(c) = AttemptsSoFar(copies[i])
      BY <3>1 DEF FreeSlot, Stored, IsLive, AttemptsSoFar
    <3>6. c.at # "free" => copies[i].at # "free" /\ c.msg = copies[i].msg
      BY <3>1 DEF FreeSlot, Stored
    <3>7. QED
      BY <3>2, <3>3, <3>4, <3>5, <3>6
  <2>7. ASSUME NEW i \in Copies, ConnectionLost(i)
        PROVE  Unbroken'
    BY <2>7 DEF ConnectionLost
  <2>8. ASSUME NEW p \in Processes, Crash(p)
        PROVE  Unbroken'
    BY <2>8 DEF Crash
  <2>9. ASSUME NEW p \in Processes, Pause(p)
        PROVE  Unbroken'
    <3>1. \A k \in Copies :
             \/ copies'[k] = copies[k]
             \/ /\ copies[k].at \in {"handler", "retry"}
                /\ copies'[k] = Stored("dlq", copies[k].msg, copies[k].rc)
      BY <2>9 DEF Pause, Held
    <3>2. UNCHANGED <<published, attempts>>
      BY <2>9 DEF Pause
    <3>3. ASSUME NEW k \in Copies
          PROVE  /\ copies'[k].msg = copies[k].msg /\ ~copies'[k].orphan
                 /\ copies'[k].at # "free" => copies[k].at # "free"
                 /\ IsLive(copies'[k]) =>
                       /\ IsLive(copies[k])
                       /\ AttemptsSoFar(copies'[k]) = AttemptsSoFar(copies[k])
      <4>1. CASE copies'[k] = copies[k]
        BY <4>1
      <4>2. CASE /\ copies[k].at \in {"handler", "retry"}
                 /\ copies'[k] = Stored("dlq", copies[k].msg, copies[k].rc)
        BY <4>2 DEF Stored, IsLive, AttemptsSoFar
      <4>3. QED
        BY <3>1, <4>1, <4>2
    <3>4. QED
      BY <3>2, <3>3
  <2>10. ASSUME NEW p \in Processes, Resume(p)
         PROVE  Unbroken'
    BY <2>10 DEF Resume
  <2>11. CASE UNCHANGED vars
    BY <2>11 DEF vars
  <2>12. QED
    BY <2>1, <2>2, <2>3, <2>4, <2>5, <2>6, <2>7, <2>8, <2>9, <2>10, <2>11
       DEF Next, Consume, Requeue
<1>3. QED
  BY <1>1, <1>2, DeliveryTypeOK, PTL DEF Spec

\* While nothing has broken no two workers run the handler on the same message,
\* and it is run at most MAX_RETRIES + 1 times (connection.py:65).
THEOREM UnbrokenRunsAreInTurn == Spec => []TriedInTurn
<1>1. Unbroken => SingleFlight
  BY DEF Unbroken, SingleFlight, Live
<1>2. Unbroken => AttemptsBounded
  BY DEF Unbroken, AttemptsBounded
<1>3. Unbroken => TriedInTurn
  BY <1>1, <1>2 DEF TriedInTurn
<1>4. QED
  BY <1>3, UnbrokenRunsAreCounted, PTL

-----------------------------------------------------------------------------
\* The refinement of AtLeastOnce.  It rests on this invariant: a free slot names
\* no message, only published messages have copies or have succeeded, and the
\* consume loop of a process works on one copy at a time.
Grounded ==
    /\ \A i \in Copies : copies[i].at = "free" => copies[i].msg = NoMessage
    /\ \A i \in Copies : copies[i].at # "free" => copies[i].msg \in published
    /\ succeeded \subseteq published
    /\ \A i, k \in Copies :
          /\ copies[i].at \in InConsumer /\ copies[k].at \in InConsumer
          /\ copies[i].by = copies[k].by
          => i = k

\* Wherever a copy goes, Grounded is kept by a step that leaves every other copy
\* alone but for a slot it fills, or that empties the copy's slot.
THEOREM CopiesAreGrounded == Spec => []Grounded
<1> USE DEF Places, InBroker, InConsumer, InRequeuer, Grounded
<1>1. Init => Grounded
  BY DEF Init, FreeSlot
<1>2. TypeOK /\ Grounded /\ [Next]_vars => Grounded'
  <2> SUFFICES ASSUME TypeOK, Grounded, [Next]_vars
               PROVE  Grounded'
    OBVIOUS
  <2>0. \A i \in Copies : copies[i] \in Copy /\ WellFormed(copies[i])
    BY DEF TypeOK
  <2>1. ASSUME NEW m \in Messages, Publish(m)
        PROVE  Grounded'
    BY <2>1, <2>0 DEF Publish, Free, Stored, TypeOK, WellFormed
  <2>2. ASSUME NEW p \in Processes, NEW i \in Copies, Deliver(p, i)
        PROVE  Grounded'
    BY <2>2, <2>0 DEF Deliver, Held, TypeOK, WellFormed, Copy
  <2>3. ASSUME NEW p \in Processes, NEW i \in Copies, RequeueTake(p, i)
        PROVE  Grounded'
    BY <2>3, <2>0 DEF RequeueTake, TypeOK, WellFormed, Copy
  <2>4. ASSUME NEW i \in Copies,
               \/ HandlerReturns(i) \/ HandlerRaises(i) \/ HandlerTimesOut(i)
               \/ RetryPublishFails(i) \/ Expire(i)
        PROVE  Grounded'
    BY <2>4, <2>0 DEF HandlerReturns, HandlerRaises, HandlerTimesOut,
       RetryPublishFails, Expire, Move, TypeOK, WellFormed, Copy
  <2>5. ASSUME NEW i \in Copies, Ack(i) \/ Reject(i) \/ RequeueAck(i)
        PROVE  Grounded'
    BY <2>5, <2>0 DEF Ack, Reject, RequeueAck, FreeSlot, Stored, TypeOK,
       WellFormed, Copy
  <2>6. ASSUME NEW i \in Copies, NEW j \in Copies, NEW r, NEW place \in InBroker,
               Free(j), ~Free(i),
               copies'[j] = Stored(place, copies[i].msg, r),
               /\ copies'[i].msg = copies[i].msg /\ copies'[i].at # "free"
               /\ copies'[i].by = copies[i].by
               /\ copies'[i].at \in InConsumer => copies[i].at \in InConsumer,
               \A k \in Copies \ {i, j} : copies'[k] = copies[k],
               UNCHANGED <<published, succeeded>>
        PROVE  Grounded'
    BY <2>6, <2>0 DEF Free, Stored, TypeOK, WellFormed, Copy
  <2>7. ASSUME NEW i \in Copies, PublishToRetryQueue(i)
        PROVE  Grounded'
    <3>1. PICK j \in Copies :
            /\ Free(j)
            /\ copies' = [copies EXCEPT
                             ![j] = Stored("delay", copies[i].msg, copies[i].rc + 1),
                             ![i].at = "ack"]
      BY <2>7 DEF PublishToRetryQueue
    <3>2. i # j /\ ~Free(i)
      BY <2>7, <3>1 DEF PublishToRetryQueue, Free
    <3>3. /\ copies'[j] = Stored("delay", copies[i].msg, copies[i].rc + 1)
          /\ copies'[i] = [copies[i] EXCEPT !.at = "ack"]
          /\ \A k \in Copies \ {i, j} : copies'[k] = copies[k]
      BY <3>1, <3>2 DEF TypeOK
    <3>4. /\ copies'[i].msg = copies[i].msg /\ copies'[i].at # "free"
          /\ copies'[i].by = copies[i].by
          /\ copies'[i].at \in InConsumer => copies[i].at \in InConsumer
      BY <2>7, <2>0, <3>2, <3>3 DEF PublishToRetryQueue, Free, Copy
    <3>5. "delay" \in InBroker /\ UNCHANGED <<published, succeeded>>
      BY <2>7 DEF PublishToRetryQueue
    <3>6. QED
      BY <2>6, <3>1, <3>2, <3>3, <3>4, <3>5
  <2>8. ASSUME NEW i \in Copies, RequeuePublish(i)
        PROVE  Grounded'
    <3>1. PICK j \in Copies :
            /\ Free(j)
            /\ copies' = [copies EXCEPT
                             ![j] = Stored("queue", copies[i].msg, copies[i].rc),
                             ![i].at = "republished"]
      BY <2>8 DEF RequeuePublish
    <3>2. i # j /\ ~Free(i)
      BY <2>8, <3>1 DEF RequeuePublish, Free
    <3>3. /\ copies'[j] = Stored("queue", copies[i].msg, copies[i].rc)
          /\ copies'[i] = [copies[i] EXCEPT !.at = "republished"]
          /\ \A k \in Copies \ {i, j} : copies'[k] = copies[k]
      BY <3>1, <3>2 DEF TypeOK
    <3>4. /\ copies'[i].msg = copies[i].msg /\ copies'[i].at # "free"
          /\ copies'[i].by = copies[i].by
          /\ copies'[i].at \in InConsumer => copies[i].at \in InConsumer
      BY <2>8, <2>0, <3>2, <3>3 DEF RequeuePublish, Free, Copy
    <3>5. "queue" \in InBroker /\ UNCHANGED <<published, succeeded>>
      BY <2>8 DEF RequeuePublish
    <3>6. QED
      BY <2>6, <3>1, <3>2, <3>3, <3>4, <3>5
  <2>9. ASSUME NEW i \in Copies, ConnectionLost(i)
        PROVE  Grounded'
    <3>1. PICK j \in Copies :
            /\ Free(j)
            /\ copies' = [copies EXCEPT
                             ![j] = Stored("queue", copies[i].msg, copies[i].rc),
                             ![i].orphan = TRUE]
      BY <2>9 DEF ConnectionLost
    <3>2. i # j /\ ~Free(i)
      BY <2>9, <3>1 DEF ConnectionLost, Free
    <3>3. /\ copies'[j] = Stored("queue", copies[i].msg, copies[i].rc)
          /\ copies'[i] = [copies[i] EXCEPT !.orphan = TRUE]
          /\ \A k \in Copies \ {i, j} : copies'[k] = copies[k]
      BY <3>1, <3>2 DEF TypeOK
    <3>4. /\ copies'[i].msg = copies[i].msg /\ copies'[i].at # "free"
          /\ copies'[i].by = copies[i].by
          /\ copies'[i].at \in InConsumer => copies[i].at \in InConsumer
      BY <2>9, <2>0, <3>2, <3>3 DEF ConnectionLost, Free, Copy
    <3>5. "queue" \in InBroker /\ UNCHANGED <<published, succeeded>>
      BY <2>9 DEF ConnectionLost
    <3>6. QED
      BY <2>6, <3>1, <3>2, <3>3, <3>4, <3>5
  <2>10. ASSUME NEW i \in Copies, RequeueFails(i)
         PROVE  Grounded'
    <3>1. PICK left \in {FreeSlot, Stored("requeue", copies[i].msg, copies[i].rc)} :
            copies' = [copies EXCEPT ![i] = left]
      BY <2>10 DEF RequeueFails
    <3>2. QED
      BY <2>10, <3>1, <2>0 DEF RequeueFails, FreeSlot, Stored, TypeOK, WellFormed
  <2>11. ASSUME NEW p \in Processes, Crash(p)
         PROVE  Grounded'
    <3>1. \A i \in Copies :
             copies'[i] = IF copies[i].by = p THEN Returned(copies[i]) ELSE copies[i]
      BY <2>11 DEF Crash
    <3>2. QED
      BY <2>11, <3>1, <2>0 DEF Crash, Returned, FreeSlot, Stored, WellFormed
  <2>12. ASSUME NEW p \in Processes, Pause(p)
         PROVE  Grounded'
    BY <2>12, <2>0 DEF Pause, Held, FreeSlot, Stored, TypeOK, WellFormed
  <2>13. ASSUME NEW p \in Processes, Resume(p)
         PROVE  Grounded'
    BY <2>13 DEF Resume
  <2>14. CASE UNCHANGED vars
    BY <2>14 DEF vars
  <2>15. QED
    BY <2>1, <2>2, <2>3, <2>4, <2>5, <2>7, <2>8, <2>9, <2>10, <2>11, <2>12,
       <2>13, <2>14 DEF Next, Consume, Requeue
<1>3. QED
  BY <1>1, <1>2, DeliveryTypeOK, PTL DEF Spec

\* Some copy of m is still on its way: in a queue, in a handler, or awaiting the
\* broker's confirmation.
UnderWay(m) == \E i \in Copies : copies[i].msg = m /\ copies[i].at # "dlq"

\* The fate of every message, read off what it was published to, what succeeded
\* and whether a copy is under way.
Fated ==
    \A m \in Messages :
        /\ m \notin published => Fate(m) = "new"
        /\ m \in published /\ m \in succeeded => Fate(m) = "done"
        /\ m \in published /\ m \notin succeeded /\ UnderWay(m) => Fate(m) = "held"
        /\ m \in published /\ m \notin succeeded /\ ~UnderWay(m) => Fate(m) = "dead"

\* No message has the fate "lost", which the abstract specification does not know.
LEMMA FateOfMessages ==
    TypeOK /\ Grounded /\ EveryMessageKept => Fated
<1> SUFFICES ASSUME TypeOK, Grounded, EveryMessageKept, NEW m \in Messages
             PROVE  /\ m \notin published => Fate(m) = "new"
                    /\ m \in published /\ m \in succeeded => Fate(m) = "done"
                    /\ m \in published /\ m \notin succeeded /\ UnderWay(m)
                          => Fate(m) = "held"
                    /\ m \in published /\ m \notin succeeded /\ ~UnderWay(m)
                          => Fate(m) = "dead"
  BY DEF Fated
<1>1. m \notin published => Fate(m) = "new"
  BY DEF Fate, Grounded
<1>2. m \in published /\ m \in succeeded => Fate(m) = "done"
  BY DEF Fate
<1>3. ASSUME m \in published, m \notin succeeded, UnderWay(m)
      PROVE  Fate(m) = "held"
  <2>1. PICK i \in Copies : copies[i].msg = m /\ copies[i].at # "dlq"
    BY <1>3 DEF UnderWay
  <2>2. copies[i].at \in Places \ {"dlq"}
    BY <2>1 DEF TypeOK, Copy
  <2>3. i \in CopiesOf(m, Places \ {"dlq"})
    BY <2>1, <2>2 DEF CopiesOf
  <2>4. QED
    BY <1>3, <2>3 DEF Fate
<1>4. ASSUME m \in published, m \notin succeeded, ~UnderWay(m)
      PROVE  Fate(m) = "dead"
  <2>1. CopiesOf(m, Places \ {"dlq"}) = {}
    BY <1>4 DEF UnderWay, CopiesOf
  <2>2. PICK i \in Copies : copies[i].msg = m
    BY <1>4 DEF EveryMessageKept, Live
  <2>3. copies[i].at = "dlq"
    BY <1>4, <2>2 DEF UnderWay
  <2>4. i \in CopiesOf(m, {"dlq"})
    BY <2>2, <2>3 DEF CopiesOf
  <2>5. QED
    BY <1>4, <2>1, <2>4 DEF Fate
<1>5. QED
  BY <1>1, <1>2, <1>3, <1>4

Fates == [m \in Messages |-> Fate(m)]

\* A step that changes the fate of one message only, one that a copy still works
\* on, is a step of the abstract specification or leaves the fates alone.
LEMMA OneFateChanges ==
    ASSUME Fated, Fated', Grounded, NEW n \in Messages,
           n \in published, UnderWay(n), n \in published', 
           n \in succeeded => n \in succeeded',
           \A m \in Messages \ {n} :
              /\ m \in published' <=> m \in published
              /\ m \in succeeded' <=> m \in succeeded
              /\ UnderWay(m)' <=> UnderWay(m)
    PROVE  [Abstract!Next]_Fates
<1>1. ASSUME NEW m \in Messages \ {n}
      PROVE  Fate(m)' = Fate(m)
  BY DEF Fated
<1>2. \/ Fate(n) = "done" /\ Fate(n)' = "done"
      \/ Fate(n) = "held" /\ Fate(n)' \in {"held", "done", "dead"}
  BY DEF Fated
<1>3. Fates' = [Fates EXCEPT ![n] = Fate(n)']
  BY <1>1 DEF Fates
<1>4. CASE Fate(n)' = Fate(n)
  BY <1>1, <1>4 DEF Fates
<1>5. CASE Fate(n) = "held" /\ Fate(n)' = "done"
  BY <1>3, <1>5 DEF Abstract!Next, Abstract!Complete, Fates
<1>6. CASE Fate(n) = "held" /\ Fate(n)' = "dead"
  BY <1>3, <1>6 DEF Abstract!Next, Abstract!DeadLetter, Fates
<1>7. QED
  BY <1>2, <1>4, <1>5, <1>6

\* Every step of the queue accepts, completes or dead-letters one message, or
\* leaves every fate as it was: also a crash and a pause, since a consume loop
\* works on one copy, and what a retry consumer holds goes back to the broker.
LEMMA StepsAreAbstract ==
    ASSUME FaultKinds = {}, TypeOK, Grounded, Grounded', Fated, Fated', [Next]_vars
    PROVE  [Abstract!Next]_Fates
<1> USE DEF Places, InBroker, InConsumer, InRequeuer
<1>0. \A i \in Copies : copies[i] \in Copy /\ WellFormed(copies[i])
  BY DEF TypeOK
<1>1. ASSUME NEW m \in Messages, Publish(m)
      PROVE  [Abstract!Next]_Fates
  <2>1. PICK j \in Copies :
           Free(j) /\ copies' = [copies EXCEPT ![j] = Stored("queue", m, 0)]
    BY <1>1 DEF Publish
  <2>2. /\ copies'[j].msg = m /\ copies'[j].at = "queue"
        /\ \A k \in Copies \ {j} : copies'[k] = copies[k]
        /\ copies[j].msg \notin Messages
    BY <2>1 DEF Stored, TypeOK, Free, Grounded
  <2>3. m \notin published /\ m \in published' /\ m \notin succeeded
    BY <1>1 DEF Publish, Grounded
  <2>4. UnderWay(m)'
    BY <2>2 DEF UnderWay
  <2>5. Fate(m) = "new" /\ Fate(m)' = "held"
    BY <1>1, <2>3, <2>4 DEF Publish, Fated
  <2>6. ASSUME NEW n \in Messages \ {m}
        PROVE  Fate(n)' = Fate(n)
    <3>1. UnderWay(n)' <=> UnderWay(n)
      BY <2>2 DEF UnderWay
    <3>2. (n \in published' <=> n \in published) /\ (n \in succeeded' <=> n \in succeeded)
      BY <1>1 DEF Publish
    <3>3. QED
      BY <3>1, <3>2 DEF Fated
  <2>7. Fates' = [Fates EXCEPT ![m] = "held"] /\ Fates[m] = "new"
    BY <2>5, <2>6 DEF Fates
  <2>8. QED
    BY <2>7 DEF Abstract!Next, Abstract!Accept, Fates
<1>2. ASSUME NEW i \in Copies, copies[i].at \notin {"free", "dlq"},
             published' = published,
             succeeded' = succeeded \/ succeeded' = succeeded \cup {copies[i].msg},
             \A k \in Copies :
                \/ copies'[k].msg = copies[k].msg /\ copies'[k].at = copies[k].at
                \/ /\ copies[k].msg \in {copies[i].msg, NoMessage}
                   /\ copies'[k].msg \in {copies[i].msg, NoMessage}
                \/ /\ copies[k].msg = copies'[k].msg
                   /\ copies[k].at # "dlq" /\ copies'[k].at # "dlq"
      PROVE  [Abstract!Next]_Fates
  <2>1. copies[i].msg \in Messages /\ copies[i].msg \in published
    BY <1>0, <1>2 DEF WellFormed, Grounded
  <2>2. UnderWay(copies[i].msg)
    BY <1>2 DEF UnderWay
  <2>3. ASSUME NEW m \in Messages \ {copies[i].msg}
        PROVE  UnderWay(m)' <=> UnderWay(m)
    BY <1>2 DEF UnderWay
  <2>4. QED
    BY <1>2, <2>1, <2>2, <2>3, OneFateChanges
<1>3. ASSUME NEW p \in Processes, NEW i \in Copies, Deliver(p, i) \/ RequeueTake(p, i)
      PROVE  [Abstract!Next]_Fates
  BY <1>3, <1>2, <1>0 DEF Deliver, RequeueTake, TypeOK, Copy
<1>4. ASSUME NEW i \in Copies,
             HandlerReturns(i) \/ HandlerRaises(i) \/ Expire(i)
      PROVE  [Abstract!Next]_Fates
  BY <1>4, <1>2, <1>0 DEF HandlerReturns, HandlerRaises, Expire, Move, TypeOK, Copy
<1>5. ASSUME NEW i \in Copies,
             HandlerTimesOut(i) \/ RetryPublishFails(i) \/ RequeueFails(i)
      PROVE  FALSE
  BY <1>5 DEF HandlerTimesOut, RetryPublishFails, RequeueFails
<1>6. ASSUME NEW i \in Copies, Ack(i) \/ Reject(i) \/ RequeueAck(i)
      PROVE  [Abstract!Next]_Fates
  BY <1>6, <1>2, <1>0 DEF Ack, Reject, RequeueAck, FreeSlot, Stored, TypeOK, Copy
<1>7. ASSUME NEW i \in Copies, NEW j \in Copies, Free(j),
             copies[i].at \notin {"free", "dlq"}, copies'[i].msg = copies[i].msg,
             copies'[j].msg = copies[i].msg,
             \A k \in Copies \ {i, j} : copies'[k] = copies[k],
             UNCHANGED <<published, succeeded>>
      PROVE  [Abstract!Next]_Fates
  BY <1>7, <1>2 DEF Free, Grounded
<1>8. ASSUME NEW i \in Copies, PublishToRetryQueue(i)
      PROVE  [Abstract!Next]_Fates
  <2>1. PICK j \in Copies :
          /\ Free(j)
          /\ copies' = [copies EXCEPT
                           ![j] = Stored("delay", copies[i].msg, copies[i].rc + 1),
                           ![i].at = "ack"]
    BY <1>8 DEF PublishToRetryQueue
  <2>2. /\ i # j
        /\ copies'[i].msg = copies[i].msg /\ copies'[j].msg = copies[i].msg
        /\ \A k \in Copies \ {i, j} : copies'[k] = copies[k]
    BY <1>0, <1>8, <2>1 DEF PublishToRetryQueue, Free, Stored, TypeOK, Copy
  <2>3. QED
    BY <1>7, <1>8, <2>1, <2>2 DEF PublishToRetryQueue
<1>9. ASSUME NEW i \in Copies, RequeuePublish(i)
      PROVE  [Abstract!Next]_Fates
  <2>1. PICK j \in Copies :
          /\ Free(j)
          /\ copies' = [copies EXCEPT
                           ![j] = Stored("queue", copies[i].msg, copies[i].rc),
                           ![i].at = "republished"]
    BY <1>9 DEF RequeuePublish
  <2>2. /\ i # j
        /\ copies'[i].msg = copies[i].msg /\ copies'[j].msg = copies[i].msg
        /\ \A k \in Copies \ {i, j} : copies'[k] = copies[k]
    BY <1>0, <1>9, <2>1 DEF RequeuePublish, Free, Stored, TypeOK, Copy
  <2>3. QED
    BY <1>7, <1>9, <2>1, <2>2 DEF RequeuePublish
<1>10. ASSUME NEW i \in Copies, ConnectionLost(i)
       PROVE  [Abstract!Next]_Fates
  <2>1. PICK j \in Copies :
          /\ Free(j)
          /\ copies' = [copies EXCEPT
                           ![j] = Stored("queue", copies[i].msg, copies[i].rc),
                           ![i].orphan = TRUE]
    BY <1>10 DEF ConnectionLost
  <2>2. /\ i # j
        /\ copies'[i].msg = copies[i].msg /\ copies'[j].msg = copies[i].msg
        /\ \A k \in Copies \ {i, j} : copies'[k] = copies[k]
    BY <1>0, <1>10, <2>1 DEF ConnectionLost, Free, Stored, TypeOK, Copy
  <2>3. QED
    BY <1>7, <1>10, <2>1, <2>2 DEF ConnectionLost
<1>11. ASSUME UNCHANGED <<published, succeeded>>,
              \A m \in Messages : UnderWay(m)' <=> UnderWay(m)
       PROVE  [Abstract!Next]_Fates
  <2>1. ASSUME NEW m \in Messages
        PROVE  Fate(m)' = Fate(m)
    BY <1>11 DEF Fated
  <2>2. QED
    BY <2>1 DEF Fates
<1>12. ASSUME NEW p \in Processes, Crash(p)
       PROVE  [Abstract!Next]_Fates
  <2>1. \A k \in Copies :
           copies'[k] = IF copies[k].by = p THEN Returned(copies[k]) ELSE copies[k]
    BY <1>12 DEF Crash
  <2>2. ASSUME NEW k \in Copies, ~copies[k].orphan \/ copies[k].by # p
        PROVE  \/ copies'[k].msg = copies[k].msg /\ copies'[k].at = copies[k].at
               \/ /\ copies[k].msg = copies'[k].msg
                  /\ copies[k].at # "dlq" /\ copies'[k].at # "dlq"
    <3>1. CASE copies[k].by = p
      <4>1. copies[k].at \in InConsumer \cup InRequeuer
        BY <1>0, <3>1 DEF WellFormed
      <4>2. \E place \in {"queue", "requeue"} :
               copies'[k] = Stored(place, copies[k].msg, copies[k].rc)
        BY <2>1, <2>2, <3>1 DEF Returned
      <4>3. copies'[k].msg = copies[k].msg /\ copies'[k].at \in {"queue", "requeue"}
        BY <4>2 DEF Stored
      <4>4. QED
        BY <4>1, <4>3
    <3>2. CASE copies[k].by # p
      BY <2>1, <3>2
    <3>3. QED
      BY <3>1, <3>2
  <2>3. CASE \E i \in Copies : copies[i].orphan /\ copies[i].by = p
    <3>1. PICK i \in Copies : copies[i].orphan /\ copies[i].by = p
      BY <2>3
    <3>2. copies[i].at \in InConsumer
      BY <1>0, <3>1 DEF WellFormed
    <3>3. \A k \in Copies : copies[k].orphan /\ copies[k].by = p => k = i
      BY <1>0, <3>1, <3>2 DEF WellFormed, Grounded
    <3>4. copies'[i].msg = NoMessage
      BY <2>1, <3>1 DEF Returned, FreeSlot
    <3>5. published' = published /\ succeeded' = succeeded
      BY <1>12 DEF Crash
    <3>6. QED
      BY <1>2, <2>2, <3>1, <3>2, <3>3, <3>4, <3>5
  <2>4. CASE ~\E i \in Copies : copies[i].orphan /\ copies[i].by = p
    <3>1. \A m \in Messages : UnderWay(m)' <=> UnderWay(m)
      BY <2>2, <2>4 DEF UnderWay
    <3>2. QED
      BY <1>11, <1>12, <3>1 DEF Crash
  <2>5. QED
    BY <2>3, <2>4
<1>13. ASSUME NEW p \in Processes, Pause(p)
       PROVE  [Abstract!Next]_Fates
  <2>1. CASE Held(p, InConsumer) = {}
    BY <1>11, <1>13, <2>1, <1>0 DEF Pause, UnderWay, TypeOK
  <2>2. CASE Held(p, InConsumer) # {}
    <3>1. PICK i \in Copies : copies[i].by = p /\ copies[i].at \in InConsumer
      BY <2>2 DEF Held
    <3>2. \A k \in Copies \ {i} : copies'[k] = copies[k]
      BY <1>13, <3>1 DEF Pause, Held, Grounded
    <3>3. copies'[i].msg \in {copies[i].msg, NoMessage}
      BY <1>13, <3>1 DEF Pause, Held, FreeSlot, Stored
    <3>4. QED
      BY <1>2, <1>13, <3>1, <3>2, <3>3 DEF Pause
  <2>3. QED
    BY <2>1, <2>2
<1>14. ASSUME NEW p \in Processes, Resume(p)
       PROVE  [Abstract!Next]_Fates
  BY <1>11, <1>14 DEF Resume, UnderWay
<1>15. CASE UNCHANGED vars
  BY <1>11, <1>15 DEF vars, UnderWay
<1>16. QED
  BY <1>1, <1>3, <1>4, <1>5, <1>6, <1>8, <1>9, <1>10, <1>12, <1>13, <1>14, <1>15
     DEF Next, Consume, Requeue

\* The safety part of SettlesEveryMessage, for every number of messages, processes,
\* copies, retries, crashes and pauses: without the three faults that the code
\* answers with an ack, the queue implements AtLeastOnce.
THEOREM QueueImplementsAtLeastOnce ==
    ASSUME FaultKinds = {}
    PROVE  Spec => Abstract!Spec
<1>1. Init => Abstract!Init
  BY DEF Init, Abstract!Init, Fate
<1>2. TypeOK /\ Grounded /\ NoMessageLost => Fated
  BY FateOfMessages DEF NoMessageLost
<1>3. /\ TypeOK /\ Grounded /\ Fated /\ [Next]_vars
      /\ Grounded' /\ Fated'
      => [Abstract!Next]_Fates
  BY StepsAreAbstract
<1>4. [Abstract!Next]_Fates => [Abstract!Next]_([m \in Messages |-> Fate(m)])
  BY DEF Fates
<1>5. QED
  BY <1>1, <1>2, <1>3, <1>4, DeliveryTypeOK, CopiesAreGrounded, NoMessageIsLost, PTL
     DEF Spec, Abstract!Spec
=============================================================================
