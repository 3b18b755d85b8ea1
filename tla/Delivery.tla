------------------------------ MODULE Delivery ------------------------------
(***************************************************************************)
(* How one work queue delivers its messages: backend/app/queue/            *)
(* connection.py.  A worker process takes a copy of a message from its     *)
(* queue, runs the handler, and acks, schedules a retry or dead-letters    *)
(* the copy.  A retry is a new copy in a delay queue; when its TTL expires *)
(* the broker moves it to hrag.retry.requeue, from which the retry         *)
(* consumer of some process republishes it to the original exchange.       *)
(*                                                                         *)
(* State is kept per broker copy, not per message: publishing a retry and  *)
(* acking the original are two steps, so a message can have several        *)
(* copies, and a crash between the two duplicates it.                      *)
(***************************************************************************)
EXTENDS Naturals, FiniteSets

CONSTANTS
    Messages,      \* payloads published to the queue, each published once
    Processes,     \* worker processes consuming the queue
    Copies,        \* slots for broker copies: bounds the copies alive at once
    MaxRetries,    \* MAX_RETRIES, connection.py:65
    FaultKinds,    \* which of PossibleFaults the environment may inject
    MaxBreaks,     \* bound on process crashes and lost connections
    MaxPauses,     \* bound on cancellations of the consume loop
    NoMessage,     \* the message of a free slot
    NoProcess      \* the holder of a copy nobody holds

PossibleFaults == {"timeout", "retry_publish", "requeue"}

ASSUME DeliveryAssumption ==
    /\ MaxRetries \in Nat
    /\ MaxBreaks \in Nat
    /\ MaxPauses \in Nat
    /\ FaultKinds \subseteq PossibleFaults
    /\ NoMessage \notin Messages
    /\ NoProcess \notin Processes

VARIABLES
    copies,        \* [Copies -> Copy]: every copy the broker or a process has
    published,     \* messages accepted by the broker so far
    succeeded,     \* messages whose handler has returned at least once
    attempts,      \* handler runs per message
    consuming,     \* [Processes -> BOOLEAN]: FALSE while paused
    requeuing,     \* [Processes -> BOOLEAN]: FALSE once its retry consumer died
    breaks,        \* crashes and lost connections so far
    pauses         \* cancellations so far

vars == <<copies, published, succeeded, attempts, consuming, requeuing,
          breaks, pauses>>

\* Where a copy is.  In the broker: the work queue, a delay queue,
\* hrag.retry.requeue or hrag.dead-letter.  In the hands of a consume loop:
\* running the handler, about to publish a retry, to ack or to reject.  In the
\* hands of a retry consumer: about to republish, or republished and not acked.
InBroker    == {"queue", "delay", "requeue", "dlq"}
InConsumer  == {"handler", "retry", "ack", "reject"}
InRequeuer  == {"republish", "republished"}
Places      == {"free"} \cup InBroker \cup InConsumer \cup InRequeuer

\* orphan: the broker has taken the copy back (connection lost) while the
\* consume loop still works on it; its ack or reject then changes nothing.
Copy == [at: Places, msg: Messages \cup {NoMessage}, rc: 0..MaxRetries,
         by: Processes \cup {NoProcess}, orphan: BOOLEAN]

FreeSlot == [at |-> "free", msg |-> NoMessage, rc |-> 0,
             by |-> NoProcess, orphan |-> FALSE]

Stored(place, m, r) == [at |-> place, msg |-> m, rc |-> r,
                        by |-> NoProcess, orphan |-> FALSE]

Free(i) == copies[i].at = "free"

Move(i, place) == [copies EXCEPT ![i].at = place]

Held(p, places) == {i \in Copies : copies[i].by = p /\ copies[i].at \in places}

-----------------------------------------------------------------------------
Init ==
    /\ copies = [i \in Copies |-> FreeSlot]
    /\ published = {}
    /\ succeeded = {}
    /\ attempts = [m \in Messages |-> 0]
    /\ consuming = [p \in Processes |-> TRUE]
    /\ requeuing = [p \in Processes |-> TRUE]
    /\ breaks = 0
    /\ pauses = 0

\* publish: the broker accepts the message with no x-retry-count header.
Publish(m) ==
    /\ m \notin published
    /\ published' = published \cup {m}
    /\ \E i \in Copies :
          /\ Free(i)
          /\ copies' = [copies EXCEPT ![i] = Stored("queue", m, 0)]
    /\ UNCHANGED <<succeeded, attempts, consuming, requeuing, breaks, pauses>>

-----------------------------------------------------------------------------
(* The consume loop: one message at a time per process.                    *)

\* The iterator yields the next message and the handler starts on it.
Deliver(p, i) ==
    /\ consuming[p]
    /\ Held(p, InConsumer) = {}
    /\ copies[i].at = "queue"
    /\ copies' = [copies EXCEPT ![i].at = "handler", ![i].by = p]
    /\ attempts' = [attempts EXCEPT ![copies[i].msg] = @ + 1]
    /\ UNCHANGED <<published, succeeded, consuming, requeuing, breaks, pauses>>

\* The handler returns: process() acks on a clean exit.
HandlerReturns(i) ==
    /\ copies[i].at = "handler"
    /\ copies' = Move(i, "ack")
    /\ succeeded' = succeeded \cup {copies[i].msg}
    /\ UNCHANGED <<published, attempts, consuming, requeuing, breaks, pauses>>

\* Mutant: counts the first run as a retry.
HandlerRaisesEarly(i) ==
    /\ copies[i].at = "handler"
    /\ copies' = Move(i, IF copies[i].rc + 1 < MaxRetries THEN "retry" ELSE "reject")
    /\ UNCHANGED <<published, succeeded, attempts, consuming, requeuing,
                   breaks, pauses>>

\* The handler raises: retry while retry_count < MAX_RETRIES, else reject.
HandlerRaises(i) ==
    /\ copies[i].at = "handler"
    /\ copies' = Move(i, IF copies[i].rc < MaxRetries THEN "retry" ELSE "reject")
    /\ UNCHANGED <<published, succeeded, attempts, consuming, requeuing,
                   breaks, pauses>>

\* The handler times out: retry while retry_count < MAX_RETRIES; the branch
\* has no reject, it falls through to message.ack().
HandlerTimesOut(i) ==
    /\ "timeout" \in FaultKinds
    /\ copies[i].at = "handler"
    /\ copies' = Move(i, IF copies[i].rc < MaxRetries THEN "retry" ELSE "ack")
    /\ UNCHANGED <<published, succeeded, attempts, consuming, requeuing,
                   breaks, pauses>>

\* Mutant: the original goes back to its queue too.
PublishToRetryQueueAndNack(i) ==
    /\ copies[i].at = "retry"
    /\ \E j \in Copies :
          /\ Free(j)
          /\ copies' = [copies EXCEPT
                           ![j] = Stored("delay", copies[i].msg, copies[i].rc + 1),
                           ![i] = Stored("queue", @.msg, @.rc)]
    /\ UNCHANGED <<published, succeeded, attempts, consuming, requeuing,
                   breaks, pauses>>

\* _publish_to_retry_queue: a new copy, with the count raised, in a delay queue.
PublishToRetryQueue(i) ==
    /\ copies[i].at = "retry"
    /\ \E j \in Copies :
          /\ Free(j)
          /\ copies' = [copies EXCEPT
                           ![j] = Stored("delay", copies[i].msg, copies[i].rc + 1),
                           ![i].at = "ack"]
    /\ UNCHANGED <<published, succeeded, attempts, consuming, requeuing,
                   breaks, pauses>>

\* Publishing the retry raises: the error is logged, and the copy is acked.
RetryPublishFails(i) ==
    /\ "retry_publish" \in FaultKinds
    /\ copies[i].at = "retry"
    /\ copies' = Move(i, "ack")
    /\ UNCHANGED <<published, succeeded, attempts, consuming, requeuing,
                   breaks, pauses>>

\* The broker forgets an acked copy.
Ack(i) ==
    /\ copies[i].at = "ack"
    /\ copies' = [copies EXCEPT ![i] = FreeSlot]
    /\ UNCHANGED <<published, succeeded, attempts, consuming, requeuing,
                   breaks, pauses>>

\* Mutant: the work queue has no dead-letter exchange.
RejectDrops(i) ==
    /\ copies[i].at = "reject"
    /\ copies' = [copies EXCEPT ![i] = FreeSlot]
    /\ UNCHANGED <<published, succeeded, attempts, consuming, requeuing,
                   breaks, pauses>>

\* reject(requeue=False): the broker dead-letters the copy to hrag.dead-letter,
\* unless the copy is no longer this consumer's.
Reject(i) ==
    /\ copies[i].at = "reject"
    /\ copies' = [copies EXCEPT ![i] =
                     IF @.orphan THEN FreeSlot ELSE Stored("dlq", @.msg, @.rc)]
    /\ UNCHANGED <<published, succeeded, attempts, consuming, requeuing,
                   breaks, pauses>>
-----------------------------------------------------------------------------
(* The delay queues and the retry consumer.                                *)

\* The TTL expires: the delay queue dead-letters to hrag.retry, which routes
\* to hrag.retry.requeue.
Expire(i) ==
    /\ copies[i].at = "delay"
    /\ copies' = Move(i, "requeue")
    /\ UNCHANGED <<published, succeeded, attempts, consuming, requeuing,
                   breaks, pauses>>

\* Mutant: a copy on its last retry is not taken.
RequeueTakeBelowLimit(p, i) ==
    /\ requeuing[p]
    /\ Held(p, InRequeuer) = {}
    /\ copies[i].at = "requeue" /\ copies[i].rc < MaxRetries
    /\ copies' = [copies EXCEPT ![i].at = "republish", ![i].by = p]
    /\ UNCHANGED <<published, succeeded, attempts, consuming, requeuing,
                   breaks, pauses>>

\* The retry consumer of p receives an expired copy.
RequeueTake(p, i) ==
    /\ requeuing[p]
    /\ Held(p, InRequeuer) = {}
    /\ copies[i].at = "requeue"
    /\ copies' = [copies EXCEPT ![i].at = "republish", ![i].by = p]
    /\ UNCHANGED <<published, succeeded, attempts, consuming, requeuing,
                   breaks, pauses>>

\* It republishes to the original exchange, with the same headers.
RequeuePublish(i) ==
    /\ copies[i].at = "republish"
    /\ \E j \in Copies :
          /\ Free(j)
          /\ copies' = [copies EXCEPT
                           ![j] = Stored("queue", copies[i].msg, copies[i].rc),
                           ![i].at = "republished"]
    /\ UNCHANGED <<published, succeeded, attempts, consuming, requeuing,
                   breaks, pauses>>

RequeueAck(i) ==
    /\ copies[i].at = "republished"
    /\ copies' = [copies EXCEPT ![i] = FreeSlot]
    /\ UNCHANGED <<published, succeeded, attempts, consuming, requeuing,
                   breaks, pauses>>

\* Republishing raises.  If the work queue is full (x-overflow reject-publish)
\* process() rejects the copy, and hrag.retry.requeue has no dead-letter
\* exchange; if the channel broke, the broker keeps the copy.  Either way the
\* task ends, and _retry_consumer_started stays True: this process starts no
\* other retry consumer.
RequeueFails(i) ==
    /\ "requeue" \in FaultKinds
    /\ copies[i].at = "republish"
    /\ requeuing' = [requeuing EXCEPT ![copies[i].by] = FALSE]
    /\ \E left \in {FreeSlot, Stored("requeue", copies[i].msg, copies[i].rc)} :
          copies' = [copies EXCEPT ![i] = left]
    /\ UNCHANGED <<published, succeeded, attempts, consuming, breaks, pauses>>
-----------------------------------------------------------------------------
(* Failures and the control plane.                                         *)

\* What the broker does with an unacked copy whose channel is gone.
Returned(c) ==
    IF c.orphan THEN FreeSlot
    ELSE Stored(IF c.at \in InConsumer THEN "queue" ELSE "requeue", c.msg, c.rc)

\* The process dies and its container is restarted: a fresh consume loop and a
\* fresh retry consumer, and the broker requeues every copy it had not acked.
Crash(p) ==
    /\ breaks < MaxBreaks
    /\ breaks' = breaks + 1
    /\ copies' = [i \in Copies |->
                     IF copies[i].by = p THEN Returned(copies[i]) ELSE copies[i]]
    /\ consuming' = [consuming EXCEPT ![p] = TRUE]
    /\ requeuing' = [requeuing EXCEPT ![p] = TRUE]
    /\ UNCHANGED <<published, succeeded, attempts, pauses>>

\* The consumer's connection drops while the handler runs on: the broker
\* requeues the copy, the consume loop still holds the delivery.
ConnectionLost(i) ==
    /\ breaks < MaxBreaks
    /\ copies[i].at \in InConsumer
    /\ ~copies[i].orphan
    /\ breaks' = breaks + 1
    /\ \E j \in Copies :
          /\ Free(j)
          /\ copies' = [copies EXCEPT
                           ![j] = Stored("queue", copies[i].msg, copies[i].rc),
                           ![i].orphan = TRUE]
    /\ UNCHANGED <<published, succeeded, attempts, consuming, requeuing, pauses>>

\* Mutant: the cancelled loop acks the copy in hand.
PauseDrops(p) ==
    /\ pauses < MaxPauses
    /\ consuming[p]
    /\ pauses' = pauses + 1
    /\ consuming' = [consuming EXCEPT ![p] = FALSE]
    /\ copies' = [i \in Copies |->
                     IF i \in Held(p, InConsumer) THEN FreeSlot ELSE copies[i]]
    /\ UNCHANGED <<published, succeeded, attempts, requeuing, breaks>>

\* _stop_runner cancels the consume task (pause, set_prefetch, restart,
\* SIGTERM).  No except clause catches CancelledError, so process() rejects
\* the copy in hand with requeue=False.  An ack or reject under way completes.
Pause(p) ==
    /\ pauses < MaxPauses
    /\ consuming[p]
    /\ Held(p, {"ack", "reject"}) = {}
    /\ pauses' = pauses + 1
    /\ consuming' = [consuming EXCEPT ![p] = FALSE]
    /\ copies' = [i \in Copies |->
                     IF i \notin Held(p, InConsumer) THEN copies[i]
                     ELSE IF copies[i].orphan THEN FreeSlot
                     ELSE Stored("dlq", copies[i].msg, copies[i].rc)]
    /\ UNCHANGED <<published, succeeded, attempts, requeuing, breaks>>

Resume(p) ==
    /\ ~consuming[p]
    /\ consuming' = [consuming EXCEPT ![p] = TRUE]
    /\ UNCHANGED <<copies, published, succeeded, attempts, requeuing, breaks,
                   pauses>>

-----------------------------------------------------------------------------
\* What a consume loop does with the copy it holds.
Consume(i) ==
    \/ HandlerReturns(i) \/ HandlerRaises(i) \/ HandlerTimesOut(i)
    \/ PublishToRetryQueue(i) \/ RetryPublishFails(i)
    \/ Ack(i) \/ Reject(i)

\* What the delay queues and the retry consumer do with a copy.
Requeue(i) ==
    \/ Expire(i) \/ RequeuePublish(i) \/ RequeueAck(i) \/ RequeueFails(i)

Next ==
    \/ \E m \in Messages : Publish(m)
    \/ \E p \in Processes, i \in Copies : Deliver(p, i) \/ RequeueTake(p, i)
    \/ \E i \in Copies : Consume(i) \/ Requeue(i) \/ ConnectionLost(i)
    \/ \E p \in Processes : Crash(p) \/ Pause(p) \/ Resume(p)

Spec == Init /\ [][Next]_vars

\* The broker keeps delivering and the workers keep running; nothing obliges a
\* client to publish, a process to break or an operator to act.
Fairness ==
    /\ \A p \in Processes : WF_vars(\E i \in Copies : Deliver(p, i))
    /\ \A p \in Processes : WF_vars(\E i \in Copies : RequeueTake(p, i))
    /\ \A i \in Copies : WF_vars(Consume(i)) /\ WF_vars(Requeue(i))

FairSpec == Spec /\ Fairness
-----------------------------------------------------------------------------
\* A copy outside a free slot carries a message, is held exactly while a process
\* works on it, is orphaned only in a consume loop, and is due for a retry only
\* below MAX_RETRIES.
WellFormed(c) ==
    /\ c.at # "free" => c.msg \in Messages
    /\ c.by # NoProcess <=> c.at \in InConsumer \cup InRequeuer
    /\ c.orphan => c.at \in InConsumer
    /\ c.at = "retry" => c.rc < MaxRetries

\* Every variable is of its type, and every copy well formed: in particular the
\* consume loop never schedules a retry beyond MAX_RETRIES.
TypeOK ==
    /\ copies \in [Copies -> Copy]
    /\ \A i \in Copies : WellFormed(copies[i])
    /\ published \subseteq Messages
    /\ succeeded \subseteq Messages
    /\ attempts \in [Messages -> Nat]
    /\ consuming \in [Processes -> BOOLEAN]
    /\ requeuing \in [Processes -> BOOLEAN]
    /\ breaks \in 0..MaxBreaks
    /\ pauses \in 0..MaxPauses

\* The copies that can still bring a message to a handler or are parked where
\* an operator finds them; a copy about to be acked is as good as gone.
IsLive(c) == c.at \notin {"free", "ack", "republished"} /\ ~c.orphan

Live(m) == {i \in Copies : copies[i].msg = m /\ IsLive(copies[i])}

\* connection.py:479-481: "On failure, messages are retried up to MAX_RETRIES
\* times [...] After exhausting retries the message is sent to the dead-letter
\* queue".  A published message has been handled or is still in the broker.
EveryMessageKept ==
    \A m \in published : m \in succeeded \/ Live(m) # {}

\* The code keeps that through crashes, lost connections and pauses, as long as
\* none of the three faults occurs that it answers with an ack.
NoMessageLost == FaultKinds = {} => EveryMessageKept

\* connection.py:24: "After MAX_RETRIES the message is routed to a dead-letter
\* queue".  A message in that queue has had its first try and every retry.
DeadLetterIsEarned ==
    \A i \in Copies :
        copies[i].at = "dlq" => attempts[copies[i].msg] >= MaxRetries + 1

\* The code keeps that across every copy, crash and redelivery, as long as the
\* consume loop is never cancelled.
DeadLetterIsEarnedUnpaused == MaxPauses = 0 => DeadLetterIsEarned

\* connection.py:65: "Total attempts = MAX_RETRIES + 1".  While nothing has
\* broken, no message is run more often than that.
AttemptsBounded ==
    breaks = 0 => \A m \in Messages : attempts[m] <= MaxRetries + 1

\* While nothing has broken, one copy of a message at most is alive: no two
\* workers ever run the handler on the same message at the same time.
SingleFlight ==
    breaks = 0 => \A m \in Messages : \A i, j \in Live(m) : i = j

\* Both: while nothing has broken a message is tried by one worker at a time,
\* and no more often than it may be.
TriedInTurn == SingleFlight /\ AttemptsBounded

\* The x-retry-count header never claims more attempts than were made, whatever
\* crashes, and a copy is only rejected with its count exhausted: the invariant
\* DeadLetterIsEarnedUnpaused rests on.
AttemptsSoFar(c) == IF c.at \in InConsumer \cup {"dlq"} THEN c.rc + 1 ELSE c.rc

CountsAttempts ==
    \A i \in Copies :
        /\ copies[i].at # "free" => attempts[copies[i].msg] >= AttemptsSoFar(copies[i])
        /\ copies[i].at = "reject" => copies[i].rc = MaxRetries
        /\ (copies[i].at = "dlq" /\ MaxPauses = 0) => copies[i].rc = MaxRetries

\* The invariant AttemptsBounded and SingleFlight rest on.  While nothing has broken there are no
\* orphans, a message not yet published has no copy and no attempt, a live copy
\* is the only one of its message, and its count is the attempts made so far.
Unbroken ==
    breaks = 0 =>
        /\ \A i \in Copies : ~copies[i].orphan
        /\ \A i \in Copies : copies[i].at # "free" => copies[i].msg \in published
        /\ \A m \in Messages \ published : attempts[m] = 0
        /\ \A i \in Copies : IsLive(copies[i]) =>
              attempts[copies[i].msg] = AttemptsSoFar(copies[i])
        /\ \A i, j \in Copies :
              IsLive(copies[i]) /\ IsLive(copies[j]) /\ copies[i].msg = copies[j].msg
                => i = j
        /\ \A m \in Messages : attempts[m] <= MaxRetries + 1

\* Abstraction: the fate of a message is told by the copies that are left.  A
\* copy about to be acked still holds it, since a crash would bring it back, and
\* so does an orphan, since its handler may yet return.  "lost" is no fate of
\* the abstract specification.
CopiesOf(m, places) ==
    {i \in Copies : copies[i].msg = m /\ copies[i].at \in places}

Fate(m) ==
    CASE m \notin published -> "new"
      [] m \in succeeded -> "done"
      [] m \in published \ succeeded ->
            IF CopiesOf(m, Places \ {"dlq"}) # {} THEN "held"
            ELSE IF CopiesOf(m, {"dlq"}) # {} THEN "dead" ELSE "lost"

Abstract == INSTANCE AtLeastOnce WITH fate <- [m \in Messages |-> Fate(m)]

\* The queue implements what consume's docstring promises: through crashes, lost
\* connections and pauses no message is lost, and as long as some worker keeps
\* consuming every message is processed or dead-lettered.
SettlesEveryMessage == Abstract!FairSpec

\* connection.py:226-227: the retry consumer re-publishes expired messages to
\* their original exchange, so no copy stays in hrag.retry.requeue for good.
ExpiredRetriesReturn ==
    \A i \in Copies : copies[i].at = "requeue" ~> copies[i].at # "requeue"
=============================================================================
