----------------------------- MODULE DeadLetters -----------------------------
(***************************************************************************)
(* The endpoints on the dead-letter queue: backend/app/api/workers.py.     *)
(* Retrying takes a batch off the queue through RabbitMQ's management API  *)
(* and publishes the messages one after the other; several administrators  *)
(* may do so at the same time.                                             *)
(***************************************************************************)
EXTENDS Naturals, FiniteSets

CONSTANTS
    DeadMessages,   \* messages that may be dead-lettered
    Admins,         \* retry requests that run at the same time
    RetryBatch,     \* min(count, 100)
    MaxRetryFaults  \* bound on calls that fail and processes that die

ASSUME DeadLettersAssumption ==
    /\ RetryBatch \in Nat \ {0}
    /\ MaxRetryFaults \in Nat

VARIABLES
    deadQueue,    \* messages in hrag.dlq
    workQueue,    \* messages in their own queues
    batch,        \* [Admins -> messages taken and not yet published]
    dropped,      \* messages whose own publish failed or had no exchange
    cutOff,       \* messages of a batch whose request died or got no answer
    purged,       \* messages an administrator removed
    retryFaults

deadLetterVars ==
    <<deadQueue, workQueue, batch, dropped, cutOff, purged, retryFaults>>

DeadLettersTypeOK ==
    /\ {deadQueue, workQueue, dropped, cutOff, purged} \subseteq SUBSET DeadMessages
    /\ batch \in [Admins -> SUBSET DeadMessages]
    /\ retryFaults \in 0..MaxRetryFaults

DeadLettersInit ==
    /\ deadQueue = DeadMessages
    /\ workQueue = {}
    /\ batch = [a \in Admins |-> {}]
    /\ dropped = {}
    /\ cutOff = {}
    /\ purged = {}
    /\ retryFaults = 0

RetryFault == retryFaults < MaxRetryFaults /\ retryFaults' = retryFaults + 1

Batches == {b \in SUBSET deadQueue \ {{}} : Cardinality(b) <= RetryBatch}

\* get_messages with ack_requeue_false: the messages are acknowledged.
TakeBatch(a) ==
    /\ batch[a] = {}
    /\ \E b \in Batches :
          /\ deadQueue' = deadQueue \ b
          /\ batch' = [batch EXCEPT ![a] = b]
    /\ UNCHANGED <<workQueue, dropped, cutOff, purged, retryFaults>>

\* The same call times out after RabbitMQ has acknowledged the messages.
TakeAnswerLost(a) ==
    /\ batch[a] = {}
    /\ RetryFault
    /\ \E b \in Batches : deadQueue' = deadQueue \ b /\ cutOff' = cutOff \cup b
    /\ UNCHANGED <<workQueue, batch, dropped, purged>>

\* The next message goes to the exchange and key of its first death.
Republish(a) ==
    /\ \E m \in batch[a] :
          /\ workQueue' = workQueue \cup {m}
          /\ batch' = [batch EXCEPT ![a] = @ \ {m}]
    /\ UNCHANGED <<deadQueue, dropped, cutOff, purged, retryFaults>>

\* Mutant: the loop ends at the first failure.
RepublishFailsAll(a) ==
    /\ RetryFault
    /\ \E m \in batch[a] :
          /\ dropped' = dropped \cup {m}
          /\ batch' = [batch EXCEPT ![a] = {}]
    /\ UNCHANGED <<deadQueue, workQueue, cutOff, purged>>

\* The exception is logged and the loop goes on; so it does after a message
\* that names no exchange.
RepublishFails(a) ==
    /\ RetryFault
    /\ \E m \in batch[a] :
          /\ dropped' = dropped \cup {m}
          /\ batch' = [batch EXCEPT ![a] = @ \ {m}]
    /\ UNCHANGED <<deadQueue, workQueue, cutOff, purged>>

RetryDies(a) ==
    /\ batch[a] # {}
    /\ RetryFault
    /\ cutOff' = cutOff \cup batch[a]
    /\ batch' = [batch EXCEPT ![a] = {}]
    /\ UNCHANGED <<deadQueue, workQueue, dropped, purged>>

\* purge_dead_letter.
PurgeDead ==
    /\ deadQueue # {}
    /\ RetryFault
    /\ purged' = purged \cup deadQueue
    /\ deadQueue' = {}
    /\ UNCHANGED <<workQueue, batch, dropped, cutOff>>

\* A worker gives the message up again.
DiesAgain(m) ==
    /\ m \in workQueue
    /\ workQueue' = workQueue \ {m}
    /\ deadQueue' = deadQueue \cup {m}
    /\ UNCHANGED <<batch, dropped, cutOff, purged, retryFaults>>

DeadLettersNext ==
    \/ \E a \in Admins :
          \/ TakeBatch(a)
          \/ TakeAnswerLost(a)
          \/ Republish(a)
          \/ RepublishFails(a)
          \/ RetryDies(a)
    \/ PurgeDead
    \/ \E m \in DeadMessages : DiesAgain(m)

DeadLettersSpec == DeadLettersInit /\ [][DeadLettersNext]_deadLetterVars

-----------------------------------------------------------------------------
\* Retrying moves dead letters: each one is in exactly one place, in the dead
\* or its own queue or in the hands of one request, unless its own publish
\* failed, its request was cut off, or it was purged.  (In those cases it is
\* nowhere: the queue has forgotten it before it was published.)
DeadLettersAccountedFor ==
    \A m \in DeadMessages :
        LET places == {q \in {"dead", "work"} :
                          m \in (IF q = "dead" THEN deadQueue ELSE workQueue)}
            hands  == {a \in Admins : m \in batch[a]}
        IN  Cardinality(places) + Cardinality(hands)
              = IF m \in dropped \cup cutOff \cup purged THEN 0 ELSE 1
=============================================================================
