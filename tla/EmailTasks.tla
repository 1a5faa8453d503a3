----------------------------- MODULE EmailTasks -----------------------------
(***************************************************************************)
(* The Celery tasks that send mail: welcome and notification mails, which  *)
(* run under IdempotencyService and the shared retry policy, and password  *)
(* reset mails, which only retry.                                          *)
(*                                                                         *)
(* CELERY_TASK_ACKS_LATE and CELERY_TASK_REJECT_ON_WORKER_LOST make every  *)
(* delivery at-least-once: a message leaves the broker when its execution  *)
(* ends, returns to it when the worker dies, and is delivered a second     *)
(* time, while the first execution goes on, when the broker's visibility   *)
(* timeout passes.  An execution is a sequence of calls to the cache, the  *)
(* database, the mail server and the broker; each is an action.  Faults    *)
(* are bounded by MaxFaults.                                               *)
(***************************************************************************)
EXTENDS Naturals, FiniteSets

CONSTANTS
    Jobs,           \* task calls: one mail each
    Idempotent,     \* those run by IdempotencyService.run
    Workers,        \* worker processes
    MaxRetries,     \* TASK_MAX_RETRIES, max_retries: 3
    MaxFaults,      \* bound on losses, redeliveries and failures of a behaviour
    Idle            \* "no message"

Attempts == 0 .. MaxRetries

\* A message of the broker: a job and the number of its retry.
Messages == Jobs \X Attempts

ASSUME EmailTasksAssumption ==
    /\ Idempotent \subseteq Jobs
    /\ IsFiniteSet(Workers)
    /\ MaxRetries \in Nat
    /\ MaxFaults \in Nat
    /\ Idle \notin Messages

Steps == {"idle", "lookup", "read", "send", "store", "failed", "ack"}

VARIABLES
    submitted,      \* jobs handed to the broker
    ready,          \* message -> copies waiting in the broker
    at, held,       \* worker -> its step, and the message it executes
    cached,         \* jobs whose result IdempotencyService has stored
    gone,           \* jobs whose user or notification row was deleted
    \* history
    sent,           \* job -> mails that left
    skipped,        \* jobs that found their row gone
    gaveUp,         \* jobs whose retries were exhausted
    runs,           \* job -> executions begun
    requeues,       \* job -> messages put back or delivered twice
    excuses,        \* job -> faults that entitle it to one more mail
    faults          \* number of faults so far

broker == <<submitted, ready>>
worker == <<at, held>>
history == <<sent, skipped, gaveUp, runs, requeues, excuses, faults>>
vars == <<broker, worker, cached, gone, history>>

-----------------------------------------------------------------------------
Job(w) == held[w][1]
Retries(w) == held[w][2]

Holds(w, j) == at[w] # "idle" /\ Job(w) = j

\* Copies of the job's messages: those that wait, each known by its retry and a
\* number, and the workers that execute one.
Waits(j) == UNION {{r} \X (1 .. ready[<<j, r>>]) : r \in Attempts}

Holders(j) == {w \in Workers : Holds(w, j)}

Copies(j) == Cardinality(Waits(j)) + Cardinality(Holders(j))

Settled(j) ==
    /\ j \in submitted
    /\ \A r \in Attempts : ready[<<j, r>>] = 0
    /\ \A w \in Workers : ~ Holds(w, j)

Goto(w, step) ==
    /\ at' = [at EXCEPT ![w] = step]
    /\ UNCHANGED held

Release(w) ==
    /\ at' = [at EXCEPT ![w] = "idle"]
    /\ held' = [held EXCEPT ![w] = Idle]

Publish(m) == ready' = [ready EXCEPT ![m] = @ + 1]

Fault == faults < MaxFaults /\ faults' = faults + 1

Excuse(j, n) == excuses' = [excuses EXCEPT ![j] = @ + n]

\* The mail is finished once it is sent and, where it is idempotent, stored.
Sent(w) == sent' = [sent EXCEPT ![Job(w)] = @ + 1]

-----------------------------------------------------------------------------
(* Around the workers *)

\* .delay(): the welcome mail's after the commit of its user, a reset mail's
\* during the request.
Submit(j) ==
    /\ j \notin submitted
    /\ submitted' = submitted \union {j}
    /\ Publish(<<j, 0>>)
    /\ UNCHANGED <<worker, cached, gone, history>>

\* The row a mail is about is deleted.
Remove(j) ==
    /\ j \in Idempotent \ gone
    /\ gone' = gone \union {j}
    /\ UNCHANGED <<broker, worker, cached, history>>

\* The stored result expires, or the cache loses it.
Expire(j) ==
    /\ j \in cached
    /\ Fault
    /\ cached' = cached \ {j}
    /\ Excuse(j, Copies(j))
    /\ UNCHANGED <<broker, worker, gone, sent, skipped, gaveUp, runs, requeues>>

-----------------------------------------------------------------------------
(* One execution *)

\* A delivery that leaves the message in the queue for the others.
DeliverTwice(w, m) ==
    /\ at[w] = "idle"
    /\ \E n \in Messages : n[1] = m[1] /\ ready[n] > 0
    /\ ready' = [ready EXCEPT ![m] = @ - 1]
    /\ held' = [held EXCEPT ![w] = m]
    /\ at' = [at EXCEPT ![w] = IF m[1] \in Idempotent THEN "lookup" ELSE "send"]
    /\ runs' = [runs EXCEPT ![m[1]] = @ + 1]
    /\ UNCHANGED <<submitted, cached, gone,
                   sent, skipped, gaveUp, requeues, excuses, faults>>

Deliver(w, m) ==
    /\ at[w] = "idle"
    /\ ready[m] > 0
    /\ ready' = [ready EXCEPT ![m] = @ - 1]
    /\ held' = [held EXCEPT ![w] = m]
    /\ at' = [at EXCEPT ![w] = IF m[1] \in Idempotent THEN "lookup" ELSE "send"]
    /\ runs' = [runs EXCEPT ![m[1]] = @ + 1]
    /\ UNCHANGED <<submitted, cached, gone,
                   sent, skipped, gaveUp, requeues, excuses, faults>>

\* A task that runs its operation whatever the cache says.
LookupIgnored(w) ==
    /\ at[w] = "lookup"
    /\ Goto(w, "read")
    /\ UNCHANGED <<broker, cached, gone, history>>

\* cache.get: a stored result ends the execution, an error fails it.
Lookup(w) ==
    /\ at[w] = "lookup"
    /\ \/ Goto(w, IF Job(w) \in cached THEN "ack" ELSE "read")
       \/ Goto(w, "failed")
    /\ UNCHANGED <<broker, cached, gone, history>>

\* The operation fetches its row; a missing one makes a result, a query that fails an
\* error.
Read(w) ==
    /\ at[w] = "read"
    /\ \/ /\ Job(w) \in gone
          /\ Goto(w, "store")
          /\ skipped' = skipped \union {Job(w)}
       \/ Job(w) \notin gone /\ Goto(w, "send") /\ UNCHANGED skipped
       \/ Goto(w, "failed") /\ UNCHANGED skipped
    /\ UNCHANGED <<broker, cached, gone, sent, gaveUp, runs, requeues, excuses, faults>>

\* EmailService.send, send_mail: the mail leaves, or does not, or leaves and
\* the server's answer is lost.
Send(w) ==
    /\ at[w] = "send"
    /\ \/ /\ Sent(w)
          /\ Goto(w, IF Job(w) \in Idempotent THEN "store" ELSE "ack")
          /\ UNCHANGED <<excuses, faults>>
       \/ /\ Goto(w, "failed")
          /\ UNCHANGED <<sent, excuses, faults>>
       \/ /\ Fault
          /\ Sent(w)
          /\ Excuse(Job(w), 1)
          /\ Goto(w, "failed")
    /\ UNCHANGED <<broker, cached, gone, skipped, gaveUp, runs, requeues>>

\* cache.set, or an error of the cache after the mail has left.
Store(w) ==
    /\ at[w] = "store"
    /\ \/ /\ cached' = cached \union {Job(w)}
          /\ Goto(w, "ack")
          /\ UNCHANGED <<excuses, faults>>
       \/ /\ Fault
          /\ Excuse(Job(w), 1)
          /\ Goto(w, "failed")
          /\ UNCHANGED cached
    /\ UNCHANGED <<broker, gone, sent, skipped, gaveUp, runs, requeues>>

\* A retry that does not count.
RetryUncounted(w) ==
    /\ at[w] = "failed"
    /\ \/ Publish(held[w]) /\ Goto(w, "ack") /\ UNCHANGED gaveUp
       \/ /\ Retries(w) = MaxRetries
          /\ Goto(w, "ack")
          /\ gaveUp' = gaveUp \union {Job(w)}
          /\ UNCHANGED ready
    /\ UNCHANGED <<submitted, cached, gone, sent, skipped, runs, requeues, excuses, faults>>

\* A retry policy that forgets to end.
RetryOnly(w) ==
    /\ at[w] = "failed"
    /\ Retries(w) < MaxRetries
    /\ Publish(<<Job(w), Retries(w) + 1>>)
    /\ Goto(w, "ack")
    /\ UNCHANGED <<submitted, cached, gone, history>>

\* task.retry publishes the next attempt; the last one fails for good.
Retry(w) ==
    /\ at[w] = "failed"
    /\ IF Retries(w) < MaxRetries
       THEN Publish(<<Job(w), Retries(w) + 1>>) /\ UNCHANGED gaveUp
       ELSE gaveUp' = gaveUp \union {Job(w)} /\ UNCHANGED ready
    /\ Goto(w, "ack")
    /\ UNCHANGED <<submitted, cached, gone, sent, skipped, runs, requeues, excuses, faults>>

\* The broker refuses the retry: the message itself is put back.
RetryRefused(w) ==
    /\ at[w] = "failed"
    /\ Retries(w) < MaxRetries
    /\ Fault
    /\ Publish(held[w])
    /\ requeues' = [requeues EXCEPT ![Job(w)] = @ + 1]
    /\ Release(w)
    /\ UNCHANGED <<submitted, cached, gone, sent, skipped, gaveUp, runs, excuses>>

\* The message leaves the broker, whether the execution succeeded or failed.
Ack(w) ==
    /\ at[w] = "ack"
    /\ Release(w)
    /\ UNCHANGED <<broker, cached, gone, history>>

-----------------------------------------------------------------------------
(* Redelivery *)

\* An early acknowledgement: what the worker held dies with it.
LoseAcked(w) ==
    /\ at[w] # "idle"
    /\ Fault
    /\ Release(w)
    /\ UNCHANGED <<broker, cached, gone, sent, skipped, gaveUp, runs, requeues, excuses>>

\* The worker dies: its message returns to the broker.  After the operation
\* this may cost a second mail, unless the result is stored.
Lose(w) ==
    /\ at[w] # "idle"
    /\ Fault
    /\ Publish(held[w])
    /\ requeues' = [requeues EXCEPT ![Job(w)] = @ + 1]
    /\ Excuse(Job(w), IF at[w] \in {"store", "ack"} /\ Job(w) \notin cached THEN 1 ELSE 0)
    /\ Release(w)
    /\ UNCHANGED <<submitted, cached, gone, sent, skipped, gaveUp, runs>>

\* The visibility timeout passes: the message is delivered again although its
\* worker is alive.
Redeliver(w) ==
    /\ at[w] # "idle"
    /\ Fault
    /\ Publish(held[w])
    /\ requeues' = [requeues EXCEPT ![Job(w)] = @ + 1]
    /\ Excuse(Job(w), IF Job(w) \in cached THEN 0 ELSE 1)
    /\ UNCHANGED <<submitted, worker, cached, gone, sent, skipped, gaveUp, runs>>

-----------------------------------------------------------------------------
Init ==
    /\ submitted = {}
    /\ ready = [m \in Messages |-> 0]
    /\ at = [w \in Workers |-> "idle"]
    /\ held = [w \in Workers |-> Idle]
    /\ cached = {}
    /\ gone = {}
    /\ sent = [j \in Jobs |-> 0]
    /\ skipped = {}
    /\ gaveUp = {}
    /\ runs = [j \in Jobs |-> 0]
    /\ requeues = [j \in Jobs |-> 0]
    /\ excuses = [j \in Jobs |-> 0]
    /\ faults = 0

\* What a running worker does.
Work(w) ==
    \/ \E m \in Messages : Deliver(w, m)
    \/ Lookup(w)
    \/ Read(w)
    \/ Send(w)
    \/ Store(w)
    \/ Retry(w)
    \/ RetryRefused(w)
    \/ Ack(w)

Next ==
    \/ \E j \in Jobs : Submit(j) \/ Remove(j) \/ Expire(j)
    \/ \E w \in Workers : Work(w) \/ Lose(w) \/ Redeliver(w)

\* Worker processes run: the worker service restarts one that has died.
Fairness == \A w \in Workers : WF_vars(Work(w))

Spec == Init /\ [][Next]_vars /\ Fairness

-----------------------------------------------------------------------------
(* Properties *)

\* The tables hold values of their types; a worker is idle exactly when it
\* executes no message; only idempotent jobs have results and rows.
TablesTyped ==
    /\ submitted \subseteq Jobs
    /\ ready \in [Messages -> Nat]
    /\ at \in [Workers -> Steps]
    /\ held \in [Workers -> Messages \union {Idle}]
    /\ \A w \in Workers : at[w] = "idle" <=> held[w] = Idle
    /\ \A w \in Workers : at[w] \in {"lookup", "read", "store"} => Job(w) \in Idempotent
    /\ cached \subseteq Idempotent
    /\ gone \subseteq Idempotent

TypeOK ==
    /\ TablesTyped
    /\ sent \in [Jobs -> Nat]
    /\ skipped \subseteq Idempotent
    /\ gaveUp \subseteq Jobs
    /\ runs \in [Jobs -> Nat]
    /\ requeues \in [Jobs -> Nat]
    /\ excuses \in [Jobs -> Nat]
    /\ faults \in 0 .. MaxFaults

\* Late acknowledgement: a job that no message and no worker stands for any
\* more has sent its mail, found its row deleted, or used up its retries; a
\* worker that dies, at whatever step, loses no mail.
NoSilentLoss ==
    \A j \in Jobs : Settled(j) => sent[j] > 0 \/ j \in skipped \/ j \in gaveUp

\* IdempotencyService and the retry chain: each mail beyond the first is owed
\* to a fault of its own that hit between the mail and the record of it, to a
\* redelivery that met no stored result, or to a result lost while copies of
\* the job were about.  Retries alone never send twice.
DuplicatesPaidFor == \A j \in Jobs : sent[j] <= 1 + excuses[j]

\* "Max 3 retries after the first attempt (4 executions total)": for every
\* message put back or delivered twice at most one more such series, although
\* each of the copies starts a chain of retries of its own.
RunsBounded == \A j \in Jobs : runs[j] <= (MaxRetries + 1) * (1 + requeues[j])

\* Every mail is settled: the retries end and the broker's copies drain.
EveryJobSettles == \A j \in Jobs : j \in submitted ~> Settled(j)

=============================================================================
