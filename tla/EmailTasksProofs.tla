-------------------------- MODULE EmailTasksProofs --------------------------
(***************************************************************************)
(* Proofs about EmailTasks: the broker's and the workers' tables keep      *)
(* their types, late acknowledgement loses no mail silently, and no mail   *)
(* leaves twice and no job runs longer than the faults it met account for, *)
(* for any number of jobs, workers, retries and faults.                    *)
(***************************************************************************)
EXTENDS EmailTasks, FiniteSetTheorems, TLAPS

Outcome(j) == sent[j] > 0 \/ j \in skipped \/ j \in gaveUp

\* Somebody will still do something about the job: a copy waits, or a worker
\* that has not come to its acknowledgement holds one.
Waiting(j) == \E r \in Attempts : ready[<<j, r>>] > 0

Active(w, j) == Holds(w, j) /\ at[w] # "ack"

Live(j) == Waiting(j) \/ \E w \in Workers : Active(w, j)

OutcomesTyped ==
    /\ sent \in [Jobs -> Nat]
    /\ skipped \subseteq Jobs
    /\ gaveUp \subseteq Jobs

\* A stored result and an operation that is over have an outcome behind them;
\* a submitted job without an outcome is live.
IInv ==
    /\ TablesTyped
    /\ OutcomesTyped
    /\ \A j \in cached : Outcome(j)
    /\ \A w \in Workers : at[w] = "store" => Outcome(Job(w))
    /\ \A j \in submitted : Outcome(j) \/ Live(j)

LEMMA InitIInv == Init => IInv
  BY EmailTasksAssumption DEF Init, IInv, TablesTyped, OutcomesTyped, Steps, Messages, Attempts

\* A busy worker's message is a job and an attempt.
LEMMA HeldMessage ==
    ASSUME TablesTyped, NEW w \in Workers, at[w] # "idle"
    PROVE  /\ held[w] \in Messages
           /\ held[w] = <<Job(w), Retries(w)>>
           /\ Job(w) \in Jobs
           /\ Retries(w) \in Attempts
  BY EmailTasksAssumption DEF TablesTyped, Messages, Job, Retries

\* Publishing adds a copy of one message and takes none away.
LEMMA PublishWaits ==
    ASSUME TablesTyped, NEW j \in Jobs, NEW r \in Attempts, Publish(<<j, r>>)
    PROVE  /\ ready' \in [Messages -> Nat]
           /\ Waiting(j)'
           /\ \A i \in Jobs : Waiting(i) => Waiting(i)'
  <1>1. <<j, r>> \in Messages /\ ready \in [Messages -> Nat]
    BY DEF TablesTyped, Messages
  <1>2. ready' \in [Messages -> Nat] /\ \A m \in Messages : ready'[m] >= ready[m]
    BY <1>1 DEF Publish
  <1>3. ready'[<<j, r>>] > 0
    BY <1>1 DEF Publish
  <1>4. ASSUME NEW i \in Jobs, Waiting(i) PROVE Waiting(i)'
    <2>1. PICK s \in Attempts : ready[<<i, s>>] > 0
      BY <1>4 DEF Waiting
    <2>2. <<i, s>> \in Messages
      BY DEF Messages
    <2>3. ready'[<<i, s>>] > 0
      BY <2>1, <2>2, <1>1, <1>2
    <2>4. QED
      BY <2>3 DEF Waiting
  <1>5. QED
    BY <1>2, <1>3, <1>4 DEF Waiting

\* Outcomes are never taken back.
OutcomesGrow == \A j \in Jobs : Outcome(j) => Outcome(j)'

\* What keeps IInv when outcomes grow: the types, the results, the stores, and
\* the liveness of the jobs without an outcome.
LEMMA Assemble ==
    ASSUME IInv, OutcomesGrow, TablesTyped', OutcomesTyped',
           \A j \in cached' \ cached : Outcome(j)',
           \A w \in Workers : (at'[w] = "store" /\ ~ (at[w] = "store" /\ held'[w] = held[w]))
                              => Outcome(Job(w))',
           \A j \in submitted' : (j \in submitted /\ Live(j)) => Outcome(j)' \/ Live(j)',
           \A j \in submitted' \ submitted : Live(j)'
    PROVE  IInv'
  <1>1. \A j \in cached' : Outcome(j)'
    BY EmailTasksAssumption DEF IInv, OutcomesGrow, TablesTyped
  <1>2. ASSUME NEW w \in Workers, at'[w] = "store" PROVE Outcome(Job(w))'
    <2>1. CASE at[w] = "store" /\ held'[w] = held[w]
      BY <2>1, HeldMessage DEF IInv, OutcomesGrow, Job
    <2>2. QED
      BY <2>1, <1>2
  <1>3. \A j \in submitted' : Outcome(j)' \/ Live(j)'
    BY DEF IInv, OutcomesGrow, TablesTyped
  <1>4. QED
    BY <1>1, <1>2, <1>3 DEF IInv

-----------------------------------------------------------------------------
(* Around the workers *)

LEMMA SubmitIInv == ASSUME IInv, NEW j \in Jobs, Submit(j) PROVE IInv'
  <1>1. Publish(<<j, 0>>) /\ 0 \in Attempts /\ TablesTyped
    BY EmailTasksAssumption DEF Submit, Attempts, IInv
  <1>2. /\ ready' \in [Messages -> Nat]
        /\ Waiting(j)'
        /\ \A i \in Jobs : Waiting(i) => Waiting(i)'
    BY <1>1, PublishWaits
  <1>3. TablesTyped' /\ OutcomesTyped' /\ OutcomesGrow
    BY <1>2 DEF IInv, TablesTyped, OutcomesTyped, OutcomesGrow, Outcome, Submit, Job, worker, history
  <1>4. \A i \in Jobs : Live(i) => Live(i)'
    BY <1>2 DEF Live, Active, Holds, Job, Submit, worker
  <1>5. Live(j)'
    BY <1>2 DEF Live
  <1>6. QED
    BY <1>3, <1>4, <1>5, Assemble DEF Submit, worker, IInv, TablesTyped

LEMMA RemoveIInv == ASSUME IInv, NEW j \in Jobs, Remove(j) PROVE IInv'
  <1>1. TablesTyped' /\ OutcomesTyped' /\ OutcomesGrow
    BY DEF IInv, TablesTyped, OutcomesTyped, OutcomesGrow, Outcome, Remove, Job,
           broker, worker, history
  <1>2. \A i \in Jobs : Live(i) => Live(i)'
    BY DEF Live, Waiting, Active, Holds, Job, Remove, broker, worker
  <1>3. QED
    BY <1>1, <1>2, Assemble DEF Remove, broker, worker, IInv, TablesTyped

LEMMA ExpireIInv == ASSUME IInv, NEW j \in Jobs, Expire(j) PROVE IInv'
  <1>1. TablesTyped' /\ OutcomesTyped' /\ OutcomesGrow
    BY DEF IInv, TablesTyped, OutcomesTyped, OutcomesGrow, Outcome, Expire, Job,
           broker, worker
  <1>2. \A i \in Jobs : Live(i) => Live(i)'
    BY DEF Live, Waiting, Active, Holds, Job, Expire, broker, worker
  <1>3. QED
    BY <1>1, <1>2, Assemble DEF Expire, broker, worker, IInv, TablesTyped

-----------------------------------------------------------------------------
(* One execution *)

\* A step of one worker that changes neither its message nor the broker and
\* does not reach the acknowledgement keeps every job as live as it was.
LEMMA StillLive ==
    ASSUME TablesTyped, NEW w \in Workers, NEW step, Goto(w, step), UNCHANGED ready,
           at[w] # "idle", step # "idle", step # "ack"
    PROVE  \A i \in Jobs : Live(i) => Live(i)'
  BY DEF TablesTyped, Goto, Live, Waiting, Active, Holds, Job

\* A step to the acknowledgement leaves the other jobs as live as they were.
LEMMA OthersLive ==
    ASSUME TablesTyped, NEW w \in Workers, at'[w] = "ack", UNCHANGED held,
           \A v \in Workers \ {w} : at'[v] = at[v],
           \A i \in Jobs : Waiting(i) => Waiting(i)'
    PROVE  \A i \in Jobs \ {Job(w)} : Live(i) => Live(i)'
  BY DEF TablesTyped, Live, Active, Holds, Job

LEMMA DeliverIInv ==
    ASSUME IInv, NEW w \in Workers, NEW m \in Messages, Deliver(w, m) PROVE IInv'
  <1>1. PICK j \in Jobs, r \in Attempts : m = <<j, r>>
    BY DEF Messages
  <1>2. /\ held'[w] = <<j, r>> /\ at'[w] \in {"lookup", "send"}
        /\ at'[w] = "lookup" => j \in Idempotent
        /\ \A v \in Workers \ {w} : at'[v] = at[v] /\ held'[v] = held[v]
    BY <1>1 DEF Deliver, IInv, TablesTyped
  <1>3. ready' \in [Messages -> Nat]
    BY DEF Deliver, IInv, TablesTyped
  <1>4. at' \in [Workers -> Steps] /\ held' \in [Workers -> Messages \union {Idle}]
    BY DEF Deliver, IInv, TablesTyped, Steps
  <1>5. \A v \in Workers : at'[v] = "idle" <=> held'[v] = Idle
    BY <1>1, <1>2, EmailTasksAssumption DEF IInv, TablesTyped
  <1>6. \A v \in Workers : at'[v] \in {"lookup", "read", "store"} => Job(v)' \in Idempotent
    BY <1>2 DEF IInv, TablesTyped, Job
  <1>7. TablesTyped' /\ OutcomesTyped' /\ OutcomesGrow
    BY <1>3, <1>4, <1>5, <1>6
       DEF Deliver, IInv, TablesTyped, OutcomesTyped, OutcomesGrow, Outcome
  <1>8. \A i \in Jobs : Live(i) => Live(i)'
    <2>1. Active(w, j)'
      BY <1>2 DEF Active, Holds, Job
    <2>2. ASSUME NEW i \in Jobs, i # j, Waiting(i) PROVE Waiting(i)'
      <3>1. PICK s \in Attempts : ready[<<i, s>>] > 0
        BY <2>2 DEF Waiting
      <3>2. <<i, s>> \in Messages /\ <<i, s>> # m
        BY <1>1, <2>2 DEF Messages
      <3>3. ready'[<<i, s>>] = ready[<<i, s>>]
        BY <3>2 DEF Deliver, IInv, TablesTyped
      <3>4. QED
        BY <3>1, <3>3 DEF Waiting
    <2>3. \A v \in Workers, i \in Jobs : Active(v, i) => Active(v, i)'
      BY <1>2 DEF Deliver, Active, Holds, Job
    <2>4. QED
      BY <2>1, <2>2, <2>3 DEF Live
  <1>9. QED
    BY <1>2, <1>7, <1>8, Assemble DEF Deliver, IInv, TablesTyped

LEMMA LookupIInv == ASSUME IInv, NEW w \in Workers, Lookup(w) PROVE IInv'
  <1>0. PICK step \in {"ack", "read", "failed"} :
          Goto(w, step) /\ (step = "ack" => Job(w) \in cached)
    BY DEF Lookup
  <1>1. TablesTyped' /\ OutcomesTyped' /\ OutcomesGrow
    BY <1>0 DEF Lookup, Goto, IInv, TablesTyped, OutcomesTyped, OutcomesGrow, Outcome,
                Steps, Job, broker, history
  <1>2. ASSUME NEW i \in Jobs, Live(i) PROVE Outcome(i)' \/ Live(i)'
    <2>1. CASE step # "ack"
      BY <1>0, <1>2, <2>1, StillLive DEF Lookup, IInv, broker
    <2>2. CASE step = "ack"
      <3>1. CASE i = Job(w)
        BY <1>0, <2>2, <3>1 DEF Lookup, IInv, Outcome, history
      <3>2. CASE i # Job(w)
        BY <1>0, <1>2, <2>2, <3>2, OthersLive
           DEF Lookup, Goto, IInv, TablesTyped, Waiting, broker
      <3>3. QED
        BY <3>1, <3>2
    <2>3. QED
      BY <2>1, <2>2
  <1>3. QED
    BY <1>0, <1>1, <1>2, Assemble DEF Lookup, Goto, IInv, TablesTyped, broker

LEMMA ReadIInv == ASSUME IInv, NEW w \in Workers, Read(w) PROVE IInv'
  <1>0. PICK step \in {"store", "send", "failed"} :
          Goto(w, step) /\ (step = "store" => skipped' = skipped \union {Job(w)})
                        /\ (step # "store" => UNCHANGED skipped)
    BY DEF Read
  <1>1. Job(w) \in Jobs /\ Job(w) \in Idempotent
    BY HeldMessage DEF Read, IInv, TablesTyped
  <1>2. TablesTyped' /\ OutcomesTyped' /\ OutcomesGrow
    BY <1>0, <1>1 DEF Read, Goto, IInv, TablesTyped, OutcomesTyped, OutcomesGrow, Outcome,
                Steps, Job, broker
  <1>3. \A i \in Jobs : Live(i) => Live(i)'
    BY <1>0, StillLive DEF Read, IInv, broker
  <1>4. \A v \in Workers : (at'[v] = "store" /\ ~ (at[v] = "store" /\ held'[v] = held[v]))
                           => Outcome(Job(v))'
    BY <1>0 DEF Read, Goto, IInv, TablesTyped, Outcome, Job
  <1>5. QED
    BY <1>2, <1>3, <1>4, Assemble DEF Read, broker, IInv, TablesTyped

LEMMA SendIInv == ASSUME IInv, NEW w \in Workers, Send(w) PROVE IInv'
  <1>0. PICK step \in {"store", "ack", "failed"} :
          /\ Goto(w, step)
          /\ step = "store" => Job(w) \in Idempotent
          /\ step \in {"store", "ack"} => Sent(w)
          /\ Sent(w) \/ UNCHANGED sent
    BY DEF Send
  <1>1. Job(w) \in Jobs
    BY HeldMessage DEF Send, IInv
  <1>2. Sent(w) => sent'[Job(w)] > 0 /\ sent' \in [Jobs -> Nat]
                   /\ \A i \in Jobs : sent[i] > 0 => sent'[i] > 0
    BY <1>1 DEF Sent, IInv, OutcomesTyped
  <1>3. TablesTyped' /\ OutcomesTyped' /\ OutcomesGrow
    BY <1>0, <1>2 DEF Send, Goto, IInv, TablesTyped, OutcomesTyped, OutcomesGrow, Outcome,
                Steps, Job, broker
  <1>4. step \in {"store", "ack"} => Outcome(Job(w))'
    BY <1>0, <1>2 DEF Outcome, Goto, Job
  <1>5. ASSUME NEW i \in Jobs, Live(i) PROVE Outcome(i)' \/ Live(i)'
    <2>1. CASE step # "ack"
      BY <1>0, <1>5, <2>1, StillLive DEF Send, IInv, broker
    <2>2. CASE step = "ack"
      <3>1. CASE i = Job(w)
        BY <1>0, <1>2, <2>2, <3>1 DEF Outcome
      <3>2. CASE i # Job(w)
        BY <1>0, <1>5, <2>2, <3>2, OthersLive
           DEF Send, Goto, IInv, TablesTyped, Waiting, broker
      <3>3. QED
        BY <3>1, <3>2
    <2>3. QED
      BY <2>1, <2>2
  <1>6. \A v \in Workers : (at'[v] = "store" /\ ~ (at[v] = "store" /\ held'[v] = held[v]))
                           => Outcome(Job(v))'
    BY <1>0, <1>4 DEF Send, Goto, IInv, TablesTyped, Job
  <1>7. QED
    BY <1>3, <1>5, <1>6, Assemble DEF Send, broker, IInv, TablesTyped

LEMMA StoreIInv == ASSUME IInv, NEW w \in Workers, Store(w) PROVE IInv'
  <1>0. /\ Job(w) \in Jobs /\ Job(w) \in Idempotent /\ Outcome(Job(w))
        /\ cached' = cached \/ cached' = cached \union {Job(w)}
    BY HeldMessage DEF Store, IInv, TablesTyped
  <1>1. PICK step \in {"ack", "failed"} : Goto(w, step)
    BY DEF Store
  <1>2. TablesTyped' /\ OutcomesTyped' /\ OutcomesGrow
    BY <1>0, <1>1 DEF Store, Goto, IInv, TablesTyped, OutcomesTyped, OutcomesGrow, Outcome,
                Steps, Job, broker
  <1>3. Outcome(Job(w))'
    BY <1>0, <1>1, <1>2 DEF OutcomesGrow, Outcome, Goto, Job, Store
  <1>4. ASSUME NEW i \in Jobs, Live(i) PROVE Outcome(i)' \/ Live(i)'
    <2>1. CASE i = Job(w)
      BY <1>0, <2>1 DEF Outcome, Store
    <2>2. CASE i # Job(w) /\ step = "ack"
      BY <1>1, <1>4, <2>2, OthersLive DEF Store, Goto, IInv, TablesTyped, Waiting, broker
    <2>3. CASE step # "ack"
      BY <1>1, <1>4, <2>3, StillLive DEF Store, IInv, broker
    <2>4. QED
      BY <2>1, <2>2, <2>3
  <1>5. \A i \in cached' \ cached : Outcome(i)'
    BY <1>0 DEF Outcome, Store
  <1>6. QED
    BY <1>1, <1>2, <1>4, <1>5, Assemble DEF Store, Goto, broker, IInv, TablesTyped

LEMMA RetryIInv == ASSUME IInv, NEW w \in Workers, Retry(w) PROVE IInv'
  <1>0. /\ Goto(w, "ack") /\ at[w] = "failed"
        /\ Job(w) \in Jobs /\ Retries(w) \in Attempts
    BY HeldMessage DEF Retry, IInv
  <1>1. \/ Retries(w) + 1 \in Attempts /\ Publish(<<Job(w), Retries(w) + 1>>) /\ UNCHANGED gaveUp
        \/ gaveUp' = gaveUp \union {Job(w)} /\ UNCHANGED ready
    BY <1>0, EmailTasksAssumption DEF Retry, Attempts
  <1>2. /\ ready' \in [Messages -> Nat]
        /\ Waiting(Job(w))' \/ Job(w) \in gaveUp'
        /\ \A i \in Jobs : Waiting(i) => Waiting(i)'
    <2>1. CASE Retries(w) + 1 \in Attempts /\ Publish(<<Job(w), Retries(w) + 1>>)
      <3>1. \A j \in Jobs, r \in Attempts : Publish(<<j, r>>) =>
              /\ ready' \in [Messages -> Nat]
              /\ Waiting(j)'
              /\ \A i \in Jobs : Waiting(i) => Waiting(i)'
        BY PublishWaits DEF IInv
      <3>2. PICK j \in Jobs, r \in Attempts : j = Job(w) /\ r = Retries(w) + 1
        BY <1>0, <2>1
      <3>3. Waiting(j)'
        BY <2>1, <3>1, <3>2
      <3>4. Job(w)' = Job(w)
        BY <1>0 DEF Goto, Job
      <3>5. Waiting(j)' <=> \E s \in Attempts : ready'[<<j, s>>] > 0
        BY DEF Waiting
      <3>6. Waiting(Job(w))'
        BY <3>2, <3>3, <3>4, <3>5 DEF Waiting
      <3>7. QED
        BY <2>1, <3>1, <3>2, <3>6
    <2>2. CASE gaveUp' = gaveUp \union {Job(w)} /\ UNCHANGED ready
      BY <2>2 DEF IInv, TablesTyped, Waiting
    <2>3. QED
      BY <1>1, <2>1, <2>2
  <1>3. TablesTyped' /\ OutcomesTyped' /\ OutcomesGrow
    BY <1>0, <1>1, <1>2 DEF Retry, Goto, IInv, TablesTyped, OutcomesTyped, OutcomesGrow,
                Outcome, Steps, Job
  <1>4. ASSUME NEW i \in Jobs, Live(i) PROVE Outcome(i)' \/ Live(i)'
    <2>1. CASE i = Job(w)
      BY <1>0, <1>2, <2>1 DEF Outcome, Live, Waiting, Goto, Job
    <2>2. CASE i # Job(w)
      BY <1>0, <1>2, <1>4, <2>2, OthersLive DEF Goto, IInv, TablesTyped
    <2>3. QED
      BY <2>1, <2>2
  <1>5. QED
    BY <1>0, <1>3, <1>4, Assemble DEF Retry, Goto, IInv, TablesTyped

LEMMA AckIInv == ASSUME IInv, NEW w \in Workers, Ack(w) PROVE IInv'
  <1>1. TablesTyped' /\ OutcomesTyped' /\ OutcomesGrow
    BY DEF Ack, Release, IInv, TablesTyped, OutcomesTyped, OutcomesGrow, Outcome,
           Steps, Job, broker, history
  <1>2. \A i \in Jobs : Live(i) => Live(i)'
    BY DEF Ack, Release, IInv, TablesTyped, Live, Waiting, Active, Holds, Job, broker
  <1>3. QED
    BY <1>1, <1>2, Assemble DEF Ack, Release, broker, IInv, TablesTyped

-----------------------------------------------------------------------------
(* Redelivery *)

\* A message that is put back stands for its job.
LEMMA PutBack ==
    ASSUME TablesTyped, NEW w \in Workers, at[w] # "idle", Publish(held[w])
    PROVE  /\ ready' \in [Messages -> Nat]
           /\ \A i \in Jobs : (i = Job(w) \/ Waiting(i)) => Waiting(i)'
  <1>1. /\ held[w] = <<Job(w), Retries(w)>>
        /\ Job(w) \in Jobs /\ Retries(w) \in Attempts
    BY HeldMessage
  <1>2. PICK j \in Jobs, r \in Attempts : j = Job(w) /\ held[w] = <<j, r>>
    BY <1>1
  <1>3. Publish(<<j, r>>)
    BY <1>2
  <1>4. /\ ready' \in [Messages -> Nat]
        /\ Waiting(j)'
        /\ \A i \in Jobs : Waiting(i) => Waiting(i)'
    BY <1>3, PublishWaits
  <1>5. QED
    BY <1>2, <1>4

\* A worker that puts its message back and lets go of it.
LEMMA ReleaseIInv ==
    ASSUME IInv, NEW w \in Workers, at[w] # "idle", Publish(held[w]), Release(w),
           UNCHANGED <<submitted, cached, gone, sent, skipped, gaveUp>>
    PROVE  IInv'
  <1>1. /\ ready' \in [Messages -> Nat]
        /\ \A i \in Jobs : (i = Job(w) \/ Waiting(i)) => Waiting(i)'
    BY PutBack DEF IInv
  <1>2. TablesTyped' /\ OutcomesTyped' /\ OutcomesGrow
    BY <1>1 DEF Release, IInv, TablesTyped, OutcomesTyped, OutcomesGrow, Outcome, Steps, Job
  <1>3. \A i \in Jobs : Live(i) => Live(i)'
    BY <1>1 DEF Release, IInv, TablesTyped, Live, Active, Holds, Job
  <1>4. QED
    BY <1>2, <1>3, Assemble DEF Release, IInv, TablesTyped

LEMMA RedeliverIInv == ASSUME IInv, NEW w \in Workers, Redeliver(w) PROVE IInv'
  <1>1. /\ ready' \in [Messages -> Nat]
        /\ \A i \in Jobs : (i = Job(w) \/ Waiting(i)) => Waiting(i)'
    BY PutBack DEF IInv, Redeliver
  <1>2. TablesTyped' /\ OutcomesTyped' /\ OutcomesGrow
    BY <1>1 DEF Redeliver, IInv, TablesTyped, OutcomesTyped, OutcomesGrow, Outcome, Job, worker
  <1>3. \A i \in Jobs : Live(i) => Live(i)'
    BY <1>1 DEF Redeliver, Live, Active, Holds, Job, worker
  <1>4. QED
    BY <1>2, <1>3, Assemble DEF Redeliver, worker, IInv, TablesTyped

-----------------------------------------------------------------------------
LEMMA NextIInv == IInv /\ [Next]_vars => IInv'
  <1>1. SUFFICES ASSUME IInv, [Next]_vars PROVE IInv'
    OBVIOUS
  <1>2. CASE \E j \in Jobs : Submit(j) \/ Remove(j) \/ Expire(j)
    BY <1>1, <1>2, SubmitIInv, RemoveIInv, ExpireIInv
  <1>3. CASE \E w \in Workers : Work(w) \/ Lose(w) \/ Redeliver(w)
    <2>1. PICK w \in Workers : Work(w) \/ Lose(w) \/ Redeliver(w)
      BY <1>3
    <2>2. CASE \E m \in Messages : Deliver(w, m)
      BY <1>1, <2>2, DeliverIInv
    <2>3. CASE Lookup(w) \/ Read(w) \/ Send(w) \/ Store(w)
      BY <1>1, <2>3, LookupIInv, ReadIInv, SendIInv, StoreIInv
    <2>4. CASE Retry(w) \/ Ack(w) \/ Redeliver(w)
      BY <1>1, <2>4, RetryIInv, AckIInv, RedeliverIInv
    <2>5. CASE RetryRefused(w)
      BY <1>1, <2>5, ReleaseIInv DEF RetryRefused
    <2>6. CASE Lose(w)
      BY <1>1, <2>6, ReleaseIInv DEF Lose
    <2>7. QED
      BY <2>1, <2>2, <2>3, <2>4, <2>5, <2>6 DEF Work
  <1>4. CASE UNCHANGED vars
    BY <1>1, <1>4 DEF IInv, TablesTyped, OutcomesTyped, Outcome, Live, Waiting, Active,
                      Holds, Job, vars, broker, worker, history
  <1>5. QED
    BY <1>1, <1>2, <1>3, <1>4 DEF Next

\* Every reachable state satisfies the invariant, with or without fairness.
THEOREM Invariance == Spec => []IInv
  BY InitIInv, NextIInv, PTL DEF Spec

\* Late acknowledgement (CELERY_TASK_ACKS_LATE, REJECT_ON_WORKER_LOST): a mail
\* task whose messages have all left broker and workers has sent its mail,
\* found its row deleted or exhausted its retries.
THEOREM NothingLost == Spec => []NoSilentLoss
  <1>1. IInv => NoSilentLoss
    <2>1. ASSUME IInv, NEW j \in Jobs, Settled(j) PROVE Outcome(j)
      <3>1. ~ Waiting(j)
        <4>1. ASSUME NEW r \in Attempts PROVE ~ (ready[<<j, r>>] > 0)
          <5>1. ready[<<j, r>>] = 0
            BY <2>1 DEF Settled
          <5>2. QED
            BY <5>1
        <4>2. QED
          BY <4>1 DEF Waiting
      <3>2. ~ Live(j)
        BY <2>1, <3>1 DEF Settled, Live, Active
      <3>3. QED
        BY <2>1, <3>2 DEF Settled, IInv
    <2>2. QED
      BY <2>1 DEF NoSilentLoss, Outcome
  <1>2. QED
    BY <1>1, Invariance, PTL

-----------------------------------------------------------------------------
(* Counting mails and executions *)

\* Workers whose execution may still send the job's mail: those past the lookup
\* of the result, and while no result is stored those before it and those that
\* are going to retry.
Sending(j) == {w \in Holders(j) :
    \/ at[w] \in {"read", "send"}
    \/ j \notin cached /\ at[w] \in {"lookup", "failed"}}

\* The waiting copies that may send it.
Sendable(j) == IF j \in cached THEN {} ELSE Waits(j)

\* The executions to come that a waiting copy, or the retries of a worker's,
\* stand for: one for each attempt that is left.
AheadOf(copies) == {t \in copies \X Attempts : t[1][1] <= t[2]}

Ahead(j) == AheadOf(Waits(j))

Later(j) == {t \in Holders(j) \X Attempts : at[t[1]] # "ack" /\ Retries(t[1]) < t[2]}

MailsPaid(j) ==
    sent[j] + Cardinality(Sending(j)) + Cardinality(Sendable(j)) <= 1 + excuses[j]

RunsPaid(j) ==
    runs[j] + Cardinality(Ahead(j)) + Cardinality(Later(j)) <= (MaxRetries + 1) * (1 + requeues[j])

\* What has been spent on a job and what may still be is covered; nothing has
\* been spent on a job to come.
Ledger(j) ==
    IF j \in submitted THEN MailsPaid(j) /\ RunsPaid(j)
    ELSE sent[j] = 0 /\ runs[j] = 0 /\ Waits(j) = {} /\ Holders(j) = {}

Ledgers == TypeOK /\ \A j \in Jobs : Ledger(j)

\* Replacing part A of a finite set by B, which brings nothing that was there.
LEMMA Exchange ==
    ASSUME NEW S, NEW A, NEW B, NEW T, IsFiniteSet(S), IsFiniteSet(B),
           A \subseteq S, B \intersect S \subseteq A, T = (S \ A) \union B
    PROVE  /\ Cardinality(T) = Cardinality(S) - Cardinality(A) + Cardinality(B)
           /\ Cardinality(S) \in Nat /\ Cardinality(A) \in Nat /\ Cardinality(B) \in Nat
  <1>1. /\ IsFiniteSet(S \ A) /\ IsFiniteSet(A)
        /\ Cardinality(S \ A) = Cardinality(S) - Cardinality(S \intersect A)
    BY FS_Difference, FS_Subset
  <1>2. S \intersect A = A /\ (S \ A) \intersect B = {}
    OBVIOUS
  <1>3. /\ IsFiniteSet((S \ A) \union B)
        /\ Cardinality((S \ A) \union B)
             = Cardinality(S \ A) + Cardinality(B) - Cardinality((S \ A) \intersect B)
    BY <1>1, FS_Union
  <1>4. /\ Cardinality(S) \in Nat /\ Cardinality(A) \in Nat /\ Cardinality(B) \in Nat
        /\ Cardinality({}) = 0
    BY <1>1, FS_CardinalityType, FS_EmptySet
  <1>5. Cardinality(S \ A) = Cardinality(S) - Cardinality(A)
    BY <1>1, <1>2
  <1>6. Cardinality((S \ A) \union B) = Cardinality(S \ A) + Cardinality(B) - 0
    BY <1>2, <1>3, <1>4
  <1>7. QED
    BY <1>3, <1>4, <1>5, <1>6

\* The attempts from r on are MaxRetries + 1 - r, for one copy of a message.
Series(c, r) == {c} \X (r .. MaxRetries)

LEMMA SeriesLength ==
    ASSUME NEW c, NEW r \in 0 .. MaxRetries + 1
    PROVE  IsFiniteSet(Series(c, r)) /\ Cardinality(Series(c, r)) = MaxRetries + 1 - r
  <1>1. /\ IsFiniteSet(r .. MaxRetries)
        /\ Cardinality(r .. MaxRetries) = MaxRetries + 1 - r
    <2>1. r \in Int /\ MaxRetries \in Int
      BY EmailTasksAssumption
    <2>2. /\ IsFiniteSet(r .. MaxRetries)
          /\ Cardinality(r .. MaxRetries) = IF r > MaxRetries THEN 0 ELSE MaxRetries - r + 1
      BY <2>1, FS_Interval
    <2>3. QED
      BY <2>2, EmailTasksAssumption
  <1>2. IsFiniteSet({c}) /\ Cardinality({c}) = 1
    BY FS_Singleton
  <1>3. /\ IsFiniteSet({c} \X (r .. MaxRetries))
        /\ Cardinality({c} \X (r .. MaxRetries)) = 1 * Cardinality(r .. MaxRetries)
    BY <1>1, <1>2, FS_Product
  <1>4. QED
    BY <1>1, <1>3, EmailTasksAssumption DEF Series

\* The copies that a table of the broker has of a message, and of a job.
Row(table, j, r) == {r} \X (1 .. table[<<j, r>>])

CopiesIn(table, j) == UNION {Row(table, j, r) : r \in Attempts}

OneMore(less, more, m) ==
    /\ more[m] = less[m] + 1
    /\ \A n \in Messages \ {m} : more[n] = less[n]

\* A message with one copy more: its job has one more, of that retry, and the
\* other jobs have those they had.
LEMMA OneCopyMore ==
    ASSUME NEW less \in [Messages -> Nat], NEW j \in Jobs, NEW r \in Attempts,
           NEW more \in [Messages -> Nat], OneMore(less, more, <<j, r>>)
    PROVE  LET c == <<r, less[<<j, r>>] + 1>>
           IN  c \notin CopiesIn(less, j) /\ CopiesIn(more, j) = CopiesIn(less, j) \union {c}
  <1> DEFINE n == less[<<j, r>>]
  <1>1. /\ n \in Nat /\ more[<<j, r>>] = n + 1
        /\ \A s \in Attempts : s # r => more[<<j, s>>] = less[<<j, s>>]
    BY DEF Messages, OneMore
  <1>2. <<r, n + 1>> \notin CopiesIn(less, j)
    <2>1. \A s \in Attempts : <<r, n + 1>> \notin Row(less, j, s)
      BY <1>1 DEF Row
    <2>2. QED
      BY <2>1 DEF CopiesIn
  <1>3. CopiesIn(more, j) = CopiesIn(less, j) \union {<<r, n + 1>>}
    <2>1. \A s \in Attempts \ {r} : Row(more, j, s) = Row(less, j, s)
      BY <1>1 DEF Row
    <2>2. Row(more, j, r) = Row(less, j, r) \union {<<r, n + 1>>}
      <3>1. 1 .. more[<<j, r>>] = (1 .. less[<<j, r>>]) \union {n + 1}
        BY <1>1
      <3>2. QED
        BY <3>1 DEF Row
    <2>3. QED
      BY <2>1, <2>2 DEF CopiesIn
  <1>4. QED
    BY <1>2, <1>3

LEMMA OtherCopies ==
    ASSUME NEW less \in [Messages -> Nat], NEW j \in Jobs, NEW r \in Attempts,
           NEW more \in [Messages -> Nat], OneMore(less, more, <<j, r>>),
           NEW i \in Jobs \ {j}
    PROVE  CopiesIn(more, i) = CopiesIn(less, i)
  <1>1. \A s \in Attempts : more[<<i, s>>] = less[<<i, s>>]
    BY DEF Messages, OneMore
  <1>2. QED
    BY <1>1 DEF CopiesIn, Row

LEMMA CopiesFinite ==
    ASSUME NEW table \in [Messages -> Nat], NEW j \in Jobs
    PROVE  IsFiniteSet(CopiesIn(table, j)) /\ IsFiniteSet(AheadOf(CopiesIn(table, j)))
  <1> DEFINE All == {Row(table, j, r) : r \in Attempts}
             f == [r \in Attempts |-> Row(table, j, r)]
  <1>1. IsFiniteSet(Attempts)
    BY FS_Interval, EmailTasksAssumption DEF Attempts
  <1>2. f \in Surjection(Attempts, All)
    BY DEF Surjection
  <1>3. IsFiniteSet(All)
    BY <1>1, <1>2, FS_Surjection
  <1>4. ASSUME NEW r \in Attempts PROVE IsFiniteSet(Row(table, j, r))
    <2>1. 1 \in Int /\ table[<<j, r>>] \in Int
      BY DEF Messages
    <2>2. IsFiniteSet({r}) /\ IsFiniteSet(1 .. table[<<j, r>>])
      BY <2>1, FS_Singleton, FS_Interval
    <2>3. QED
      BY <2>2, FS_Product DEF Row
  <1>5. \A T \in All : IsFiniteSet(T)
    BY <1>4
  <1>6. IsFiniteSet(CopiesIn(table, j))
    BY <1>3, <1>5, FS_UNION DEF CopiesIn
  <1>7. IsFiniteSet(CopiesIn(table, j) \X Attempts)
    BY <1>1, <1>6, FS_Product
  <1>8. QED
    BY <1>6, <1>7, FS_Subset DEF AheadOf

\* One copy more has a series of executions ahead of it.
LEMMA AheadMore ==
    ASSUME NEW copies, IsFiniteSet(copies), NEW r \in Attempts, NEW k, <<r, k>> \notin copies
    PROVE  Cardinality(AheadOf(copies \union {<<r, k>>}))
             = Cardinality(AheadOf(copies)) + (MaxRetries + 1 - r)
  <1> DEFINE c == <<r, k>>
  <1>1. AheadOf(copies \union {c}) = AheadOf(copies) \union Series(c, r)
    <2>1. ASSUME NEW t PROVE t \in {c} \X Attempts /\ t[1][1] <= t[2] <=> t \in Series(c, r)
      <3>1. ASSUME t \in {c} \X Attempts, t[1][1] <= t[2] PROVE t \in Series(c, r)
        <4>1. PICK a \in Attempts : t = <<c, a>>
          BY <3>1
        <4>2. r <= a
          BY <3>1, <4>1
        <4>3. a \in r .. MaxRetries
          BY <4>2, EmailTasksAssumption DEF Attempts
        <4>4. QED
          BY <4>1, <4>3 DEF Series
      <3>2. ASSUME t \in Series(c, r) PROVE t \in {c} \X Attempts /\ t[1][1] <= t[2]
        <4>1. PICK a \in r .. MaxRetries : t = <<c, a>>
          BY <3>2 DEF Series
        <4>2. a \in Attempts /\ r <= a
          BY <4>1, EmailTasksAssumption DEF Attempts
        <4>3. QED
          BY <4>1, <4>2
      <3>3. QED
        BY <3>1, <3>2
    <2>2. QED
      BY <2>1 DEF AheadOf
  <1>2. Series(c, r) \intersect AheadOf(copies) = {}
    BY DEF Series, AheadOf
  <1>3. r \in 0 .. MaxRetries + 1
    BY EmailTasksAssumption DEF Attempts
  <1>4. IsFiniteSet(Series(c, r)) /\ Cardinality(Series(c, r)) = MaxRetries + 1 - r
    BY <1>3, SeriesLength
  <1>5. IsFiniteSet(AheadOf(copies))
    <2>1. IsFiniteSet(Attempts)
      BY FS_Interval, EmailTasksAssumption DEF Attempts
    <2>2. IsFiniteSet(copies \X Attempts)
      BY <2>1, FS_Product
    <2>3. QED
      BY <2>2, FS_Subset DEF AheadOf
  <1>6. Cardinality(AheadOf(copies) \union Series(c, r))
          = Cardinality(AheadOf(copies)) + Cardinality(Series(c, r)) - Cardinality({})
    <2>1. AheadOf(copies) \intersect Series(c, r) = {}
      BY <1>2
    <2>2. QED
      BY <1>4, <1>5, <2>1, FS_Union
  <1>7. Cardinality({}) = 0 /\ Cardinality(AheadOf(copies)) \in Nat
    BY <1>5, FS_EmptySet, FS_CardinalityType
  <1>8. Cardinality(AheadOf(copies) \union Series(c, r))
          = Cardinality(AheadOf(copies)) + (MaxRetries + 1 - r)
    <2>1. MaxRetries \in Nat /\ r \in Nat
      BY EmailTasksAssumption DEF Attempts
    <2>2. QED
      BY <1>4, <1>6, <1>7, <2>1
  <1>9. QED
    BY <1>1, <1>8

LEMMA CopyCounts ==
    ASSUME NEW less \in [Messages -> Nat], NEW j \in Jobs, NEW r \in Attempts,
           NEW more \in [Messages -> Nat], OneMore(less, more, <<j, r>>)
    PROVE  /\ Cardinality(CopiesIn(more, j)) = Cardinality(CopiesIn(less, j)) + 1
           /\ Cardinality(AheadOf(CopiesIn(more, j)))
                = Cardinality(AheadOf(CopiesIn(less, j))) + (MaxRetries + 1 - r)
  <1> DEFINE k == less[<<j, r>>] + 1
  <1>1. <<r, k>> \notin CopiesIn(less, j) /\ CopiesIn(more, j) = CopiesIn(less, j) \union {<<r, k>>}
    BY OneCopyMore
  <1>2. IsFiniteSet(CopiesIn(less, j))
    BY CopiesFinite
  <1>3. Cardinality(CopiesIn(less, j) \union {<<r, k>>}) = Cardinality(CopiesIn(less, j)) + 1
    BY <1>1, <1>2, FS_AddElement
  <1>4. Cardinality(AheadOf(CopiesIn(less, j) \union {<<r, k>>}))
          = Cardinality(AheadOf(CopiesIn(less, j))) + (MaxRetries + 1 - r)
    BY <1>1, <1>2, AheadMore
  <1>5. QED
    BY <1>1, <1>3, <1>4

\* The broker's side of a step: publishing a message and taking one.
LEMMA PublishCounts ==
    ASSUME TablesTyped, NEW j \in Jobs, NEW r \in Attempts, Publish(<<j, r>>)
    PROVE  /\ Cardinality(Waits(j)') = Cardinality(Waits(j)) + 1
           /\ Cardinality(Ahead(j)') = Cardinality(Ahead(j)) + (MaxRetries + 1 - r)
           /\ \A i \in Jobs \ {j} : Waits(i)' = Waits(i)
  <1>1. <<j, r>> \in Messages /\ ready \in [Messages -> Nat] /\ ready' \in [Messages -> Nat]
    BY PublishWaits DEF TablesTyped, Messages
  <1>2. OneMore(ready, ready', <<j, r>>)
    BY <1>1 DEF Publish, OneMore
  <1>3. \A i \in Jobs : Waits(i) = CopiesIn(ready, i) /\ Waits(i)' = CopiesIn(ready', i)
    BY DEF Waits, CopiesIn, Row
  <1>4. Ahead(j) = AheadOf(CopiesIn(ready, j)) /\ Ahead(j)' = AheadOf(CopiesIn(ready', j))
    BY <1>3 DEF Ahead, AheadOf
  <1>5. /\ Cardinality(Waits(j)') = Cardinality(Waits(j)) + 1
        /\ Cardinality(Ahead(j)') = Cardinality(Ahead(j)) + (MaxRetries + 1 - r)
    BY <1>1, <1>2, <1>3, <1>4, CopyCounts
  <1>6. \A i \in Jobs \ {j} : Waits(i)' = Waits(i)
    BY <1>1, <1>2, <1>3, OtherCopies
  <1>7. QED
    BY <1>5, <1>6

LEMMA TakeCounts ==
    ASSUME TablesTyped, NEW j \in Jobs, NEW r \in Attempts, ready[<<j, r>>] > 0,
           ready' = [ready EXCEPT ![<<j, r>>] = @ - 1]
    PROVE  /\ Cardinality(Waits(j)) = Cardinality(Waits(j)') + 1
           /\ Cardinality(Ahead(j)) = Cardinality(Ahead(j)') + (MaxRetries + 1 - r)
           /\ \A i \in Jobs \ {j} : Waits(i)' = Waits(i)
  <1>1. <<j, r>> \in Messages /\ ready \in [Messages -> Nat]
    BY DEF TablesTyped, Messages
  <1>2. ready' \in [Messages -> Nat] /\ OneMore(ready', ready, <<j, r>>)
    <2>1. ready[<<j, r>>] - 1 \in Nat
      BY <1>1
    <2>2. QED
      BY <1>1, <2>1 DEF OneMore
  <1>3. \A i \in Jobs : Waits(i) = CopiesIn(ready, i) /\ Waits(i)' = CopiesIn(ready', i)
    BY DEF Waits, CopiesIn, Row
  <1>4. Ahead(j) = AheadOf(CopiesIn(ready, j)) /\ Ahead(j)' = AheadOf(CopiesIn(ready', j))
    BY <1>3 DEF Ahead, AheadOf
  <1>5. /\ Cardinality(Waits(j)) = Cardinality(Waits(j)') + 1
        /\ Cardinality(Ahead(j)) = Cardinality(Ahead(j)') + (MaxRetries + 1 - r)
    <2>1. \A less, more \in [Messages -> Nat] : OneMore(less, more, <<j, r>>) =>
            /\ Cardinality(CopiesIn(more, j)) = Cardinality(CopiesIn(less, j)) + 1
            /\ Cardinality(AheadOf(CopiesIn(more, j)))
                 = Cardinality(AheadOf(CopiesIn(less, j))) + (MaxRetries + 1 - r)
      BY CopyCounts
    <2>2. QED
      BY <1>1, <1>2, <1>3, <1>4, <2>1
  <1>6. \A i \in Jobs \ {j} : Waits(i)' = Waits(i)
    <2>1. \A less, more \in [Messages -> Nat] : OneMore(less, more, <<j, r>>) =>
            \A i \in Jobs \ {j} : CopiesIn(more, i) = CopiesIn(less, i)
      BY OtherCopies
    <2>2. \A i \in Jobs \ {j} : CopiesIn(ready, i) = CopiesIn(ready', i)
      BY <1>1, <1>2, <2>1
    <2>3. QED
      BY <1>3, <2>2
  <1>7. QED
    BY <1>5, <1>6

\* Only the waiting copies and the holders of a job are counted: all of these
\* sets are finite.
LEMMA CountsFinite ==
    ASSUME TablesTyped, NEW j \in Jobs
    PROVE  /\ IsFiniteSet(Waits(j)) /\ IsFiniteSet(Sendable(j))
           /\ IsFiniteSet(Holders(j)) /\ IsFiniteSet(Sending(j))
           /\ IsFiniteSet(Ahead(j)) /\ IsFiniteSet(Later(j))
           /\ Cardinality(Waits(j)) \in Nat /\ Cardinality(Sendable(j)) \in Nat
           /\ Cardinality(Holders(j)) \in Nat /\ Cardinality(Sending(j)) \in Nat
           /\ Cardinality(Ahead(j)) \in Nat /\ Cardinality(Later(j)) \in Nat
  <1>0. Waits(j) = CopiesIn(ready, j)
    BY DEF Waits, CopiesIn, Row
  <1>1. IsFiniteSet(Waits(j)) /\ IsFiniteSet(Sendable(j))
    BY <1>0, CopiesFinite, FS_EmptySet DEF Sendable, TablesTyped
  <1>2. IsFiniteSet(Holders(j))
    BY FS_Subset, EmailTasksAssumption DEF Holders
  <1>3. IsFiniteSet(Sending(j))
    BY <1>2, FS_Subset DEF Sending
  <1>4. IsFiniteSet(Attempts)
    BY FS_Interval, EmailTasksAssumption DEF Attempts
  <1>5. IsFiniteSet(Ahead(j))
    BY <1>0, CopiesFinite DEF Ahead, TablesTyped
  <1>6. IsFiniteSet(Later(j))
    <2>1. IsFiniteSet(Holders(j) \X Attempts)
      BY <1>2, <1>4, FS_Product
    <2>2. QED
      BY <2>1, FS_Subset DEF Later
  <1>7. QED
    BY <1>1, <1>2, <1>3, <1>5, <1>6, FS_CardinalityType

\* A worker's part in these numbers.
SendingOf(w, j) == IF w \in Sending(j) THEN 1 ELSE 0

LaterOf(w, j) == IF Active(w, j) THEN MaxRetries - Retries(w) ELSE 0

\* Retries that a worker with message attempt r still has before it.
Chain(w, r) == {w} \X {a \in Attempts : r < a}

LEMMA ChainLength ==
    ASSUME NEW w, NEW r \in Attempts
    PROVE  IsFiniteSet(Chain(w, r)) /\ Cardinality(Chain(w, r)) = MaxRetries - r
  <1>1. {a \in Attempts : r < a} = (r + 1) .. MaxRetries
    BY EmailTasksAssumption DEF Attempts
  <1>2. Chain(w, r) = Series(w, r + 1) /\ r + 1 \in 0 .. MaxRetries + 1
    BY <1>1, EmailTasksAssumption DEF Chain, Series, Attempts
  <1>3. IsFiniteSet(Chain(w, r)) /\ Cardinality(Chain(w, r)) = MaxRetries + 1 - (r + 1)
    BY <1>2, SeriesLength
  <1>4. QED
    BY <1>3, EmailTasksAssumption DEF Attempts

\* A step of one worker changes these numbers by its own part.
Alone(w) == \A v \in Workers \ {w} : at'[v] = at[v] /\ held'[v] = held[v]

LEMMA LaterStep ==
    ASSUME TablesTyped, TablesTyped', NEW w \in Workers, Alone(w), NEW j \in Jobs
    PROVE  Cardinality(Later(j)') + LaterOf(w, j) = Cardinality(Later(j)) + LaterOf(w, j)'
  <1> DEFINE P == IF Active(w, j) THEN Chain(w, Retries(w)) ELSE {}
             Q == IF Active(w, j)' THEN Chain(w, Retries(w)') ELSE {}
  <1>1. Active(w, j) => at[w] # "idle"
    BY DEF Active, Holds
  <1>2. Active(w, j)' => at'[w] # "idle"
    BY DEF Active, Holds
  <1>3. Active(w, j) => Retries(w) \in Attempts
    BY <1>1, HeldMessage
  <1>4. Active(w, j)' => Retries(w)' \in Attempts
    BY <1>2, EmailTasksAssumption DEF TablesTyped, Messages, Retries
  <1>5. IsFiniteSet(P) /\ Cardinality(P) = LaterOf(w, j) /\ LaterOf(w, j) \in Int
    BY <1>3, ChainLength, FS_EmptySet, EmailTasksAssumption DEF LaterOf, Attempts
  <1>6. IsFiniteSet(Q) /\ Cardinality(Q) = LaterOf(w, j)' /\ LaterOf(w, j)' \in Int
    BY <1>4, ChainLength, FS_EmptySet, EmailTasksAssumption DEF LaterOf, Attempts
  <1>7. Later(j)' = (Later(j) \ P) \union Q /\ P \subseteq Later(j) /\ Q \intersect Later(j) \subseteq P
    <2>1. ASSUME NEW v \in Workers, NEW a \in Attempts
          PROVE  /\ <<v, a>> \in Later(j) <=> Active(v, j) /\ Retries(v) < a
                 /\ <<v, a>> \in Later(j)' <=> Active(v, j)' /\ Retries(v)' < a
                 /\ <<v, a>> \in P <=> v = w /\ Active(w, j) /\ Retries(w) < a
                 /\ <<v, a>> \in Q <=> v = w /\ Active(w, j)' /\ Retries(w)' < a
      BY DEF Later, Holders, Active, Chain
    <2>2. \A v \in Workers \ {w} :
             (Active(v, j)' <=> Active(v, j)) /\ Retries(v)' = Retries(v)
      BY DEF Alone, Active, Holds, Job, Retries
    <2>3. /\ Later(j) \subseteq Workers \X Attempts /\ Later(j)' \subseteq Workers \X Attempts
          /\ P \subseteq Workers \X Attempts /\ Q \subseteq Workers \X Attempts
      BY DEF Later, Holders, Chain
    <2>4. QED
      BY <2>1, <2>2, <2>3
  <1>8. IsFiniteSet(Later(j))
    BY CountsFinite
  <1>9. /\ Cardinality(Later(j)') = Cardinality(Later(j)) - Cardinality(P) + Cardinality(Q)
        /\ Cardinality(Later(j)) \in Nat
    BY <1>6, <1>7, <1>8, Exchange
  <1>10. QED
    BY <1>5, <1>6, <1>9

LEMMA SendingStep ==
    ASSUME TablesTyped, TablesTyped', NEW w \in Workers, Alone(w), NEW j \in Jobs,
           j \in cached <=> j \in cached'
    PROVE  Cardinality(Sending(j)') + SendingOf(w, j) = Cardinality(Sending(j)) + SendingOf(w, j)'
  <1> DEFINE P == IF w \in Sending(j) THEN {w} ELSE {}
             Q == IF w \in Sending(j)' THEN {w} ELSE {}
  <1>1. IsFiniteSet(P) /\ Cardinality(P) = SendingOf(w, j)
    BY FS_EmptySet, FS_Singleton DEF SendingOf
  <1>2. IsFiniteSet(Q) /\ Cardinality(Q) = SendingOf(w, j)'
    BY FS_EmptySet, FS_Singleton DEF SendingOf
  <1>3. SendingOf(w, j) \in Nat /\ SendingOf(w, j)' \in Nat
    BY DEF SendingOf
  <1>4. Sending(j)' = (Sending(j) \ P) \union Q /\ P \subseteq Sending(j) /\ Q \intersect Sending(j) \subseteq P
    <2>1. \A v \in Workers \ {w} : v \in Sending(j)' <=> v \in Sending(j)
      BY DEF Alone, Sending, Holders, Holds, Job
    <2>2. Sending(j) \subseteq Workers /\ Sending(j)' \subseteq Workers
      BY DEF Sending, Holders
    <2>3. QED
      BY <2>1, <2>2
  <1>5. IsFiniteSet(Sending(j))
    BY CountsFinite
  <1>6. /\ Cardinality(Sending(j)') = Cardinality(Sending(j)) - Cardinality(P) + Cardinality(Q)
        /\ Cardinality(Sending(j)) \in Nat
    BY <1>2, <1>4, <1>5, Exchange
  <1>7. QED
    BY <1>1, <1>2, <1>3, <1>6

\* A step that leaves a job's copies, its holders and its numbers alone keeps its
\* ledger.
LEMMA OtherLedger ==
    ASSUME NEW j \in Jobs, Ledger(j), Waits(j)' = Waits(j), Holders(j)' = Holders(j),
           \A v \in Holders(j) : at'[v] = at[v] /\ held'[v] = held[v],
           j \in submitted <=> j \in submitted', j \in cached <=> j \in cached',
           sent'[j] = sent[j], runs'[j] = runs[j],
           requeues'[j] = requeues[j], excuses'[j] = excuses[j]
    PROVE  Ledger(j)'
  <1>1. Sending(j)' = Sending(j)
    BY DEF Sending
  <1>2. Sendable(j)' = Sendable(j)
    BY DEF Sendable
  <1>3. Ahead(j)' = Ahead(j)
    BY DEF Ahead, AheadOf
  <1>4. Later(j)' = Later(j)
    BY DEF Later, Retries
  <1>5. MailsPaid(j)' <=> MailsPaid(j)
    BY <1>1, <1>2 DEF MailsPaid
  <1>6. RunsPaid(j)' <=> RunsPaid(j)
    BY <1>3, <1>4 DEF RunsPaid
  <1>7. QED
    BY <1>5, <1>6 DEF Ledger

\* The account of a job balances when its mails and its executions, those to come
\* included, grow by no more than the faults that a step adds.
MailsSum(j) == sent[j] + Cardinality(Sending(j)) + Cardinality(Sendable(j))

RunsSum(j) == runs[j] + Cardinality(Ahead(j)) + Cardinality(Later(j))

Counted ==
    \A j \in Jobs :
        /\ Cardinality(Sendable(j)) \in Nat /\ Cardinality(Sending(j)) \in Nat
        /\ Cardinality(Ahead(j)) \in Nat /\ Cardinality(Later(j)) \in Nat
        /\ sent[j] \in Nat /\ runs[j] \in Nat
        /\ excuses[j] \in Nat /\ requeues[j] \in Nat

LEMMA AllCounted == TypeOK => Counted
  <1>1. ASSUME TypeOK, NEW j \in Jobs
        PROVE  /\ Cardinality(Sendable(j)) \in Nat /\ Cardinality(Sending(j)) \in Nat
               /\ Cardinality(Ahead(j)) \in Nat /\ Cardinality(Later(j)) \in Nat
    BY <1>1, CountsFinite DEF TypeOK
  <1>2. ASSUME TypeOK, NEW j \in Jobs
        PROVE  /\ sent[j] \in Nat /\ runs[j] \in Nat
               /\ excuses[j] \in Nat /\ requeues[j] \in Nat
    BY <1>2 DEF TypeOK
  <1>3. QED
    BY <1>1, <1>2 DEF Counted

LEMMA NextCounted == TypeOK' => Counted'
  BY AllCounted, PTL

LEMMA MailsBalance ==
    ASSUME TypeOK, TypeOK', NEW j \in Jobs, MailsPaid(j),
           MailsSum(j)' + excuses[j] <= MailsSum(j) + excuses'[j]
    PROVE  MailsPaid(j)'
  <1>1. MailsSum(j) \in Nat /\ excuses[j] \in Nat
    BY AllCounted DEF Counted, MailsSum
  <1>2. MailsSum(j)' \in Nat /\ excuses'[j] \in Nat
    BY NextCounted DEF Counted, MailsSum
  <1>3. MailsSum(j) <= 1 + excuses[j]
    BY DEF MailsPaid, MailsSum
  <1>4. MailsSum(j)' <= 1 + excuses'[j]
    BY <1>1, <1>2, <1>3
  <1>5. QED
    BY <1>4 DEF MailsPaid, MailsSum

LEMMA RunsBalance ==
    ASSUME TypeOK, TypeOK', NEW j \in Jobs, RunsPaid(j),
           \/ requeues'[j] = requeues[j] /\ RunsSum(j)' <= RunsSum(j)
           \/ requeues'[j] = requeues[j] + 1 /\ RunsSum(j)' <= RunsSum(j) + (MaxRetries + 1)
    PROVE  RunsPaid(j)'
  <1>1. RunsSum(j) \in Nat /\ requeues[j] \in Nat
    BY AllCounted DEF Counted, RunsSum
  <1>2. RunsSum(j)' \in Nat /\ requeues'[j] \in Nat
    BY NextCounted DEF Counted, RunsSum
  <1> DEFINE Budget(q) == (MaxRetries + 1) * (1 + q)
  <1>3. \A q \in Nat : Budget(q) \in Nat /\ Budget(q + 1) = Budget(q) + (MaxRetries + 1)
    BY EmailTasksAssumption
  <1>4. RunsSum(j) <= Budget(requeues[j])
    BY DEF RunsPaid, RunsSum
  <1>5. RunsSum(j)' <= Budget(requeues'[j])
    <2> HIDE DEF Budget
    <2>1. MaxRetries + 1 \in Nat
      BY EmailTasksAssumption
    <2>2. CASE requeues'[j] = requeues[j] /\ RunsSum(j)' <= RunsSum(j)
      BY <1>1, <1>2, <1>3, <1>4, <2>2
    <2>3. CASE requeues'[j] = requeues[j] + 1 /\ RunsSum(j)' <= RunsSum(j) + (MaxRetries + 1)
      <3>1. Budget(requeues'[j]) = Budget(requeues[j]) + (MaxRetries + 1)
        BY <1>1, <1>3, <2>3
      <3>2. Budget(requeues[j]) \in Nat
        BY <1>1, <1>3
      <3>3. QED
        BY <1>1, <1>2, <1>4, <2>1, <2>3, <3>1, <3>2
    <2>4. QED
      BY <2>2, <2>3
  <1>6. QED
    BY <1>5 DEF RunsPaid, RunsSum

\* A worker's step on a message of job j, and the ledgers of the other jobs.
LEMMA OthersLedger ==
    ASSUME \A i \in Jobs : Ledger(i),
           NEW w \in Workers, NEW j \in Jobs, Alone(w),
           \A i \in Jobs \ {j} : ~ Holds(w, i) /\ ~ Holds(w, i)',
           UNCHANGED submitted,
           \A i \in Jobs \ {j} : /\ Waits(i)' = Waits(i)
                                 /\ i \in cached <=> i \in cached'
                                 /\ sent'[i] = sent[i] /\ runs'[i] = runs[i]
                                 /\ requeues'[i] = requeues[i] /\ excuses'[i] = excuses[i]
    PROVE  \A i \in Jobs \ {j} : Ledger(i)'
  <1> SUFFICES ASSUME NEW i \in Jobs \ {j} PROVE Ledger(i)'
    OBVIOUS
  <1>1. Holders(i)' = Holders(i)
    BY DEF Alone, Holders, Holds, Job
  <1>2. \A v \in Holders(i) : at'[v] = at[v] /\ held'[v] = held[v]
    BY DEF Alone, Holders
  <1>3. QED
    BY <1>1, <1>2, OtherLedger

\* A job of which a message waits or is executed has been submitted.
LEMMA HeldSubmitted ==
    ASSUME NEW j \in Jobs, Ledger(j), NEW w \in Workers, Holds(w, j)
    PROVE  j \in submitted
  BY DEF Ledger, Holders

LEMMA WaitingSubmitted ==
    ASSUME TablesTyped, NEW j \in Jobs, Ledger(j), NEW r \in Attempts, ready[<<j, r>>] > 0
    PROVE  j \in submitted
  <1>1. ready[<<j, r>>] \in Nat
    BY DEF TablesTyped, Messages
  <1>2. <<r, 1>> \in {r} \X (1 .. ready[<<j, r>>])
    BY <1>1
  <1>3. Waits(j) # {}
    BY <1>2 DEF Waits
  <1>4. QED
    BY <1>3 DEF Ledger

LEMMA BusyJob ==
    ASSUME TypeOK, \A i \in Jobs : Ledger(i), NEW w \in Workers, at[w] # "idle"
    PROVE  /\ Job(w) \in Jobs /\ Retries(w) \in Attempts
           /\ held[w] = <<Job(w), Retries(w)>>
           /\ Job(w) \in submitted /\ MailsPaid(Job(w)) /\ RunsPaid(Job(w))
           /\ \A i \in Jobs \ {Job(w)} : ~ Holds(w, i)
  <1>1. /\ Job(w) \in Jobs /\ Retries(w) \in Attempts
        /\ held[w] = <<Job(w), Retries(w)>>
    BY HeldMessage DEF TypeOK
  <1>2. Job(w) \in submitted
    BY <1>1, HeldSubmitted DEF Holds
  <1>3. QED
    BY <1>1, <1>2 DEF Ledger, Holds

-----------------------------------------------------------------------------
(* The steps of an account *)

\* A step of a worker that neither publishes nor takes a message.
LEMMA QuietLedger ==
    ASSUME TypeOK, TypeOK', \A i \in Jobs : Ledger(i),
           NEW w \in Workers, at[w] # "idle", Alone(w), NEW j \in Jobs, j = Job(w),
           at'[w] = "idle" \/ (held'[w] = held[w] /\ at[w] # "ack"),
           UNCHANGED <<submitted, ready, cached, runs, requeues>>,
           \A i \in Jobs \ {j} : sent'[i] = sent[i] /\ excuses'[i] = excuses[i],
           sent'[j] + SendingOf(w, j)' + excuses[j] <= sent[j] + SendingOf(w, j) + excuses'[j]
    PROVE  \A i \in Jobs : Ledger(i)'
  <1>1. /\ j \in submitted /\ MailsPaid(j) /\ RunsPaid(j) /\ Retries(w) \in Attempts
        /\ \A i \in Jobs \ {j} : ~ Holds(w, i)
    BY BusyJob
  <1>2. TablesTyped /\ TablesTyped'
    BY DEF TypeOK
  <1>3. \A i \in Jobs : Waits(i)' = Waits(i)
    BY DEF Waits
  <1>4. \A i \in Jobs \ {j} : ~ Holds(w, i)'
    BY <1>1 DEF Holds, Job
  <1>5. \A i \in Jobs \ {j} : Ledger(i)'
    BY <1>1, <1>3, <1>4, OthersLedger
  <1>6. Sendable(j)' = Sendable(j) /\ Ahead(j)' = Ahead(j)
    BY <1>3 DEF Sendable, Ahead, AheadOf
  <1>7. Counted /\ Counted'
    BY AllCounted, NextCounted
  <1>8. MailsPaid(j)'
    <2>1. Cardinality(Sending(j)') + SendingOf(w, j) = Cardinality(Sending(j)) + SendingOf(w, j)'
      BY <1>2, SendingStep
    <2>2. SendingOf(w, j) \in Nat /\ SendingOf(w, j)' \in Nat
      BY DEF SendingOf
    <2>3. MailsSum(j)' + excuses[j] <= MailsSum(j) + excuses'[j]
      BY <1>6, <1>7, <2>1, <2>2 DEF MailsSum, Counted
    <2>4. QED
      BY <1>1, <2>3, MailsBalance
  <1>9. RunsPaid(j)'
    <2>1. Cardinality(Later(j)') + LaterOf(w, j) = Cardinality(Later(j)) + LaterOf(w, j)'
      BY <1>2, LaterStep
    <2>2. LaterOf(w, j) \in Nat /\ LaterOf(w, j)' \in Nat /\ LaterOf(w, j)' <= LaterOf(w, j)
      <3>1. MaxRetries - Retries(w) \in Nat
        BY <1>1, EmailTasksAssumption DEF Attempts
      <3>2. Active(w, j)' => Active(w, j) /\ Retries(w)' = Retries(w)
        BY DEF Active, Holds, Job, Retries
      <3>3. QED
        BY <3>1, <3>2 DEF LaterOf
    <2>3. RunsSum(j)' <= RunsSum(j)
      BY <1>6, <1>7, <2>1, <2>2 DEF RunsSum, Counted
    <2>4. requeues'[j] = requeues[j]
      OBVIOUS
    <2>5. QED
      BY <1>1, <2>3, <2>4, RunsBalance
  <1>10. QED
    BY <1>1, <1>5, <1>8, <1>9 DEF Ledger

\* A step of a worker that publishes a message of its job.
LEMMA PublishLedger ==
    ASSUME TypeOK, TypeOK', \A i \in Jobs : Ledger(i),
           NEW w \in Workers, at[w] # "idle", Alone(w), NEW j \in Jobs, j = Job(w),
           at'[w] = "idle" \/ held'[w] = held[w],
           NEW r \in Attempts, Publish(<<j, r>>),
           UNCHANGED <<submitted, cached, sent, runs>>,
           \A i \in Jobs \ {j} : requeues'[i] = requeues[i] /\ excuses'[i] = excuses[i],
           SendingOf(w, j)' + (IF j \in cached THEN 0 ELSE 1) + excuses[j]
               <= SendingOf(w, j) + excuses'[j],
           \/ /\ requeues'[j] = requeues[j]
              /\ LaterOf(w, j)' + (MaxRetries + 1 - r) <= LaterOf(w, j)
           \/ /\ requeues'[j] = requeues[j] + 1
              /\ LaterOf(w, j)' <= LaterOf(w, j)
    PROVE  \A i \in Jobs : Ledger(i)'
  <1>1. /\ j \in submitted /\ MailsPaid(j) /\ RunsPaid(j) /\ Retries(w) \in Attempts
        /\ \A i \in Jobs \ {j} : ~ Holds(w, i)
    BY BusyJob
  <1>2. TablesTyped /\ TablesTyped'
    BY DEF TypeOK
  <1>3. /\ Cardinality(Waits(j)') = Cardinality(Waits(j)) + 1
        /\ Cardinality(Ahead(j)') = Cardinality(Ahead(j)) + (MaxRetries + 1 - r)
        /\ \A i \in Jobs \ {j} : Waits(i)' = Waits(i)
    BY <1>2, PublishCounts
  <1>4. \A i \in Jobs \ {j} : ~ Holds(w, i)'
    BY <1>1 DEF Holds, Job
  <1>5. \A i \in Jobs \ {j} : Ledger(i)'
    BY <1>1, <1>3, <1>4, OthersLedger
  <1>6. Cardinality(Sendable(j)') = Cardinality(Sendable(j)) + (IF j \in cached THEN 0 ELSE 1)
    BY <1>3, FS_EmptySet DEF Sendable
  <1>7. Counted /\ Counted'
    BY AllCounted, NextCounted
  <1>8. MailsPaid(j)'
    <2>1. Cardinality(Sending(j)') + SendingOf(w, j) = Cardinality(Sending(j)) + SendingOf(w, j)'
      BY <1>2, SendingStep
    <2>2. SendingOf(w, j) \in Nat /\ SendingOf(w, j)' \in Nat
      BY DEF SendingOf
    <2>3. MailsSum(j)' + excuses[j] <= MailsSum(j) + excuses'[j]
      BY <1>6, <1>7, <2>1, <2>2 DEF MailsSum, Counted
    <2>4. QED
      BY <1>1, <2>3, MailsBalance
  <1>9. RunsPaid(j)'
    <2>1. Cardinality(Later(j)') + LaterOf(w, j) = Cardinality(Later(j)) + LaterOf(w, j)'
      BY <1>2, LaterStep
    <2>2. LaterOf(w, j) \in Nat /\ LaterOf(w, j)' \in Nat
      <3>1. MaxRetries - Retries(w) \in Nat
        BY <1>1, EmailTasksAssumption DEF Attempts
      <3>2. Active(w, j)' => Retries(w)' = Retries(w)
        BY DEF Active, Holds, Retries
      <3>3. QED
        BY <3>1, <3>2 DEF LaterOf
    <2>3. /\ MaxRetries + 1 - r \in Nat /\ MaxRetries + 1 \in Nat
          /\ MaxRetries + 1 - r <= MaxRetries + 1
      BY EmailTasksAssumption DEF Attempts
    <2>4. RunsSum(j)' = RunsSum(j) + (MaxRetries + 1 - r) + LaterOf(w, j)' - LaterOf(w, j)
      BY <1>3, <1>7, <2>1, <2>2, <2>3 DEF RunsSum, Counted
    <2>5. RunsSum(j) \in Nat
      BY <1>7 DEF RunsSum, Counted
    <2>6. \/ requeues'[j] = requeues[j] /\ RunsSum(j)' <= RunsSum(j)
          \/ requeues'[j] = requeues[j] + 1 /\ RunsSum(j)' <= RunsSum(j) + (MaxRetries + 1)
      BY <2>2, <2>3, <2>4, <2>5
    <2>7. QED
      BY <1>1, <2>6, RunsBalance
  <1>10. QED
    BY <1>1, <1>5, <1>8, <1>9 DEF Ledger

-----------------------------------------------------------------------------
(* The ledger, action by action *)

LEMMA LookupLedger ==
    ASSUME TypeOK, TypeOK', \A i \in Jobs : Ledger(i), NEW w \in Workers, Lookup(w)
    PROVE  \A i \in Jobs : Ledger(i)'
  <1>1. PICK j \in Jobs : j = Job(w)
    BY BusyJob DEF Lookup
  <1>2. Alone(w) /\ held' = held /\ at'[w] \in {"ack", "read", "failed"}
        /\ (j \in cached => at'[w] \in {"ack", "failed"})
    BY <1>1 DEF Lookup, Goto, Alone, TypeOK, TablesTyped
  <1>3. SendingOf(w, j)' <= SendingOf(w, j)
    BY <1>2 DEF SendingOf, Sending, Holders, Holds, Job, Lookup
  <1>4. /\ UNCHANGED <<submitted, ready, cached, runs, requeues>>
        /\ \A i \in Jobs : sent'[i] = sent[i] /\ excuses'[i] = excuses[i]
    BY DEF Lookup, broker, history
  <1>5. sent[j] \in Nat /\ excuses[j] \in Nat
    BY <1>1 DEF TypeOK
  <1>6. sent'[j] + SendingOf(w, j)' + excuses[j] <= sent[j] + SendingOf(w, j) + excuses'[j]
    BY <1>1, <1>3, <1>4, <1>5 DEF SendingOf
  <1>7. QED
    BY <1>1, <1>2, <1>4, <1>6, QuietLedger DEF Lookup

LEMMA ReadLedger ==
    ASSUME TypeOK, TypeOK', \A i \in Jobs : Ledger(i), NEW w \in Workers, Read(w)
    PROVE  \A i \in Jobs : Ledger(i)'
  <1>1. PICK j \in Jobs : j = Job(w)
    BY BusyJob DEF Read
  <1>2. Alone(w) /\ held' = held /\ at'[w] \in {"store", "send", "failed"}
    BY DEF Read, Goto, Alone, TypeOK, TablesTyped
  <1>3. SendingOf(w, j)' <= SendingOf(w, j)
    BY <1>2 DEF SendingOf, Sending, Holders, Holds, Job, Read
  <1>4. /\ UNCHANGED <<submitted, ready, cached, runs, requeues>>
        /\ \A i \in Jobs : sent'[i] = sent[i] /\ excuses'[i] = excuses[i]
    BY DEF Read, broker
  <1>5. sent[j] \in Nat /\ excuses[j] \in Nat
    BY <1>1 DEF TypeOK
  <1>6. sent'[j] + SendingOf(w, j)' + excuses[j] <= sent[j] + SendingOf(w, j) + excuses'[j]
    BY <1>1, <1>3, <1>4, <1>5 DEF SendingOf
  <1>7. QED
    BY <1>1, <1>2, <1>4, <1>6, QuietLedger DEF Read

\* A mail that leaves uses the worker's entitlement; a lost answer earns it anew.
LEMMA SendLedger ==
    ASSUME TypeOK, TypeOK', \A i \in Jobs : Ledger(i), NEW w \in Workers, Send(w)
    PROVE  \A i \in Jobs : Ledger(i)'
  <1>1. PICK j \in Jobs : j = Job(w)
    BY BusyJob DEF Send
  <1>2. Alone(w) /\ held' = held /\ at'[w] \in {"store", "ack", "failed"}
    BY DEF Send, Goto, Alone, TypeOK, TablesTyped
  <1>3. /\ UNCHANGED <<submitted, ready, cached, runs, requeues>>
        /\ \A i \in Jobs \ {j} : sent'[i] = sent[i] /\ excuses'[i] = excuses[i]
    BY <1>1 DEF Send, Sent, Excuse, broker, TypeOK
  <1>4. /\ SendingOf(w, j) = 1
        /\ SendingOf(w, j)' <= 1
        /\ at'[w] # "failed" => SendingOf(w, j)' = 0
    BY <1>1, <1>2 DEF SendingOf, Sending, Holders, Holds, Job, Send
  <1>5. \/ at'[w] # "failed" /\ sent'[j] = sent[j] + 1 /\ excuses'[j] = excuses[j]
        \/ sent'[j] = sent[j] /\ excuses'[j] = excuses[j]
        \/ sent'[j] = sent[j] + 1 /\ excuses'[j] = excuses[j] + 1
    BY <1>1 DEF Send, Sent, Excuse, Goto, TypeOK, TablesTyped
  <1>6. sent[j] \in Nat /\ excuses[j] \in Nat
    BY <1>1 DEF TypeOK
  <1>7. sent'[j] + SendingOf(w, j)' + excuses[j] <= sent[j] + SendingOf(w, j) + excuses'[j]
    BY <1>4, <1>5, <1>6 DEF SendingOf
  <1>8. QED
    BY <1>1, <1>2, <1>3, <1>7, QuietLedger DEF Send

LEMMA AckLedger ==
    ASSUME TypeOK, TypeOK', \A i \in Jobs : Ledger(i), NEW w \in Workers, Ack(w)
    PROVE  \A i \in Jobs : Ledger(i)'
  <1>1. PICK j \in Jobs : j = Job(w)
    BY BusyJob DEF Ack
  <1>2. Alone(w) /\ at'[w] = "idle"
    BY DEF Ack, Release, Alone, TypeOK, TablesTyped
  <1>3. SendingOf(w, j)' = 0
    BY <1>2 DEF SendingOf, Sending, Holders, Holds
  <1>4. /\ UNCHANGED <<submitted, ready, cached, runs, requeues>>
        /\ \A i \in Jobs : sent'[i] = sent[i] /\ excuses'[i] = excuses[i]
    BY DEF Ack, broker, history
  <1>5. sent[j] \in Nat /\ excuses[j] \in Nat
    BY <1>1 DEF TypeOK
  <1>6. sent'[j] + SendingOf(w, j)' + excuses[j] <= sent[j] + SendingOf(w, j) + excuses'[j]
    BY <1>1, <1>3, <1>4, <1>5 DEF SendingOf
  <1>7. QED
    BY <1>1, <1>2, <1>4, <1>6, QuietLedger DEF Ack

\* A stored result ends the entitlement of all but those past the lookup of it.
LEMMA StoreLedger ==
    ASSUME TypeOK, TypeOK', \A i \in Jobs : Ledger(i), NEW w \in Workers, Store(w)
    PROVE  \A i \in Jobs : Ledger(i)'
  <1>1. PICK j \in Jobs : j = Job(w)
    BY BusyJob DEF Store
  <1>2. Alone(w) /\ held' = held /\ at'[w] \in {"ack", "failed"}
    BY DEF Store, Goto, Alone, TypeOK, TablesTyped
  <1>3. UNCHANGED <<submitted, ready, sent, runs, requeues>>
    BY DEF Store, broker
  <1>4. Counted /\ Counted' /\ TablesTyped /\ TablesTyped'
    BY AllCounted, NextCounted DEF TypeOK
  <1>5. CASE cached' = cached /\ excuses' = [excuses EXCEPT ![j] = @ + 1]
    <2>1. SendingOf(w, j) \in Nat /\ SendingOf(w, j)' <= 1
      BY DEF SendingOf
    <2>2. sent'[j] + SendingOf(w, j)' + excuses[j] <= sent[j] + SendingOf(w, j) + excuses'[j]
      <3>1. excuses'[j] = excuses[j] + 1 /\ sent'[j] = sent[j]
        BY <1>3, <1>5 DEF TypeOK
      <3>2. SendingOf(w, j)' \in Nat
        BY DEF SendingOf
      <3>3. QED
        BY <1>4, <2>1, <3>1, <3>2 DEF Counted
    <2>3. \A i \in Jobs \ {j} : sent'[i] = sent[i] /\ excuses'[i] = excuses[i]
      BY <1>3, <1>5 DEF TypeOK
    <2>4. QED
      BY <1>1, <1>2, <1>3, <1>5, <2>2, <2>3, QuietLedger DEF Store
  <1>6. CASE cached' = cached \union {j} /\ at'[w] = "ack" /\ excuses' = excuses
    <2>1. /\ j \in submitted /\ MailsPaid(j) /\ RunsPaid(j) /\ Retries(w) \in Attempts
          /\ \A i \in Jobs \ {j} : ~ Holds(w, i)
      BY <1>1, BusyJob DEF Store
    <2>2. /\ \A i \in Jobs : Waits(i)' = Waits(i)
          /\ \A i \in Jobs \ {j} : ~ Holds(w, i)'
      BY <1>1, <1>2, <1>3 DEF Waits, Holds, Job
    <2>3. \A i \in Jobs \ {j} : Ledger(i)'
      BY <1>2, <1>3, <1>6, <2>1, <2>2, OthersLedger
    <2>4. Cardinality(Sending(j)') <= Cardinality(Sending(j))
      <3>1. Sending(j)' \subseteq Sending(j)
        BY <1>2, <1>6 DEF Alone, Sending, Holders, Holds, Job
      <3>2. IsFiniteSet(Sending(j))
        BY <1>4, CountsFinite
      <3>3. QED
        BY <3>1, <3>2, FS_Subset
    <2>5. Cardinality(Sendable(j)') = 0
      BY <1>6, FS_EmptySet DEF Sendable
    <2>6. MailsPaid(j)'
      <3>1. MailsSum(j)' + excuses[j] <= MailsSum(j) + excuses'[j]
        BY <1>3, <1>4, <1>6, <2>4, <2>5 DEF MailsSum, Counted
      <3>2. QED
        BY <2>1, <3>1, MailsBalance
    <2>7. RunsPaid(j)'
      <3>1. Cardinality(Later(j)') + LaterOf(w, j) = Cardinality(Later(j)) + LaterOf(w, j)'
        BY <1>2, <1>4, LaterStep
      <3>2. LaterOf(w, j) \in Nat /\ LaterOf(w, j)' = 0
        BY <1>6, <2>1, EmailTasksAssumption DEF LaterOf, Active, Attempts
      <3>3. Ahead(j)' = Ahead(j)
        BY <2>2 DEF Ahead, AheadOf
      <3>4. RunsSum(j)' <= RunsSum(j)
        BY <1>3, <1>4, <3>1, <3>2, <3>3 DEF RunsSum, Counted
      <3>5. requeues'[j] = requeues[j]
        BY <1>3
      <3>6. QED
        BY <2>1, <3>4, <3>5, RunsBalance
    <2>8. j \in submitted'
      BY <1>3, <2>1
    <2>9. QED
      BY <2>3, <2>6, <2>7, <2>8 DEF Ledger
  <1>7. QED
    BY <1>1, <1>5, <1>6 DEF Store, Goto, Excuse, TypeOK, TablesTyped

\* The next attempt takes over what its worker had before it.
LEMMA RetryLedger ==
    ASSUME TypeOK, TypeOK', \A i \in Jobs : Ledger(i), NEW w \in Workers, Retry(w)
    PROVE  \A i \in Jobs : Ledger(i)'
  <1>1. PICK j \in Jobs : j = Job(w)
    BY BusyJob DEF Retry
  <1>2. Alone(w) /\ held' = held /\ at'[w] = "ack" /\ at[w] = "failed"
    BY DEF Retry, Goto, Alone, TypeOK, TablesTyped
  <1>3. UNCHANGED <<submitted, cached, sent, runs, requeues, excuses>>
    BY DEF Retry
  <1>4. Retries(w) \in Attempts
    BY <1>2, BusyJob
  <1>5. SendingOf(w, j)' = 0 /\ SendingOf(w, j) = IF j \in cached THEN 0 ELSE 1
    BY <1>1, <1>2 DEF SendingOf, Sending, Holders, Holds
  <1>6. excuses[j] \in Nat /\ sent[j] \in Nat
    BY DEF TypeOK
  <1>7. CASE Retries(w) < MaxRetries
    <2>1. PICK r \in Attempts : r = Retries(w) + 1
      BY <1>4, <1>7, EmailTasksAssumption DEF Attempts
    <2>2. Publish(<<j, r>>)
      BY <1>1, <1>7, <2>1 DEF Retry
    <2>3. LaterOf(w, j)' + (MaxRetries + 1 - r) <= LaterOf(w, j)
      <3>1. LaterOf(w, j)' = 0 /\ LaterOf(w, j) = MaxRetries - Retries(w)
        BY <1>1, <1>2 DEF LaterOf, Active, Holds
      <3>2. QED
        BY <1>4, <2>1, <3>1, EmailTasksAssumption DEF Attempts
    <2>4. SendingOf(w, j)' + (IF j \in cached THEN 0 ELSE 1) + excuses[j]
              <= SendingOf(w, j) + excuses'[j]
      BY <1>3, <1>5, <1>6
    <2>5. requeues'[j] = requeues[j]
      BY <1>3
    <2>6. \A i \in Jobs \ {j} : requeues'[i] = requeues[i] /\ excuses'[i] = excuses[i]
      BY <1>3
    <2>7. QED
      BY <1>1, <1>2, <1>3, <2>2, <2>3, <2>4, <2>5, <2>6, PublishLedger
  <1>8. CASE ~ (Retries(w) < MaxRetries)
    <2>1. ready' = ready
      BY <1>8 DEF Retry
    <2>2. sent'[j] + SendingOf(w, j)' + excuses[j] <= sent[j] + SendingOf(w, j) + excuses'[j]
      BY <1>3, <1>5, <1>6
    <2>3. \A i \in Jobs \ {j} : sent'[i] = sent[i] /\ excuses'[i] = excuses[i]
      BY <1>3
    <2>4. QED
      BY <1>1, <1>2, <1>3, <2>1, <2>2, <2>3, QuietLedger
  <1>9. QED
    BY <1>7, <1>8

\* A message that is put back keeps its worker's entitlement, or is excused, and
\* has a series of its own.
LEMMA PutBackLedger ==
    ASSUME TypeOK, TypeOK', \A i \in Jobs : Ledger(i),
           NEW w \in Workers, at[w] # "idle", Alone(w), NEW j \in Jobs, j = Job(w),
           at'[w] = "idle" \/ (at'[w] = at[w] /\ held'[w] = held[w]),
           Publish(held[w]), requeues' = [requeues EXCEPT ![j] = @ + 1],
           UNCHANGED <<submitted, cached, sent, runs>>,
           \A i \in Jobs \ {j} : excuses'[i] = excuses[i],
           SendingOf(w, j)' + (IF j \in cached THEN 0 ELSE 1) + excuses[j]
               <= SendingOf(w, j) + excuses'[j]
    PROVE  \A i \in Jobs : Ledger(i)'
  <1>1. PICK r \in Attempts : r = Retries(w) /\ held[w] = <<j, r>>
    BY BusyJob
  <1>2. Publish(<<j, r>>)
    BY <1>1
  <1>3. /\ requeues'[j] = requeues[j] + 1
        /\ \A i \in Jobs \ {j} : requeues'[i] = requeues[i]
    BY DEF TypeOK
  <1>4. LaterOf(w, j)' <= LaterOf(w, j)
    <2>1. Active(w, j)' => Active(w, j) /\ Retries(w)' = Retries(w)
      BY DEF Active, Holds, Job, Retries
    <2>2. MaxRetries - Retries(w) \in Nat
      BY <1>1, EmailTasksAssumption DEF Attempts
    <2>3. QED
      BY <2>1, <2>2 DEF LaterOf
  <1>5. QED
    BY <1>2, <1>3, <1>4, PublishLedger

LEMMA RetryRefusedLedger ==
    ASSUME TypeOK, TypeOK', \A i \in Jobs : Ledger(i), NEW w \in Workers, RetryRefused(w)
    PROVE  \A i \in Jobs : Ledger(i)'
  <1>1. PICK j \in Jobs : j = Job(w)
    BY BusyJob DEF RetryRefused
  <1>2. Alone(w) /\ at'[w] = "idle" /\ at[w] = "failed"
    BY DEF RetryRefused, Release, Alone, TypeOK, TablesTyped
  <1>3. SendingOf(w, j)' = 0 /\ SendingOf(w, j) = IF j \in cached THEN 0 ELSE 1
    BY <1>1, <1>2 DEF SendingOf, Sending, Holders, Holds
  <1>4. /\ UNCHANGED <<submitted, cached, sent, runs, excuses>>
        /\ Publish(held[w]) /\ requeues' = [requeues EXCEPT ![j] = @ + 1]
    BY <1>1 DEF RetryRefused
  <1>5. excuses[j] \in Nat
    BY DEF TypeOK
  <1>6. SendingOf(w, j)' + (IF j \in cached THEN 0 ELSE 1) + excuses[j]
            <= SendingOf(w, j) + excuses'[j]
    BY <1>3, <1>4, <1>5
  <1>7. \A i \in Jobs \ {j} : excuses'[i] = excuses[i]
    BY <1>4
  <1>8. QED
    BY <1>1, <1>2, <1>4, <1>6, <1>7, PutBackLedger

LEMMA LoseLedger ==
    ASSUME TypeOK, TypeOK', \A i \in Jobs : Ledger(i), NEW w \in Workers, Lose(w)
    PROVE  \A i \in Jobs : Ledger(i)'
  <1>1. PICK j \in Jobs : j = Job(w)
    BY BusyJob DEF Lose
  <1>2. Alone(w) /\ at'[w] = "idle" /\ at[w] # "idle"
    BY DEF Lose, Release, Alone, TypeOK, TablesTyped
  <1>3. /\ SendingOf(w, j)' = 0 /\ SendingOf(w, j) \in Nat
        /\ (at[w] \notin {"store", "ack"} /\ j \notin cached) => SendingOf(w, j) = 1
    BY <1>1, <1>2 DEF SendingOf, Sending, Holders, Holds, TypeOK, TablesTyped, Steps
  <1>4. /\ UNCHANGED <<submitted, cached, sent, runs>>
        /\ Publish(held[w]) /\ requeues' = [requeues EXCEPT ![j] = @ + 1]
    BY <1>1 DEF Lose
  <1>5. /\ excuses[j] \in Nat
        /\ excuses'[j] = excuses[j]
                          + (IF at[w] \in {"store", "ack"} /\ j \notin cached THEN 1 ELSE 0)
        /\ \A i \in Jobs \ {j} : excuses'[i] = excuses[i]
    BY <1>1 DEF Lose, Excuse, TypeOK
  <1>6. SendingOf(w, j)' + (IF j \in cached THEN 0 ELSE 1) + excuses[j]
            <= SendingOf(w, j) + excuses'[j]
    BY <1>3, <1>5
  <1>7. QED
    BY <1>1, <1>2, <1>4, <1>5, <1>6, PutBackLedger

LEMMA RedeliverLedger ==
    ASSUME TypeOK, TypeOK', \A i \in Jobs : Ledger(i), NEW w \in Workers, Redeliver(w)
    PROVE  \A i \in Jobs : Ledger(i)'
  <1>1. PICK j \in Jobs : j = Job(w)
    BY BusyJob DEF Redeliver
  <1>2. at' = at /\ held' = held /\ Alone(w) /\ at[w] # "idle"
    BY DEF Redeliver, worker, Alone
  <1>3. /\ UNCHANGED <<submitted, cached, sent, runs>>
        /\ Publish(held[w]) /\ requeues' = [requeues EXCEPT ![j] = @ + 1]
    BY <1>1 DEF Redeliver
  <1>4. SendingOf(w, j)' = SendingOf(w, j) /\ SendingOf(w, j) \in Nat
    BY <1>2, <1>3 DEF SendingOf, Sending, Holders, Holds, Job
  <1>5. /\ excuses[j] \in Nat
        /\ excuses'[j] = excuses[j] + (IF j \in cached THEN 0 ELSE 1)
        /\ \A i \in Jobs \ {j} : excuses'[i] = excuses[i]
    BY <1>1 DEF Redeliver, Excuse, TypeOK
  <1>6. SendingOf(w, j)' + (IF j \in cached THEN 0 ELSE 1) + excuses[j]
            <= SendingOf(w, j) + excuses'[j]
    BY <1>4, <1>5
  <1>7. QED
    BY <1>1, <1>2, <1>3, <1>5, <1>6, PutBackLedger

\* A delivery turns a waiting copy into an execution and the retries behind it.
LEMMA DeliverLedger ==
    ASSUME TypeOK, TypeOK', \A i \in Jobs : Ledger(i),
           NEW w \in Workers, NEW m \in Messages, Deliver(w, m)
    PROVE  \A i \in Jobs : Ledger(i)'
  <1>1. PICK j \in Jobs, r \in Attempts : m = <<j, r>>
    BY DEF Messages
  <1>2. /\ Alone(w) /\ at[w] = "idle" /\ held'[w] = <<j, r>>
        /\ at'[w] = IF j \in Idempotent THEN "lookup" ELSE "send"
    BY <1>1 DEF Deliver, Alone, TypeOK, TablesTyped
  <1>3. /\ UNCHANGED <<submitted, cached, sent, requeues, excuses>>
        /\ runs'[j] = runs[j] + 1
        /\ \A i \in Jobs \ {j} : runs'[i] = runs[i]
    BY <1>1 DEF Deliver, TypeOK
  <1>4. Counted /\ Counted' /\ TablesTyped /\ TablesTyped'
    BY AllCounted, NextCounted DEF TypeOK
  <1>5. ready[<<j, r>>] > 0 /\ ready' = [ready EXCEPT ![<<j, r>>] = @ - 1]
    BY <1>1 DEF Deliver
  <1>6. /\ Cardinality(Waits(j)) = Cardinality(Waits(j)') + 1
        /\ Cardinality(Ahead(j)) = Cardinality(Ahead(j)') + (MaxRetries + 1 - r)
        /\ \A i \in Jobs \ {j} : Waits(i)' = Waits(i)
    BY <1>4, <1>5, TakeCounts
  <1>7. j \in submitted /\ MailsPaid(j) /\ RunsPaid(j)
    BY <1>4, <1>5, WaitingSubmitted DEF Ledger
  <1>8. \A i \in Jobs \ {j} : Ledger(i)'
    <2>1. \A i \in Jobs \ {j} : ~ Holds(w, i) /\ ~ Holds(w, i)'
      BY <1>2 DEF Holds, Job
    <2>2. QED
      BY <1>2, <1>3, <1>6, <2>1, OthersLedger
  <1>9. MailsPaid(j)'
    <2>1. Cardinality(Sending(j)') + SendingOf(w, j) = Cardinality(Sending(j)) + SendingOf(w, j)'
      BY <1>2, <1>3, <1>4, SendingStep
    <2>2. SendingOf(w, j) = 0 /\ SendingOf(w, j)' = IF j \in cached THEN 0 ELSE 1
      BY <1>2, <1>3, <1>4
         DEF SendingOf, Sending, Holders, Holds, Job, TablesTyped
    <2>3. /\ j \in cached => Cardinality(Sendable(j)) = 0 /\ Cardinality(Sendable(j)') = 0
          /\ j \notin cached => Cardinality(Sendable(j)) = Cardinality(Sendable(j)') + 1
      BY <1>3, <1>6, FS_EmptySet DEF Sendable
    <2>4. MailsSum(j)' + excuses[j] <= MailsSum(j) + excuses'[j]
      BY <1>3, <1>4, <2>1, <2>2, <2>3 DEF MailsSum, Counted
    <2>5. QED
      BY <1>7, <2>4, MailsBalance
  <1>10. RunsPaid(j)'
    <2>1. Cardinality(Later(j)') + LaterOf(w, j) = Cardinality(Later(j)) + LaterOf(w, j)'
      BY <1>2, <1>4, LaterStep
    <2>2. LaterOf(w, j) = 0 /\ LaterOf(w, j)' = MaxRetries - r
      BY <1>2 DEF LaterOf, Active, Holds, Job, Retries
    <2>3. MaxRetries \in Nat /\ r \in Nat
      BY EmailTasksAssumption DEF Attempts
    <2>4. RunsSum(j)' <= RunsSum(j)
      BY <1>3, <1>4, <1>6, <2>1, <2>2, <2>3 DEF RunsSum, Counted
    <2>5. requeues'[j] = requeues[j]
      BY <1>3
    <2>6. QED
      BY <1>7, <2>4, <2>5, RunsBalance
  <1>11. QED
    BY <1>3, <1>7, <1>8, <1>9, <1>10 DEF Ledger

\* A job begins with one series of executions, and one mail.
LEMMA SubmitLedger ==
    ASSUME TypeOK, TypeOK', \A i \in Jobs : Ledger(i), NEW j \in Jobs, Submit(j)
    PROVE  \A i \in Jobs : Ledger(i)'
  <1>1. 0 \in Attempts /\ Publish(<<j, 0>>)
    BY EmailTasksAssumption DEF Submit, Attempts
  <1>2. UNCHANGED <<at, held, cached, sent, runs, requeues, excuses>>
    BY DEF Submit, worker, history
  <1>3. Counted /\ Counted' /\ TablesTyped /\ TablesTyped'
    BY AllCounted, NextCounted DEF TypeOK
  <1>4. sent[j] = 0 /\ runs[j] = 0 /\ Waits(j) = {} /\ Holders(j) = {}
    BY DEF Ledger, Submit
  <1>5. /\ Cardinality(Waits(j)') = Cardinality(Waits(j)) + 1
        /\ Cardinality(Ahead(j)') = Cardinality(Ahead(j)) + (MaxRetries + 1 - 0)
        /\ \A i \in Jobs \ {j} : Waits(i)' = Waits(i)
    BY <1>1, <1>3, PublishCounts
  <1>6. Holders(j)' = {} /\ Sending(j)' = {} /\ Later(j)' = {} /\ Ahead(j) = {}
    BY <1>2, <1>4 DEF Holders, Holds, Job, Sending, Later, Ahead, AheadOf
  <1>7. Cardinality({}) = 0
    BY FS_EmptySet
  <1>8. MailsPaid(j)'
    <2>1. Cardinality(Sendable(j)') <= 1
      BY <1>4, <1>5, <1>7 DEF Sendable
    <2>2. QED
      BY <1>2, <1>3, <1>4, <1>6, <1>7, <2>1 DEF MailsPaid, Counted
  <1>9. RunsPaid(j)'
    <2>1. Cardinality(Ahead(j)') = MaxRetries + 1
      BY <1>5, <1>6, <1>7, EmailTasksAssumption
    <2>2. \A q \in Nat : MaxRetries + 1 <= (MaxRetries + 1) * (1 + q)
      BY EmailTasksAssumption
    <2>3. requeues'[j] \in Nat
      BY <1>3 DEF Counted
    <2>4. runs'[j] + Cardinality(Ahead(j)') + Cardinality(Later(j)') = MaxRetries + 1
      BY <1>2, <1>4, <1>6, <1>7, <2>1, EmailTasksAssumption
    <2>5. QED
      BY <2>2, <2>3, <2>4 DEF RunsPaid
  <1>10. ASSUME NEW i \in Jobs \ {j} PROVE Ledger(i)'
    <2>1. Holders(i)' = Holders(i) /\ (i \in submitted <=> i \in submitted')
      BY <1>2 DEF Holders, Holds, Job, Submit
    <2>2. QED
      BY <1>2, <1>5, <2>1, OtherLedger
  <1>11. QED
    BY <1>8, <1>9, <1>10 DEF Ledger, Submit

LEMMA RemoveLedger ==
    ASSUME TypeOK, TypeOK', \A i \in Jobs : Ledger(i), NEW j \in Jobs, Remove(j)
    PROVE  \A i \in Jobs : Ledger(i)'
  <1>1. UNCHANGED <<submitted, ready, at, held, cached, sent, runs, requeues, excuses>>
    BY DEF Remove, broker, worker, history
  <1>2. ASSUME NEW i \in Jobs PROVE Ledger(i)'
    <2>1. Waits(i)' = Waits(i) /\ Holders(i)' = Holders(i)
      BY <1>1 DEF Waits, Holders, Holds, Job
    <2>2. QED
      BY <1>1, <2>1, OtherLedger
  <1>3. QED
    BY <1>2

\* A result that is lost may cost a mail for each copy that is about.
LEMMA ExpireLedger ==
    ASSUME TypeOK, TypeOK', \A i \in Jobs : Ledger(i), NEW j \in Jobs, Expire(j)
    PROVE  \A i \in Jobs : Ledger(i)'
  <1>1. /\ UNCHANGED <<submitted, ready, at, held, sent, runs, requeues>>
        /\ cached' = cached \ {j}
    BY DEF Expire, broker, worker
  <1>2. Counted /\ Counted' /\ TablesTyped /\ TablesTyped'
    BY AllCounted, NextCounted DEF TypeOK
  <1>3. \A i \in Jobs : Waits(i)' = Waits(i) /\ Holders(i)' = Holders(i)
    BY <1>1 DEF Waits, Holders, Holds, Job
  <1>4. /\ excuses'[j] = excuses[j] + Copies(j)
        /\ \A i \in Jobs \ {j} : excuses'[i] = excuses[i]
    BY DEF Expire, Excuse, TypeOK
  <1>5. /\ Cardinality(Waits(j)) \in Nat /\ Cardinality(Holders(j)) \in Nat
        /\ IsFiniteSet(Holders(j))
    BY <1>2, CountsFinite
  <1>6. ASSUME NEW i \in Jobs \ {j} PROVE Ledger(i)'
    <2>1. (i \in submitted <=> i \in submitted') /\ (i \in cached <=> i \in cached')
      BY <1>1
    <2>2. QED
      BY <1>1, <1>3, <1>4, <2>1, OtherLedger
  <1>7. Ledger(j)'
    <2>1. CASE j \notin submitted
      BY <1>1, <1>3, <2>1 DEF Ledger
    <2>2. CASE j \in submitted
      <3>1. MailsPaid(j) /\ RunsPaid(j)
        BY <2>2 DEF Ledger
      <3>2. Cardinality(Sending(j)') <= Cardinality(Holders(j))
        <4>1. Sending(j)' \subseteq Holders(j)
          BY <1>3 DEF Sending
        <4>2. QED
          BY <1>5, <4>1, FS_Subset
      <3>3. Sendable(j)' = Waits(j)
        BY <1>1, <1>3 DEF Sendable
      <3>4. MailsSum(j)' + excuses[j] <= MailsSum(j) + excuses'[j]
        BY <1>1, <1>2, <1>4, <1>5, <3>2, <3>3 DEF MailsSum, Counted, Copies
      <3>5. MailsPaid(j)'
        BY <3>1, <3>4, MailsBalance
      <3>6. Ahead(j)' = Ahead(j) /\ Later(j)' = Later(j)
        BY <1>1, <1>3 DEF Ahead, AheadOf, Later, Retries
      <3>7. RunsPaid(j)'
        BY <1>1, <3>1, <3>6 DEF RunsPaid
      <3>8. QED
        BY <1>1, <2>2, <3>5, <3>7 DEF Ledger
    <2>3. QED
      BY <2>1, <2>2
  <1>8. QED
    BY <1>6, <1>7

-----------------------------------------------------------------------------
CountersTyped ==
    /\ skipped \subseteq Idempotent
    /\ runs \in [Jobs -> Nat]
    /\ requeues \in [Jobs -> Nat]
    /\ excuses \in [Jobs -> Nat]
    /\ faults \in 0 .. MaxFaults

LEMMA TypeOKParts == TypeOK <=> TablesTyped /\ OutcomesTyped /\ CountersTyped
  BY EmailTasksAssumption DEF TypeOK, OutcomesTyped, CountersTyped

LEMMA NextTypeOKParts == TypeOK' <=> TablesTyped' /\ OutcomesTyped' /\ CountersTyped'
  BY TypeOKParts, PTL

LEMMA FaultTyped == ASSUME CountersTyped, Fault PROVE faults' \in 0 .. MaxFaults
  BY EmailTasksAssumption DEF CountersTyped, Fault

LEMMA CounterAdds ==
    ASSUME NEW f \in [Jobs -> Nat], NEW j \in Jobs, NEW n \in Nat
    PROVE  [f EXCEPT ![j] = @ + n] \in [Jobs -> Nat]
  OBVIOUS

LEMMA CopiesTyped == ASSUME TablesTyped, NEW j \in Jobs PROVE Copies(j) \in Nat
  <1>1. Cardinality(Waits(j)) \in Nat /\ Cardinality(Holders(j)) \in Nat
    BY CountsFinite
  <1>2. QED
    BY <1>1 DEF Copies

LEMMA NextCounters == TypeOK /\ [Next]_vars => CountersTyped'
  <1>1. SUFFICES ASSUME TypeOK, [Next]_vars PROVE CountersTyped'
    OBVIOUS
  <1>2. TablesTyped /\ CountersTyped
    BY <1>1, TypeOKParts
  <1>3. CASE \E j \in Jobs : Submit(j) \/ Remove(j)
    BY <1>2, <1>3 DEF Submit, Remove, CountersTyped, history
  <1>4. ASSUME NEW j \in Jobs, Expire(j) PROVE CountersTyped'
    <2>1. Copies(j) \in Nat
      BY <1>2, CopiesTyped
    <2>2. QED
      BY <1>2, <1>4, <2>1, FaultTyped, CounterAdds DEF Expire, Excuse, CountersTyped
  <1>5. ASSUME NEW w \in Workers, Work(w) PROVE CountersTyped'
    <2>0. at[w] # "idle" => Job(w) \in Jobs
      BY <1>2, HeldMessage
    <2>1. CASE \E m \in Messages : Deliver(w, m)
      <3>1. PICK m \in Messages : Deliver(w, m)
        BY <2>1
      <3>2. m[1] \in Jobs
        BY DEF Messages
      <3>3. runs' \in [Jobs -> Nat]
        BY <1>2, <3>1, <3>2, CounterAdds DEF Deliver, CountersTyped
      <3>4. QED
        BY <1>2, <3>1, <3>3 DEF Deliver, CountersTyped
    <2>2. CASE Lookup(w) \/ Retry(w) \/ Ack(w)
      BY <1>2, <2>2 DEF Lookup, Retry, Ack, CountersTyped, history
    <2>3. CASE Read(w)
      BY <1>2, <2>3, EmailTasksAssumption DEF Read, CountersTyped, TablesTyped
    <2>4. CASE Send(w) \/ Store(w)
      <3>1. excuses' \in [Jobs -> Nat]
        BY <1>2, <2>0, <2>4, CounterAdds DEF Send, Store, Excuse, CountersTyped
      <3>2. faults' \in 0 .. MaxFaults
        BY <1>2, <2>4, FaultTyped DEF Send, Store, CountersTyped
      <3>3. QED
        BY <1>2, <2>4, <3>1, <3>2 DEF Send, Store, CountersTyped
    <2>5. CASE RetryRefused(w)
      BY <1>2, <2>0, <2>5, FaultTyped, CounterAdds DEF RetryRefused, CountersTyped
    <2>6. QED
      BY <1>5, <2>1, <2>2, <2>3, <2>4, <2>5 DEF Work
  <1>6. ASSUME NEW w \in Workers, Lose(w) \/ Redeliver(w) PROVE CountersTyped'
    <2>1. Job(w) \in Jobs
      BY <1>2, <1>6, HeldMessage DEF Lose, Redeliver
    <2>2. requeues' \in [Jobs -> Nat] /\ excuses' \in [Jobs -> Nat]
      <3>1. PICK n \in {0, 1} : Excuse(Job(w), n)
        BY <1>6 DEF Lose, Redeliver
      <3>2. excuses' \in [Jobs -> Nat]
        BY <1>2, <2>1, <3>1, CounterAdds DEF Excuse, CountersTyped
      <3>3. requeues' = [requeues EXCEPT ![Job(w)] = @ + 1]
        BY <1>6 DEF Lose, Redeliver
      <3>4. requeues' \in [Jobs -> Nat]
        BY <1>2, <2>1, <3>3, CounterAdds DEF CountersTyped
      <3>5. QED
        BY <3>2, <3>4
    <2>3. QED
      BY <1>2, <1>6, <2>2, FaultTyped DEF Lose, Redeliver, CountersTyped
  <1>7. CASE UNCHANGED vars
    BY <1>2, <1>7 DEF vars, history, CountersTyped
  <1>8. QED
    BY <1>1, <1>3, <1>4, <1>5, <1>6, <1>7 DEF Next

LEMMA InitLedgers == Init => Ledgers
  <1>1. SUFFICES ASSUME Init PROVE Ledgers
    OBVIOUS
  <1>2. TablesTyped /\ OutcomesTyped
    BY <1>1, InitIInv DEF IInv
  <1>3. CountersTyped
    BY <1>1, EmailTasksAssumption DEF Init, CountersTyped
  <1>4. ASSUME NEW j \in Jobs PROVE Ledger(j)
    <2>1. \A r \in Attempts : Row(ready, j, r) = {}
      BY <1>1 DEF Init, Row, Messages
    <2>2. Waits(j) = {}
      BY <2>1 DEF Waits, Row
    <2>3. Holders(j) = {}
      BY <1>1 DEF Init, Holders, Holds
    <2>4. QED
      BY <1>1, <2>2, <2>3 DEF Init, Ledger
  <1>5. QED
    BY <1>2, <1>3, <1>4, TypeOKParts DEF Ledgers

LEMMA NextLedgers == IInv /\ IInv' /\ Ledgers /\ [Next]_vars => Ledgers'
  <1>1. SUFFICES ASSUME IInv, IInv', Ledgers, [Next]_vars PROVE Ledgers'
    OBVIOUS
  <1>2. TypeOK /\ \A i \in Jobs : Ledger(i)
    BY <1>1 DEF Ledgers
  <1>3. TypeOK'
    BY <1>1, <1>2, NextCounters, NextTypeOKParts DEF IInv
  <1>4. \A i \in Jobs : Ledger(i)'
    <2>1. CASE \E j \in Jobs : Submit(j) \/ Remove(j) \/ Expire(j)
      BY <1>2, <1>3, <2>1, SubmitLedger, RemoveLedger, ExpireLedger
    <2>2. ASSUME NEW w \in Workers, Work(w) \/ Lose(w) \/ Redeliver(w)
          PROVE  \A i \in Jobs : Ledger(i)'
      <3>1. CASE \E m \in Messages : Deliver(w, m)
        BY <1>2, <1>3, <3>1, DeliverLedger
      <3>2. CASE Lookup(w) \/ Read(w) \/ Send(w)
        BY <1>2, <1>3, <3>2, LookupLedger, ReadLedger, SendLedger
      <3>3. CASE Store(w) \/ Retry(w) \/ Ack(w)
        BY <1>2, <1>3, <3>3, StoreLedger, RetryLedger, AckLedger
      <3>4. CASE RetryRefused(w) \/ Lose(w) \/ Redeliver(w)
        BY <1>2, <1>3, <3>4, RetryRefusedLedger, LoseLedger, RedeliverLedger
      <3>5. QED
        BY <2>2, <3>1, <3>2, <3>3, <3>4 DEF Work
    <2>3. CASE UNCHANGED vars
      <3>1. ASSUME NEW i \in Jobs PROVE Ledger(i)'
        <4>1. Waits(i)' = Waits(i) /\ Holders(i)' = Holders(i)
          BY <2>3 DEF Waits, Holders, Holds, Job, vars, broker, worker
        <4>2. QED
          BY <1>2, <2>3, <4>1, OtherLedger DEF vars, broker, worker, history
      <3>2. QED
        BY <3>1
    <2>4. QED
      BY <1>1, <2>1, <2>2, <2>3 DEF Next
  <1>5. QED
    BY <1>3, <1>4 DEF Ledgers

\* In every reachable state the tables and counters have their types and every
\* job's account is covered.
THEOREM Accounts == Spec => []Ledgers
  BY Invariance, InitLedgers, NextLedgers, PTL DEF Spec

\* The broker's, the workers' and the cache's tables and all the counters of the
\* mail tasks keep their types.
THEOREM TypeCorrect == Spec => []TypeOK
  <1>1. Ledgers => TypeOK
    BY DEF Ledgers
  <1>2. QED
    BY <1>1, Accounts, PTL

\* IdempotencyService.run and the retry policy: a mail beyond the first is always
\* owed to a fault that hit between the mail and the record of it, to a
\* redelivery that met no stored result, or to a lost result.
THEOREM Duplicates == Spec => []DuplicatesPaidFor
  <1>1. Ledgers => DuplicatesPaidFor
    <2>1. ASSUME Ledgers, NEW j \in Jobs PROVE sent[j] <= 1 + excuses[j]
      <3>1. TypeOK /\ Ledger(j) /\ Counted
        BY <2>1, AllCounted DEF Ledgers
      <3>2. QED
        BY <3>1 DEF Ledger, MailsPaid, Counted
    <2>2. QED
      BY <2>1 DEF DuplicatesPaidFor
  <1>2. QED
    BY <1>1, Accounts, PTL

\* "Max 3 retries after the first attempt (4 executions total)": a mail task runs
\* at most MaxRetries + 1 times, and as often again for each time that one of its
\* messages was put back or delivered twice.
THEOREM Executions == Spec => []RunsBounded
  <1>1. Ledgers => RunsBounded
    <2>1. ASSUME Ledgers, NEW j \in Jobs
          PROVE  runs[j] <= (MaxRetries + 1) * (1 + requeues[j])
      <3>1. TypeOK /\ Ledger(j) /\ Counted
        BY <2>1, AllCounted DEF Ledgers
      <3> DEFINE Budget == (MaxRetries + 1) * (1 + requeues[j])
      <3>2. Budget \in Nat
        BY <3>1, EmailTasksAssumption DEF Counted
      <3>3. runs[j] <= Budget
        <4> HIDE DEF Budget
        <4>1. CASE j \in submitted
          <5>1. runs[j] + Cardinality(Ahead(j)) + Cardinality(Later(j)) <= Budget
            BY <3>1, <4>1 DEF Ledger, RunsPaid, Budget
          <5>2. QED
            BY <3>1, <3>2, <5>1 DEF Counted
        <4>2. CASE j \notin submitted
          BY <3>1, <3>2, <4>2 DEF Ledger
        <4>3. QED
          BY <4>1, <4>2
      <3>4. QED
        BY <3>3
    <2>2. QED
      BY <2>1 DEF RunsBounded
  <1>2. QED
    BY <1>1, Accounts, PTL

=============================================================================
