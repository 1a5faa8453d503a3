-------------------------- MODULE AuditTrailProofs --------------------------
(***************************************************************************)
(* Proofs about AuditTrail: types, and what the lock of a row and the      *)
(* transaction around post_save are worth, where a queued message is, and  *)
(* how many entries it may make, for any number of rows, writers and       *)
(* workers.                                                                *)
(***************************************************************************)
EXTENDS AuditTrail, FiniteSetTheorems, SequenceTheorems, TLAPS

\* The operations a position belongs to; a request that has started has a row.
Position(w) ==
    /\ pc[w] # "new" => item[w] \in Items
    /\ pc[w] = "lock" => op[w] = "toggle"
    /\ pc[w] = "read" => op[w] \in {"edit", "remove"}
    /\ pc[w] = "save" => op[w] \in {"toggle", "edit", "remove"}
    /\ pc[w] = "insert" => op[w] \in {"create", "provision"}
    /\ pc[w] = "publish" => op[w] = "create"
    /\ pc[w] = "commit" => op[w] \in {"toggle", "edit", "remove", "provision"}

\* What a writer on its way to the save knows: a toggle holds its row and has
\* read what is there, a remove has found something.
Saving(w) ==
    pc[w] = "save" =>
        /\ op[w] = "toggle" => lock[item[w]] = w /\ before[w] = value[item[w]]
        /\ op[w] = "remove" => before[w] # None

\* A writer about to commit holds its row, and what it is going to change is
\* queued.
Committing(w) ==
    pc[w] = "commit" =>
        /\ lock[item[w]] = w
        /\ op[w] = "toggle" => before[w] = value[item[w]]
        /\ op[w] \in {"toggle", "edit"} /\ (item[w] \in Flags \/ before[w] # after[w])
             => w \in queued
        /\ op[w] \in {"remove", "provision"} => w \in queued

\* The two properties, for one writer.
Committed(w) ==
    pc[w] = "committed" =>
        /\ /\ \/ op[w] \in {"toggle", "remove", "provision"}
              \/ op[w] = "edit" /\ (item[w] \in Flags \/ before[w] = overwritten[w])
           /\ overwritten[w] # after[w]
           => w \in queued
        /\ op[w] = "toggle" => before[w] = overwritten[w]

Knowledge(w) == Position(w) /\ Saving(w) /\ Committing(w) /\ Committed(w)

\* A message that waits has been taken by the broker.
Published == \A w \in Writers : ready[w] > 0 => w \in queued

Typed == TypeOK /\ Published

IInv == Typed /\ \A w \in Writers : Knowledge(w)

LEMMA InitIInv == Init => IInv
<1> SUFFICES ASSUME Init PROVE IInv
  OBVIOUS
<1>1. Typed
  BY AuditTrailAssumption DEF Init, Typed, TypeOK, Published
<1>2. \A w \in Writers : Knowledge(w)
  BY DEF Init, Knowledge, Position, Saving, Committing, Committed
<1> QED
  BY <1>1, <1>2 DEF IInv

\* A step leaves alone what x has read, holds and was promised, when it changes
\* no local of x, takes no message back and, if x holds a row, leaves that row
\* and its lock as they are.
Undisturbed(x) ==
    /\ pc'[x] = pc[x]
    /\ op'[x] = op[x]
    /\ item'[x] = item[x]
    /\ before'[x] = before[x]
    /\ after'[x] = after[x]
    /\ overwritten'[x] = overwritten[x]
    /\ queued \subseteq queued'
    /\ item[x] \in Items /\ lock[item[x]] = x =>
         lock'[item[x]] = x /\ value'[item[x]] = value[item[x]]

\* An undisturbed writer still knows what it knew.
LEMMA StillKnown ==
    ASSUME NEW x \in Writers, Knowledge(x), Undisturbed(x)
    PROVE  Knowledge(x)'
  BY DEF Undisturbed, Knowledge, Position, Saving, Committing, Committed

\* What the steps of a worker leave alone is all a writer knows.
LEMMA WritersUnchanged ==
    ASSUME NEW x \in Writers, Knowledge(x),
           UNCHANGED <<value, lock, pc, op, item, before, after, queued, overwritten>>
    PROVE  Knowledge(x)'
  BY DEF Knowledge, Position, Saving, Committing, Committed

\* Publishing counts the message and loses none.
LEMMA PublishTyped ==
    ASSUME Typed, NEW w \in Writers, Publish(w)
    PROVE  /\ ready' \in [Writers -> Nat]
           /\ queued' \subseteq Writers
           /\ queued \subseteq queued'
           /\ w \in queued'
           /\ Published'
  BY DEF Publish, Typed, TypeOK, Published

\* The message of a busy worker is that of a writer.
LEMMA BusyMessage ==
    ASSUME Typed, NEW k \in Workers, at[k] # "idle"
    PROVE  msg[k] \in queued /\ msg[k] \in Writers
  BY AuditTrailAssumption DEF Typed, TypeOK

-----------------------------------------------------------------------------
(* The writers *)

LEMMA StartStep ==
    ASSUME IInv, NEW w \in Writers, NEW o \in Ops, NEW i \in Items,
           NEW u \in Users \union {None}, Start(w, o, i, u)
    PROVE  IInv'
<1>1. Typed'
  BY DEF IInv, Typed, TypeOK, Published, Start, Goto, database, workers, history
<1>2. Knowledge(w)'
  BY DEF IInv, Typed, TypeOK, Start, Goto, Knowledge, Position, Saving, Committing, Committed
<1>3. ASSUME NEW x \in Writers, x # w PROVE Knowledge(x)'
  <2>1. Undisturbed(x)
    BY <1>3 DEF IInv, Typed, TypeOK, Start, Goto, database, history, Undisturbed
  <2> QED
    BY <2>1, StillKnown DEF IInv
<1> QED
  BY <1>1, <1>2, <1>3 DEF IInv

LEMMA LockStep ==
    ASSUME IInv, NEW w \in Writers, Lock(w)
    PROVE  IInv'
<1>0. item[w] \in Items /\ op[w] = "toggle"
  BY DEF IInv, Knowledge, Position, Lock
<1>1. Typed'
  BY <1>0 DEF IInv, Typed, TypeOK, Published, Lock, Goto, workers, history
<1>2. Knowledge(w)'
  BY <1>0 DEF IInv, Typed, TypeOK, Lock, Goto, Knowledge, Position, Saving, Committing, Committed
<1>3. ASSUME NEW x \in Writers, x # w PROVE Knowledge(x)'
  <2>1. Undisturbed(x)
    BY <1>0, <1>3, AuditTrailAssumption DEF IInv, Typed, TypeOK, Lock, Goto, history, Undisturbed
  <2> QED
    BY <2>1, StillKnown DEF IInv
<1> QED
  BY <1>1, <1>2, <1>3 DEF IInv

LEMMA ReadOldStep ==
    ASSUME IInv, NEW w \in Writers, ReadOld(w)
    PROVE  IInv'
<1>0. item[w] \in Items /\ op[w] \in {"edit", "remove"}
  BY DEF IInv, Knowledge, Position, ReadOld
<1>1. Typed'
  BY <1>0 DEF IInv, Typed, TypeOK, Published, ReadOld, Goto, database, workers, history
<1>2. Knowledge(w)'
  BY <1>0 DEF IInv, Typed, TypeOK, ReadOld, Goto, database, Knowledge, Position, Saving, Committing, Committed
<1>3. ASSUME NEW x \in Writers, x # w PROVE Knowledge(x)'
  <2>1. Undisturbed(x)
    BY <1>3 DEF IInv, Typed, TypeOK, ReadOld, Goto, database, history, Undisturbed
  <2> QED
    BY <2>1, StillKnown DEF IInv
<1> QED
  BY <1>1, <1>2, <1>3 DEF IInv

\* Where the row is locked by the writer, a toggle commits exactly what it
\* reported; a remove differs from what it found, and is queued.
LEMMA SaveStep ==
    ASSUME IInv, NEW w \in Writers, NEW v \in Values \union {None}, Save(w, v)
    PROVE  IInv'
<1>0. item[w] \in Items /\ op[w] \in {"toggle", "edit", "remove"}
  BY DEF IInv, Knowledge, Position, Save
<1>q. /\ ready' \in [Writers -> Nat]
      /\ queued' \subseteq Writers
      /\ queued \subseteq queued'
      /\ Published'
      /\ (pc'[w] = "commit" /\ Differs(w, v)) => w \in queued'
  <2>1. CASE Publish(w)
    BY <2>1, PublishTyped DEF IInv
  <2>2. CASE UNCHANGED <<ready, queued>> /\ ~ (pc'[w] = "commit" /\ Differs(w, v))
    BY <2>2 DEF IInv, Typed, TypeOK, Published
  <2> QED
    BY <2>1, <2>2 DEF Save, Goto, IInv, Typed, TypeOK
<1>1. Typed'
  <2>1. lock' \in [Items -> Writers \union {None}]
    BY <1>0 DEF IInv, Typed, TypeOK, Save
  <2> QED
    BY <1>0, <1>q, <2>1 DEF IInv, Typed, TypeOK, Save, Goto, workers
<1>2. Knowledge(w)'
  <2>1. CASE pc'[w] = "commit"
    <3>1. lock'[item[w]] = w
      BY <1>0, <2>1 DEF IInv, Typed, TypeOK, Save, Goto
    <3>2. op[w] = "remove" => Differs(w, v)
      BY DEF IInv, Knowledge, Saving, Save, Fits, Differs
    <3> QED
      BY <1>0, <1>q, <2>1, <3>1, <3>2
      DEF IInv, Typed, TypeOK, Save, Differs, Knowledge, Position, Saving, Committing, Committed
  <2>2. CASE pc'[w] = "aborted"
    BY <1>0, <2>2 DEF IInv, Typed, TypeOK, Save, Knowledge, Position, Saving, Committing, Committed
  <2> QED
    BY <2>1, <2>2 DEF IInv, Typed, TypeOK, Save, Goto
<1>3. ASSUME NEW x \in Writers, x # w PROVE Knowledge(x)'
  <2>1. lock'[item[x]] = x \/ ~ (item[x] \in Items /\ lock[item[x]] = x)
    BY <1>0, <1>3, AuditTrailAssumption DEF IInv, Typed, TypeOK, Save
  <2>2. Undisturbed(x)
    BY <1>q, <1>3, <2>1 DEF IInv, Typed, TypeOK, Save, Goto, Undisturbed
  <2> QED
    BY <2>2, StillKnown DEF IInv
<1> QED
  BY <1>1, <1>2, <1>3 DEF IInv

\* An insert meets nobody's lock.
LEMMA InsertStep ==
    ASSUME IInv, NEW w \in Writers, NEW v \in Values, Insert(w, v)
    PROVE  IInv'
<1>0. item[w] \in Items /\ op[w] = "create"
  BY DEF IInv, Knowledge, Position, Insert
<1>1. Typed'
  <2>1. /\ value' \in [Items -> Values \union {None}]
        /\ after' \in [Writers -> Values \union {None}]
        /\ overwritten' \in [Writers -> Values \union {None}]
    <3>1. CASE value[item[w]] = None
      BY <1>0, <3>1 DEF IInv, Typed, TypeOK, Insert
    <3>2. CASE value[item[w]] # None
      BY <3>2 DEF IInv, Typed, TypeOK, Insert
    <3> QED
      BY <3>1, <3>2
  <2> QED
    BY <2>1 DEF IInv, Typed, TypeOK, Published, Insert, Goto, workers
<1>2. Knowledge(w)'
  <2>1. pc'[w] \in {"publish", "aborted"} /\ op'[w] = "create" /\ item'[w] \in Items
    BY <1>0 DEF IInv, Typed, TypeOK, Insert, Goto
  <2> QED
    BY <2>1 DEF Knowledge, Position, Saving, Committing, Committed
<1>3. ASSUME NEW x \in Writers, x # w PROVE Knowledge(x)'
  <2>1. Undisturbed(x)
    BY <1>0, <1>3, AuditTrailAssumption DEF IInv, Typed, TypeOK, Insert, Goto, Undisturbed
  <2> QED
    BY <2>1, StillKnown DEF IInv
<1> QED
  BY <1>1, <1>2, <1>3 DEF IInv

LEMMA PublishInsertStep ==
    ASSUME IInv, NEW w \in Writers, PublishInsert(w)
    PROVE  IInv'
<1>0. item[w] \in Items /\ op[w] = "create"
  BY DEF IInv, Knowledge, Position, PublishInsert
<1>q. /\ ready' \in [Writers -> Nat]
      /\ queued' \subseteq Writers
      /\ queued \subseteq queued'
      /\ Published'
  <2>1. CASE Publish(w)
    BY <2>1, PublishTyped DEF IInv
  <2>2. CASE UNCHANGED <<ready, queued>>
    BY <2>2 DEF IInv, Typed, TypeOK, Published
  <2> QED
    BY <2>1, <2>2 DEF PublishInsert
<1>1. Typed'
  BY <1>q DEF IInv, Typed, TypeOK, Published, PublishInsert, Goto, database, locals, workers
<1>2. Knowledge(w)'
  BY <1>0 DEF IInv, Typed, TypeOK, PublishInsert, Goto, locals, Knowledge, Position, Saving,
      Committing, Committed
<1>3. ASSUME NEW x \in Writers, x # w PROVE Knowledge(x)'
  <2>1. Undisturbed(x)
    BY <1>q, <1>3 DEF IInv, Typed, TypeOK, PublishInsert, Goto, database, locals, Undisturbed
  <2> QED
    BY <2>1, StillKnown DEF IInv
<1> QED
  BY <1>1, <1>2, <1>3 DEF IInv

LEMMA InsertDefaultsStep ==
    ASSUME IInv, NEW w \in Writers, NEW v \in Values, InsertDefaults(w, v)
    PROVE  IInv'
<1>0. item[w] \in Items /\ op[w] = "provision"
  BY DEF IInv, Knowledge, Position, InsertDefaults
<1>q. /\ ready' \in [Writers -> Nat]
      /\ queued' \subseteq Writers
      /\ queued \subseteq queued'
      /\ Published'
      /\ pc'[w] = "commit" => w \in queued'
  <2>1. CASE Publish(w)
    BY <2>1, PublishTyped DEF IInv
  <2>2. CASE UNCHANGED <<ready, queued>> /\ pc'[w] = "aborted"
    BY <2>2 DEF IInv, Typed, TypeOK, Published
  <2> QED
    BY <2>1, <2>2 DEF InsertDefaults, Goto, IInv, Typed, TypeOK
<1>l. /\ lock' \in [Items -> Writers \union {None}]
      /\ pc'[w] = "commit" => lock'[item[w]] = w
      /\ pc'[w] \in {"commit", "aborted"}
      /\ \A x \in Writers : item[x] \in Items /\ lock[item[x]] = x => lock'[item[x]] = x
  <2>1. CASE lock' = [lock EXCEPT ![item[w]] = w] /\ pc' = [pc EXCEPT ![w] = "commit"]
    BY <1>0, <2>1, AuditTrailAssumption DEF IInv, Typed, TypeOK, InsertDefaults
  <2>2. CASE lock' = lock /\ pc' = [pc EXCEPT ![w] = "aborted"]
    BY <2>2 DEF IInv, Typed, TypeOK
  <2> QED
    BY <2>1, <2>2 DEF InsertDefaults, Goto
<1>1. Typed'
  <2>1. after' \in [Writers -> Values \union {None}]
    BY DEF IInv, Typed, TypeOK, InsertDefaults
  <2>2. pc' \in [Writers -> {"new", "lock", "read", "save", "insert", "publish",
                           "commit", "committed", "aborted"}]
    <3>1. pc' = [pc EXCEPT ![w] = "commit"] \/ pc' = [pc EXCEPT ![w] = "aborted"]
      BY DEF InsertDefaults, Goto
    <3> QED
      BY <3>1 DEF IInv, Typed, TypeOK
  <2> QED
    BY <1>q, <1>l, <2>1, <2>2 DEF IInv, Typed, TypeOK, InsertDefaults, Goto, workers
<1>2. Knowledge(w)'
  BY <1>0, <1>q, <1>l DEF InsertDefaults, Knowledge, Position, Saving, Committing, Committed
<1>3. ASSUME NEW x \in Writers, x # w PROVE Knowledge(x)'
  <2>1. Undisturbed(x)
    BY <1>q, <1>l, <1>3 DEF IInv, Typed, TypeOK, InsertDefaults, Goto, Undisturbed
  <2> QED
    BY <2>1, StillKnown DEF IInv
<1> QED
  BY <1>1, <1>2, <1>3 DEF IInv

\* A commit replaces what a toggle has read: it held the row since.
LEMMA CommitStep ==
    ASSUME IInv, NEW w \in Writers, Commit(w)
    PROVE  IInv'
<1>0. /\ item[w] \in Items
      /\ lock[item[w]] = w
  BY DEF IInv, Knowledge, Position, Committing, Commit
<1>1. Typed'
  <2>1. tenants' \subseteq Tenants /\ tenants' \intersect deleted = {}
    <3>1. TenantOf[item[w]] \in Tenants
      BY <1>0, AuditTrailAssumption
    <3> QED
      BY <3>1 DEF IInv, Typed, TypeOK, Commit
  <2> QED
    BY <1>0, <2>1 DEF IInv, Typed, TypeOK, Published, Commit, Goto, locals, workers
<1>2. Knowledge(w)'
  BY <1>0 DEF IInv, Typed, TypeOK, Commit, Goto, locals, Knowledge, Position, Saving, Committing, Committed
<1>3. ASSUME NEW x \in Writers, x # w PROVE Knowledge(x)'
  <2>1. Undisturbed(x)
    BY <1>0, <1>3 DEF IInv, Typed, TypeOK, Commit, Goto, locals, Undisturbed
  <2> QED
    BY <2>1, StillKnown DEF IInv
<1> QED
  BY <1>1, <1>2, <1>3 DEF IInv

LEMMA RollbackStep ==
    ASSUME IInv, NEW w \in Writers, Rollback(w)
    PROVE  IInv'
<1>0. item[w] \in Items
  BY DEF IInv, Knowledge, Position, Rollback
<1>1. Typed'
  BY <1>0 DEF IInv, Typed, TypeOK, Published, Rollback, Goto, locals, workers, history
<1>2. Knowledge(w)'
  BY <1>0 DEF IInv, Typed, TypeOK, Rollback, Goto, locals, Knowledge, Position, Saving, Committing, Committed
<1>3. ASSUME NEW x \in Writers, x # w PROVE Knowledge(x)'
  <2>1. Undisturbed(x)
    BY <1>0, <1>3 DEF IInv, Typed, TypeOK, Rollback, Goto, locals, history, Undisturbed
  <2> QED
    BY <2>1, StillKnown DEF IInv
<1> QED
  BY <1>1, <1>2, <1>3 DEF IInv

LEMMA WriteStep ==
    ASSUME IInv, NEW w \in Writers, Write(w)
    PROVE  IInv'
  BY StartStep, LockStep, ReadOldStep, SaveStep, InsertStep, PublishInsertStep,
     InsertDefaultsStep, CommitStep, RollbackStep DEF Write

-----------------------------------------------------------------------------
(* The workers, and the deletion of users and tenants *)

LEMMA EraseUserTyped ==
    ASSUME Typed, NEW u \in Users, EraseUser(u)
    PROVE  Typed'
<1>1. entries' \in Seq(Entry)
  <2>1. entries \in Seq(Entry)
    BY DEF Typed, TypeOK
  <2>2. ASSUME NEW n \in 1 .. Len(entries)
        PROVE  /\ entries[n] \in Entry
               /\ [entries[n] EXCEPT !.actor = None] \in Entry
    <3>1. entries[n] \in Entry
      BY <2>1
    <3> QED
      BY <3>1 DEF Entry
  <2>3. /\ Len(entries) \in Nat
        /\ entries' = [n \in 1 .. Len(entries) |->
                         IF entries[n].actor = u THEN [entries[n] EXCEPT !.actor = None]
                         ELSE entries[n]]
    BY <2>1 DEF EraseUser
  <2>4. entries' \in [1 .. Len(entries) -> Entry]
    BY <2>2, <2>3
  <2> QED
    BY <2>3, <2>4
<1>2. DOMAIN entries' = DOMAIN entries
  BY DEF EraseUser
<1> QED
  BY <1>1, <1>2 DEF Typed, TypeOK, Published, EraseUser, locals, workers, history

LEMMA DeletionTyped ==
    ASSUME Typed, NEW t \in Tenants, CheckDeletion(t) \/ DeleteTenant(t)
    PROVE  Typed'
<1>1. CASE CheckDeletion(t)
  BY <1>1 DEF Typed, TypeOK, Published, CheckDeletion, locals, workers, history
<1>2. CASE DeleteTenant(t)
  <2>1. /\ value' \in [Items -> Values \union {None}]
        /\ purged' \subseteq DOMAIN entries
        /\ tenants' \subseteq Tenants /\ deleted' \subseteq Tenants
        /\ tenants' \intersect deleted' = {}
    BY <1>2 DEF Typed, TypeOK, DeleteTenant
  <2> QED
    BY <1>2, <2>1 DEF Typed, TypeOK, Published, DeleteTenant, locals, workers, history
<1> QED
  BY <1>1, <1>2

\* A tenant is deleted once nobody holds a row of it that exists: what a writer
\* holds then is a row it has yet to make.
LEMMA DeletionStep ==
    ASSUME IInv, NEW t \in Tenants, CheckDeletion(t) \/ DeleteTenant(t)
    PROVE  IInv'
<1>1. Typed'
  BY DeletionTyped DEF IInv
<1>2. ASSUME NEW x \in Writers PROVE Knowledge(x)'
  <2>1. CASE CheckDeletion(t)
    BY <2>1, WritersUnchanged DEF IInv, CheckDeletion, locals, history
  <2>2. CASE DeleteTenant(t)
    <3>1. UNCHANGED <<lock, pc, op, item, before, after, queued, overwritten>>
      BY <2>2 DEF DeleteTenant, locals, history
    <3>2. item[x] \in Items /\ lock[item[x]] = x => value'[item[x]] = value[item[x]]
      BY <2>2, AuditTrailAssumption DEF DeleteTenant
    <3>3. Undisturbed(x)
      BY <3>1, <3>2 DEF Undisturbed
    <3> QED
      BY <3>3, StillKnown DEF IInv
  <2> QED
    BY <2>1, <2>2
<1> QED
  BY <1>1, <1>2 DEF IInv

LEMMA WorkTyped ==
    ASSUME Typed, NEW k \in Workers, Work(k)
    PROVE  Typed'
<1>1. ASSUME NEW w \in Writers, Deliver(k, w) PROVE Typed'
  <2>1. ready[w] \in Nat /\ ready[w] > 0 /\ w \in queued /\ w # None
    BY <1>1, AuditTrailAssumption DEF Typed, TypeOK, Published, Deliver
  <2>2. ready' \in [Writers -> Nat] /\ Published'
    BY <1>1, <2>1 DEF Typed, TypeOK, Published, Deliver, history
  <2> QED
    BY <1>1, <2>1, <2>2
    DEF Typed, TypeOK, Deliver, WorkerAt, database, locals, history
<1>2. CASE FindTenant(k)
  BY <1>2, AuditTrailAssumption DEF Typed, TypeOK, Published, FindTenant, WorkerAt, database, locals, history
<1>3. CASE FindActor(k)
  <2>1. msg[k] \in Writers
    BY <1>3, BusyMessage DEF FindActor
  <2>2. Actor(msg[k]) \in Users \union {None}
    BY <2>1 DEF Actor, Typed, TypeOK
  <2> QED
    BY <1>3, <2>2 DEF Typed, TypeOK, Published, FindActor, WorkerAt, database, locals, history
<1>4. CASE WriteEntry(k)
  <2>1. msg[k] \in Writers
    BY <1>4, BusyMessage DEF WriteEntry
  <2>2. [change |-> msg[k], tenant |-> tenantFound[k], actor |-> actorFound[k]] \in Entry
    BY <2>1 DEF Typed, TypeOK, Entry
  <2>3. entries' \in Seq(Entry)
    <3>1. entries \in Seq(Entry)
      BY DEF Typed, TypeOK
    <3>2. \/ entries' = entries
          \/ entries' = Append(entries, [change |-> msg[k], tenant |-> tenantFound[k],
                                         actor |-> actorFound[k]])
      BY <1>4 DEF WriteEntry
    <3> QED
      BY <2>2, <3>1, <3>2
  <2>4. purged \subseteq DOMAIN entries'
    <3>1. entries \in Seq(Entry)
      BY DEF Typed, TypeOK
    <3>2. DOMAIN entries \subseteq DOMAIN entries'
      BY <1>4, <3>1 DEF WriteEntry
    <3> QED
      BY <3>2 DEF Typed, TypeOK
  <2> QED
    BY <1>4, <2>3, <2>4 DEF Typed, TypeOK, Published, WriteEntry, End, WorkerAt, locals, history
<1>5. CASE BreakTask(k)
  <2>1. msg[k] \in queued
    BY <1>5, BusyMessage DEF BreakTask
  <2> QED
    BY <1>5, <2>1 DEF Typed, TypeOK, Published, BreakTask, End, WorkerAt, database, locals
<1>6. CASE Ack(k)
  BY <1>6 DEF Typed, TypeOK, Published, Ack, WorkerAt, database, locals, history
<1> QED
  BY <1>1, <1>2, <1>3, <1>4, <1>5, <1>6 DEF Work

LEMMA RequeueTyped ==
    ASSUME Typed, NEW k \in Workers, NEW lives \in BOOLEAN, Requeue(k, lives)
    PROVE  Typed'
<1>1. msg[k] \in Writers
  BY BusyMessage DEF Requeue
<1>2. ready' \in [Writers -> Nat] /\ requeues' \in [Writers -> 0 .. MaxFaults]
  BY <1>1, AuditTrailAssumption DEF Typed, TypeOK, Requeue, Requeues, Faults
<1>3. Published'
  BY <1>1, BusyMessage DEF Typed, TypeOK, Published, Requeue
<1>4. /\ at' \in [Workers -> {"idle", "tenant", "actor", "write", "ack"}]
      /\ msg' \in [Workers -> queued \union {None}]
      /\ \A j \in Workers : at'[j] = "idle" <=> msg'[j] = None
      /\ tenantFound' \in [Workers -> Tenants \union {None}]
      /\ actorFound' \in [Workers -> Users \union {None}]
  <2>1. CASE lives
    BY <2>1 DEF Typed, TypeOK, Requeue, workers
  <2>2. CASE ~ lives
    <3>1. /\ at' = [at EXCEPT ![k] = "idle"] /\ msg' = [msg EXCEPT ![k] = None]
          /\ tenantFound' = [tenantFound EXCEPT ![k] = None]
          /\ actorFound' = [actorFound EXCEPT ![k] = None]
      BY <2>2 DEF Requeue, Die, WorkerAt
    <3> QED
      BY <3>1 DEF Typed, TypeOK
  <2> QED
    BY <2>1, <2>2
<1> QED
  BY <1>2, <1>3, <1>4 DEF Typed, TypeOK, Requeue, database, locals

-----------------------------------------------------------------------------
LEMMA NextIInv == IInv /\ [Next]_vars => IInv'
<1> SUFFICES ASSUME IInv, [Next]_vars PROVE IInv'
  OBVIOUS
<1>0. ASSUME Typed',
             UNCHANGED <<value, lock, pc, op, item, before, after, queued, overwritten>>
      PROVE  IInv'
  BY <1>0, WritersUnchanged DEF IInv
<1>1. ASSUME NEW w \in Writers, Write(w) PROVE IInv'
  BY <1>1, WriteStep
<1>2. ASSUME NEW u \in Users, EraseUser(u) PROVE IInv'
  BY <1>0, <1>2, EraseUserTyped DEF IInv, EraseUser, locals, workers, history
<1>3. ASSUME NEW k \in Workers, Work(k) PROVE IInv'
  <2>1. UNCHANGED <<value, lock, pc, op, item, before, after, queued, overwritten>>
    BY <1>3 DEF Work, Deliver, FindTenant, FindActor, WriteEntry, BreakTask, Ack, database,
                locals, history
  <2> QED
    BY <1>0, <1>3, <2>1, WorkTyped DEF IInv
<1>4. ASSUME NEW k \in Workers, NEW lives \in BOOLEAN, Requeue(k, lives) PROVE IInv'
  <2>1. UNCHANGED <<value, lock, pc, op, item, before, after, queued, overwritten>>
    BY <1>4 DEF Requeue, database, locals
  <2> QED
    BY <1>0, <1>4, <2>1, RequeueTyped DEF IInv
<1>5. CASE UNCHANGED vars
  <2>1. Typed'
    BY <1>5 DEF IInv, Typed, TypeOK, Published, vars, database, locals, workers, history
  <2>2. UNCHANGED <<value, lock, pc, op, item, before, after, queued, overwritten>>
    BY <1>5 DEF vars, database, locals, history
  <2> QED
    BY <1>0, <2>1, <2>2
<1> QED
  BY <1>1, <1>2, <1>3, <1>4, <1>5, DeletionStep DEF Next

\* Every reachable state satisfies the inductive invariant.
THEOREM Invariance == Spec => []IInv
  BY InitIInv, NextIInv, PTL DEF Spec

\* The tables of writers, rows, messages and entries keep their types, and a
\* worker holds a message exactly while it is busy.
THEOREM TypeCorrect == Spec => []TypeOK
<1>1. IInv => TypeOK
  BY DEF IInv, Typed
<1> QED
  BY <1>1, Invariance, PTL

\* A change made under the lock of its row, or by a delete, commits only after
\* the broker has taken the record of it; so does an edit in the admin site of a
\* flag, or of a role that it found as it was when it committed.
THEOREM Queued == Spec => []ChangesAreQueued
<1>1. IInv => ChangesAreQueued
  BY DEF IInv, Knowledge, Committed, ChangesAreQueued
<1> QED
  BY <1>1, Invariance, PTL

\* What a toggle reports as the state before it is what its commit replaced.
THEOREM ExactDiffs == Spec => []ToggleDiffIsExact
<1>1. IInv => ToggleDiffIsExact
  BY DEF IInv, Knowledge, Committed, ToggleDiffIsExact
<1> QED
  BY <1>1, Invariance, PTL

-----------------------------------------------------------------------------
(* No message is lost *)

OwnTenant(w) == TenantOf[item[w]]

Entered(w) == \E n \in DOMAIN entries \ purged : entries[n].change = w

\* A worker has the message and has not yet tried to insert its entry.
Pending(w) == \E k \in Workers : msg[k] = w /\ at[k] \notin {"idle", "ack"}

\* What may lose the record of w, once it was taken.
Excused(w) == w \in failed \/ Actor(w) \in erased \/ OwnTenant(w) \in deleted

\* Where a message that the broker took is: it waits, is being worked on, or has
\* ended in an entry or with an excuse.
Tracked(w) == ready[w] > 0 \/ Pending(w) \/ Entered(w) \/ Excused(w)

\* What a worker has found is the tenant and the actor of its message, or none.
Found(k) ==
    /\ at[k] \in {"actor", "write"} => tenantFound[k] \in {None, OwnTenant(msg[k])}
    /\ at[k] = "write" => actorFound[k] \in {None, Actor(msg[k])}

\* An entry is that of a message, and names its tenant or none.
Genuine(n) ==
    /\ entries[n].change \in queued
    /\ entries[n].tenant \in {None, OwnTenant(entries[n].change)}

\* The message of a request that has started, whose row and actor are decided.
Traced ==
    /\ \A w \in queued : pc[w] # "new" /\ Tracked(w)
    /\ \A k \in Workers : Found(k)
    /\ \A n \in DOMAIN entries : Genuine(n)

LEMMA InitTraced == Init => Traced
  BY DEF Init, Traced, Found

\* A step that takes no message, entry, actor, tenant or user back leaves a
\* message where it can be traced.
LEMMA StillTracked ==
    ASSUME NEW w \in Writers, Tracked(w),
           ready[w] > 0 => ready'[w] > 0,
           Pending(w) => Pending(w)',
           Entered(w) => Entered(w)',
           Actor(w)' = Actor(w), OwnTenant(w)' = OwnTenant(w),
           failed \subseteq failed', erased \subseteq erased', deleted \subseteq deleted'
    PROVE  Tracked(w)'
  BY DEF Tracked, Excused

\* A writer changes its own request, and if it adds a message it is its own,
\* which then waits.
LEMMA WriteFacts ==
    ASSUME Typed, NEW w \in Writers, Write(w)
    PROVE  /\ UNCHANGED <<entries, purged, deleted, erased, failed, workers>>
           /\ pc'[w] # "new"
           /\ \/ UNCHANGED <<ready, queued>>
              \/ ready' = [ready EXCEPT ![w] = @ + 1] /\ queued' = queued \union {w}
           /\ pc[w] = "new" => UNCHANGED queued
           /\ pc[w] # "new" => UNCHANGED <<op, item, user>>
           /\ \A x \in Writers \ {w} :
                pc'[x] = pc[x] /\ op'[x] = op[x] /\ item'[x] = item[x] /\ user'[x] = user[x]
<1>1. ASSUME NEW o \in Ops, NEW i \in Items, NEW u \in Users \union {None}, Start(w, o, i, u)
      PROVE  /\ UNCHANGED <<entries, purged, deleted, erased, failed, workers, ready, queued>>
             /\ pc[w] = "new"
             /\ pc'[w] # "new"
             /\ \A x \in Writers \ {w} :
                  pc'[x] = pc[x] /\ op'[x] = op[x] /\ item'[x] = item[x] /\ user'[x] = user[x]
  BY <1>1, AuditTrailAssumption DEF Start, Goto, Typed, TypeOK, database, history
<1>2. CASE Lock(w) \/ ReadOld(w) \/ Commit(w) \/ Rollback(w)
  BY <1>2 DEF Lock, ReadOld, Commit, Rollback, Goto, Typed, TypeOK, database, locals, history
<1>3. ASSUME NEW v \in Values \union {None}, Save(w, v)
      PROVE  /\ UNCHANGED <<entries, purged, deleted, erased, failed, workers, op, item, user>>
             /\ pc[w] # "new"
             /\ pc' = [pc EXCEPT ![w] = "commit"] \/ pc' = [pc EXCEPT ![w] = "aborted"]
             /\ UNCHANGED <<ready, queued>> \/ Publish(w)
  BY <1>3 DEF Save, Goto
<1>4. ASSUME NEW v \in Values, Insert(w, v)
      PROVE  /\ UNCHANGED <<entries, purged, deleted, erased, failed, workers, op, item, user, ready, queued>>
             /\ pc[w] # "new"
             /\ pc' = [pc EXCEPT ![w] = "publish"] \/ pc' = [pc EXCEPT ![w] = "aborted"]
  BY <1>4 DEF Insert, Goto
<1>5. ASSUME NEW v \in Values, InsertDefaults(w, v)
      PROVE  /\ UNCHANGED <<entries, purged, deleted, erased, failed, workers, op, item, user>>
             /\ pc[w] # "new"
             /\ pc' = [pc EXCEPT ![w] = "commit"] \/ pc' = [pc EXCEPT ![w] = "aborted"]
             /\ UNCHANGED <<ready, queued>> \/ Publish(w)
  BY <1>5 DEF InsertDefaults, Goto
<1>6. ASSUME PublishInsert(w)
      PROVE  /\ UNCHANGED <<entries, purged, deleted, erased, failed, workers, op, item, user>>
             /\ pc[w] # "new"
             /\ pc' = [pc EXCEPT ![w] = "committed"]
             /\ UNCHANGED <<ready, queued>> \/ Publish(w)
  BY <1>6 DEF PublishInsert, Goto, database, locals
<1> QED
  BY <1>1, <1>2, <1>3, <1>4, <1>5, <1>6 DEF Write, Publish, Typed, TypeOK

\* A step of the workers or of the surroundings changes no request.
LEMMA QueueKept ==
    ASSUME Typed, Traced, UNCHANGED <<pc, op, item, user, queued>>,
           \A w \in queued : Tracked(w)',
           \A k \in Workers : Found(k)',
           \A n \in DOMAIN entries' : Genuine(n)'
    PROVE  Traced'
  BY DEF Traced

\* Who a change is by, and whose row it changes, is then as it was.
LEMMA SameSubject ==
    ASSUME UNCHANGED <<op, item, user>>
    PROVE  \A w : Actor(w)' = Actor(w) /\ OwnTenant(w)' = OwnTenant(w)
  BY DEF Actor, OwnTenant

\* What a worker found stands while its message and the requests do.
LEMMA StillFound ==
    ASSUME NEW k \in Workers, Found(k), UNCHANGED <<op, item, user>>,
           at'[k] = at[k], msg'[k] = msg[k],
           tenantFound'[k] = tenantFound[k], actorFound'[k] = actorFound[k]
    PROVE  Found(k)'
  BY DEF Found, Actor, OwnTenant

\* The log without new entries, or with other actors.
LEMMA StillGenuine ==
    ASSUME NEW n, Genuine(n), UNCHANGED <<item, queued>>,
           entries'[n].change = entries[n].change, entries'[n].tenant = entries[n].tenant
    PROVE  Genuine(n)'
  BY DEF Genuine, OwnTenant

LEMMA WriteTraced ==
    ASSUME Typed, Traced, NEW w \in Writers, Write(w)
    PROVE  Traced'
<1>1. \A x \in queued : x \in Writers /\ pc[x] # "new" /\ Tracked(x)
  BY DEF Typed, TypeOK, Traced
<1>2. \A x \in queued : Actor(x)' = Actor(x) /\ OwnTenant(x)' = OwnTenant(x)
  BY <1>1, WriteFacts DEF Actor, OwnTenant
<1>3. ASSUME NEW x \in queued PROVE pc'[x] # "new" /\ Tracked(x)'
  <2>1. ready[x] > 0 => ready'[x] > 0
    <3>1. x \in Writers /\ ready \in [Writers -> Nat]
      BY <1>1 DEF Typed, TypeOK
    <3>2. ready' = ready \/ ready' = [ready EXCEPT ![w] = @ + 1]
      BY WriteFacts
    <3> QED
      BY <3>1, <3>2
  <2>2. pc'[x] # "new"
    BY <1>1, WriteFacts
  <2> QED
    BY <1>1, <1>2, <2>1, <2>2, WriteFacts, StillTracked DEF Pending, Entered, workers
<1>4. ASSUME NEW x \in queued', x \notin queued PROVE pc'[x] # "new" /\ Tracked(x)'
  <2>1. x = w /\ ready' = [ready EXCEPT ![w] = @ + 1]
    BY <1>4, WriteFacts
  <2>2. ready'[x] > 0
    BY <2>1 DEF Typed, TypeOK
  <2> QED
    BY <2>1, <2>2, WriteFacts DEF Tracked
<1>5. ASSUME NEW k \in Workers PROVE Found(k)'
  <2>1. at'[k] = at[k] /\ msg'[k] = msg[k] /\ tenantFound'[k] = tenantFound[k]
        /\ actorFound'[k] = actorFound[k]
    BY WriteFacts DEF workers
  <2>2. CASE at[k] \in {"actor", "write"}
    <3>1. PICK m \in queued : m = msg[k]
      BY <2>2, BusyMessage
    <3>2. op'[m] = op[m] /\ item'[m] = item[m] /\ user'[m] = user[m]
      BY <1>1, WriteFacts
    <3> QED
      BY <2>1, <3>1, <3>2 DEF Traced, Found, Actor, OwnTenant
  <2>3. CASE at[k] \notin {"actor", "write"}
    BY <2>1, <2>3 DEF Found
  <2> QED
    BY <2>2, <2>3
<1>6. ASSUME NEW n \in DOMAIN entries' PROVE Genuine(n)'
  <2>1. entries' = entries /\ queued \subseteq queued' /\ n \in DOMAIN entries
    BY WriteFacts
  <2>2. Genuine(n) /\ entries[n].change \in queued
    BY <2>1 DEF Traced, Genuine
  <2> QED
    BY <1>2, <2>1, <2>2 DEF Genuine
<1> QED
  BY <1>3, <1>4, <1>5, <1>6 DEF Traced

LEMMA EraseTraced ==
    ASSUME Typed, Traced, NEW u \in Users, EraseUser(u)
    PROVE  Traced'
<1>0. UNCHANGED <<pc, op, item, user, queued, ready, at, msg, tenantFound, actorFound,
                  purged, deleted, failed>>
  BY DEF EraseUser, locals, workers, history
<1>e. /\ DOMAIN entries' = DOMAIN entries
      /\ \A n \in DOMAIN entries : /\ entries'[n].change = entries[n].change
                                   /\ entries'[n].tenant = entries[n].tenant
  <2>1. ASSUME NEW n \in DOMAIN entries PROVE entries[n] \in Entry
    BY DEF Typed, TypeOK
  <2> QED
    BY <2>1 DEF EraseUser, Entry
<1>1. ASSUME NEW w \in queued PROVE Tracked(w)'
  <2>1. w \in Writers /\ Tracked(w)
    BY DEF Typed, TypeOK, Traced
  <2>2. Entered(w) => Entered(w)'
    BY <1>0, <1>e DEF Entered
  <2> QED
    BY <1>0, <2>1, <2>2, SameSubject, StillTracked DEF EraseUser, Pending
<1>2. \A k \in Workers : Found(k)'
  BY <1>0, StillFound DEF Traced
<1>3. \A n \in DOMAIN entries' : Genuine(n)'
  BY <1>0, <1>e, StillGenuine DEF Traced
<1> QED
  BY <1>0, <1>1, <1>2, <1>3, QueueKept

\* A tenant's deletion takes the entries that name it: those of changes of its own
\* rows.
LEMMA DeletionTraced ==
    ASSUME Typed, Traced, NEW t \in Tenants, CheckDeletion(t) \/ DeleteTenant(t)
    PROVE  Traced'
<1>0. UNCHANGED <<pc, op, item, user, queued, ready, at, msg, tenantFound, actorFound,
                  entries, erased, failed>>
  BY DEF CheckDeletion, DeleteTenant, locals, workers, history
<1>d. /\ deleted \subseteq deleted'
      /\ \/ purged' = purged
         \/ t \in deleted' /\ purged' = purged \union {n \in DOMAIN entries : entries[n].tenant = t}
  BY DEF CheckDeletion, DeleteTenant
<1>1. ASSUME NEW w \in queued PROVE Tracked(w)'
  <2>1. w \in Writers /\ Tracked(w)
    BY DEF Typed, TypeOK, Traced
  <2>2. OwnTenant(w)' = OwnTenant(w) /\ Actor(w)' = Actor(w)
    BY <1>0, SameSubject
  <2>3. CASE Entered(w) => Entered(w)'
    BY <1>0, <1>d, <2>1, <2>2, <2>3, StillTracked DEF Pending
  <2>4. CASE Entered(w) /\ ~ Entered(w)'
    <3>1. PICK n \in DOMAIN entries \ purged : entries[n].change = w
      BY <2>4 DEF Entered
    <3>2. n \in purged' /\ entries[n].tenant = t /\ t \in deleted'
      BY <1>0, <1>d, <2>4, <3>1 DEF Entered
    <3>3. t = OwnTenant(w)
      BY <3>1, <3>2, AuditTrailAssumption DEF Traced, Genuine
    <3> QED
      BY <2>2, <3>2, <3>3 DEF Tracked, Excused
  <2> QED
    BY <2>3, <2>4
<1>2. \A k \in Workers : Found(k)'
  BY <1>0, StillFound DEF Traced
<1>3. \A n \in DOMAIN entries' : Genuine(n)'
  BY <1>0, StillGenuine DEF Traced
<1> QED
  BY <1>0, <1>1, <1>2, <1>3, QueueKept

\* A worker that is handed a message holds it until it has tried to write.
LEMMA DeliverTraced ==
    ASSUME Typed, Traced, NEW k \in Workers, NEW m \in Writers, Deliver(k, m)
    PROVE  Traced'
<1>0. UNCHANGED <<pc, op, item, user, queued, failed, erased, deleted, entries, purged,
                  tenantFound, actorFound>>
  BY DEF Deliver, database, locals, history
<1>1. ASSUME NEW w \in queued PROVE Tracked(w)'
  <2>0. w \in Writers /\ Tracked(w)
    BY DEF Typed, TypeOK, Traced
  <2>1. CASE w = m
    BY <2>1 DEF Deliver, WorkerAt, Typed, TypeOK, Tracked, Pending
  <2>2. CASE w # m
    <3>1. ready'[w] = ready[w] /\ Entered(w)' = Entered(w)
      BY <1>0, <2>0, <2>2 DEF Deliver, Typed, TypeOK, Entered
    <3>2. Pending(w) => Pending(w)'
      BY DEF Deliver, WorkerAt, Typed, TypeOK, Pending
    <3> QED
      BY <1>0, <2>0, <3>1, <3>2, SameSubject, StillTracked
  <2> QED
    BY <2>1, <2>2
<1>2. ASSUME NEW j \in Workers PROVE Found(j)'
  <2>1. CASE j = k
    BY <2>1 DEF Deliver, WorkerAt, Found, Typed, TypeOK
  <2>2. CASE j # k
    BY <1>0, <2>2, StillFound DEF Deliver, WorkerAt, Traced, Typed, TypeOK
  <2> QED
    BY <2>1, <2>2
<1>3. \A n \in DOMAIN entries' : Genuine(n)'
  BY <1>0, StillGenuine DEF Traced
<1> QED
  BY <1>0, <1>1, <1>2, <1>3, QueueKept

LEMMA LookupTraced ==
    ASSUME Typed, Traced, NEW k \in Workers, FindTenant(k) \/ FindActor(k)
    PROVE  Traced'
<1>0. UNCHANGED <<pc, op, item, user, queued, ready, msg, failed, erased, deleted, entries,
                  purged>>
  BY DEF FindTenant, FindActor, database, locals, history
<1>a. /\ at[k] \notin {"idle", "ack"} /\ at'[k] \notin {"idle", "ack"}
      /\ \A j \in Workers \ {k} : /\ at'[j] = at[j]
                                  /\ tenantFound'[j] = tenantFound[j]
                                  /\ actorFound'[j] = actorFound[j]
  BY DEF FindTenant, FindActor, WorkerAt, Typed, TypeOK
<1>1. ASSUME NEW w \in queued PROVE Tracked(w)'
  <2>1. w \in Writers /\ Tracked(w)
    BY DEF Typed, TypeOK, Traced
  <2>2. Pending(w) => Pending(w)'
    BY <1>0, <1>a DEF Pending
  <2> QED
    BY <1>0, <2>1, <2>2, SameSubject, StillTracked DEF Entered
<1>2. ASSUME NEW j \in Workers PROVE Found(j)'
  <2>1. CASE j = k /\ FindTenant(k)
    BY <1>0, <2>1 DEF FindTenant, WorkerAt, Found, OwnTenant, Typed, TypeOK
  <2>2. CASE j = k /\ FindActor(k)
    <3>1. /\ at[k] = "actor" /\ tenantFound'[k] = tenantFound[k]
          /\ actorFound'[k] \in {None, Actor(msg[k])}
      BY <2>2 DEF FindActor, Typed, TypeOK
    <3>2. Actor(msg[k])' = Actor(msg[k]) /\ OwnTenant(msg[k])' = OwnTenant(msg[k])
      BY <1>0 DEF Actor, OwnTenant
    <3> QED
      BY <1>0, <2>2, <3>1, <3>2 DEF Traced, Found
  <2>3. CASE j # k
    BY <1>0, <1>a, <2>3, StillFound DEF Traced
  <2> QED
    BY <2>1, <2>2, <2>3
<1>3. \A n \in DOMAIN entries' : Genuine(n)'
  BY <1>0, StillGenuine DEF Traced
<1> QED
  BY <1>0, <1>1, <1>2, <1>3, QueueKept

\* A worker that gives its message up to Ack has entered or excused it.
LEMMA EndTraced ==
    ASSUME Typed, Traced, NEW k \in Workers, End(k), at[k] \notin {"idle", "ack"},
           UNCHANGED <<pc, op, item, user, queued, ready, msg, erased, deleted, purged>>,
           failed \subseteq failed',
           msg[k] \in queued => Entered(msg[k])' \/ Excused(msg[k])',
           \A n \in DOMAIN entries : n \in DOMAIN entries' /\ entries'[n] = entries[n],
           \A n \in DOMAIN entries' \ DOMAIN entries : Genuine(n)'
    PROVE  Traced'
<1>a. /\ at'[k] = "ack"
      /\ \A j \in Workers \ {k} : /\ at'[j] = at[j]
                                  /\ tenantFound'[j] = tenantFound[j]
                                  /\ actorFound'[j] = actorFound[j]
  BY DEF End, WorkerAt, Typed, TypeOK
<1>1. ASSUME NEW w \in queued PROVE Tracked(w)'
  <2>1. w \in Writers /\ Tracked(w)
    BY DEF Typed, TypeOK, Traced
  <2>2. CASE w = msg[k]
    BY <2>2 DEF Tracked
  <2>3. CASE w # msg[k]
    <3>1. Pending(w) => Pending(w)'
      BY <1>a, <2>3 DEF Pending
    <3>2. Entered(w) => Entered(w)'
      BY DEF Entered
    <3> QED
      BY <2>1, <3>1, <3>2, SameSubject, StillTracked
  <2> QED
    BY <2>2, <2>3
<1>2. ASSUME NEW j \in Workers PROVE Found(j)'
  <2>1. CASE j = k
    BY <1>a, <2>1 DEF Found
  <2>2. CASE j # k
    BY <1>a, <2>2, StillFound DEF Traced
  <2> QED
    BY <2>1, <2>2
<1>3. ASSUME NEW n \in DOMAIN entries' PROVE Genuine(n)'
  BY StillGenuine DEF Traced
<1> QED
  BY <1>1, <1>2, <1>3, QueueKept

LEMMA WriteEntryTraced ==
    ASSUME Typed, Traced, NEW k \in Workers, WriteEntry(k)
    PROVE  Traced'
<1>0. UNCHANGED <<pc, op, item, user, queued, ready, msg, failed, erased, deleted, purged>>
  BY DEF WriteEntry, locals, history
<1>w. PICK w \in queued : w = msg[k]
  BY BusyMessage DEF WriteEntry
<1>e. entries \in Seq(Entry) /\ purged \subseteq DOMAIN entries
  BY DEF Typed, TypeOK
<1>f. tenantFound[k] \in {None, OwnTenant(w)} /\ actorFound[k] \in {None, Actor(w)}
  BY <1>w DEF WriteEntry, Traced, Found
<1>s. Actor(w)' = Actor(w) /\ OwnTenant(w)' = OwnTenant(w)
  BY <1>0, SameSubject
<1>1. CASE tenantFound[k] \in deleted \/ actorFound[k] \in erased
  <2>1. None \notin deleted /\ None \notin erased
    BY AuditTrailAssumption DEF Typed, TypeOK
  <2>2. Excused(w)'
    BY <1>0, <1>1, <1>f, <1>s, <2>1 DEF Excused
  <2>3. entries' = entries
    BY <1>1 DEF WriteEntry
  <2> QED
    BY <1>0, <1>w, <2>2, <2>3, EndTraced DEF WriteEntry
<1>2. CASE ~ (tenantFound[k] \in deleted \/ actorFound[k] \in erased)
  <2>1. PICK e : /\ e = [change |-> w, tenant |-> tenantFound[k], actor |-> actorFound[k]]
                 /\ entries' = Append(entries, e)
    BY <1>2, <1>w DEF WriteEntry
  <2>2. PICK l : /\ DOMAIN entries' = DOMAIN entries \union {l}
                 /\ \A n \in DOMAIN entries : n \in DOMAIN entries' /\ entries'[n] = entries[n]
                 /\ entries'[l] = e
                 /\ l \notin purged
    <3>1. /\ DOMAIN entries' = DOMAIN entries \union {Len(entries) + 1}
          /\ \A n \in DOMAIN entries : n \in DOMAIN entries' /\ entries'[n] = entries[n]
          /\ entries'[Len(entries) + 1] = e
          /\ Len(entries) + 1 \notin purged
      BY <1>e, <2>1
    <3> QED
      BY <3>1
  <2>3. Entered(w)'
    BY <1>0, <2>1, <2>2 DEF Entered
  <2>4. Genuine(l)'
    <3>1. e.change = w /\ e.tenant = tenantFound[k]
      BY <2>1
    <3> QED
      BY <1>0, <1>f, <1>s, <2>2, <3>1 DEF Genuine
  <2>5. \A n \in DOMAIN entries' \ DOMAIN entries : Genuine(n)'
    BY <2>2, <2>4
  <2> QED
    BY <1>0, <1>w, <2>2, <2>3, <2>5, EndTraced DEF WriteEntry
<1> QED
  BY <1>1, <1>2

LEMMA BreakTaskTraced ==
    ASSUME Typed, Traced, NEW k \in Workers, BreakTask(k)
    PROVE  Traced'
<1>1. UNCHANGED <<pc, op, item, user, queued, ready, msg, erased, deleted, entries, purged>>
  BY DEF BreakTask, database, locals
<1>2. failed \subseteq failed' /\ Excused(msg[k])'
  BY <1>1 DEF BreakTask, Excused
<1> QED
  BY <1>1, <1>2, EndTraced DEF BreakTask

LEMMA AckTraced ==
    ASSUME Typed, Traced, NEW k \in Workers, Ack(k)
    PROVE  Traced'
<1>0. UNCHANGED <<pc, op, item, user, queued, ready, failed, erased, deleted, entries,
                  purged, tenantFound, actorFound>>
  BY DEF Ack, database, locals, history
<1>1. ASSUME NEW w \in queued PROVE Tracked(w)'
  <2>1. w \in Writers /\ Tracked(w)
    BY DEF Typed, TypeOK, Traced
  <2>2. Pending(w) => Pending(w)'
    BY DEF Ack, WorkerAt, Typed, TypeOK, Pending
  <2> QED
    BY <1>0, <2>1, <2>2, SameSubject, StillTracked DEF Entered
<1>2. ASSUME NEW j \in Workers PROVE Found(j)'
  <2>1. CASE j = k
    BY <2>1 DEF Ack, WorkerAt, Found, Typed, TypeOK
  <2>2. CASE j # k
    BY <1>0, <2>2, StillFound DEF Ack, WorkerAt, Traced, Typed, TypeOK
  <2> QED
    BY <2>1, <2>2
<1>3. \A n \in DOMAIN entries' : Genuine(n)'
  BY <1>0, StillGenuine DEF Traced
<1> QED
  BY <1>0, <1>1, <1>2, <1>3, QueueKept

LEMMA WorkTraced ==
    ASSUME Typed, Traced, NEW k \in Workers, Work(k)
    PROVE  Traced'
  BY DeliverTraced, LookupTraced, WriteEntryTraced, BreakTaskTraced, AckTraced DEF Work

\* What a dying worker held waits again.
LEMMA RequeueTraced ==
    ASSUME Typed, Traced, NEW k \in Workers, NEW lives \in BOOLEAN, Requeue(k, lives)
    PROVE  Traced'
<1>0. UNCHANGED <<pc, op, item, user, queued, failed, erased, deleted, entries, purged>>
  BY DEF Requeue, database, locals
<1>m. \/ UNCHANGED <<at, msg, tenantFound, actorFound>>
      \/ /\ at' = [at EXCEPT ![k] = "idle"] /\ msg' = [msg EXCEPT ![k] = None]
         /\ tenantFound' = [tenantFound EXCEPT ![k] = None]
         /\ actorFound' = [actorFound EXCEPT ![k] = None]
  BY DEF Requeue, Die, WorkerAt, workers
<1>1. ASSUME NEW w \in queued PROVE Tracked(w)'
  <2>1. w \in Writers /\ Tracked(w)
    BY DEF Typed, TypeOK, Traced
  <2>2. CASE w = msg[k]
    BY <2>1, <2>2 DEF Requeue, Typed, TypeOK, Tracked
  <2>3. CASE w # msg[k]
    <3>1. ready'[w] = ready[w]
      BY <2>1, <2>3 DEF Requeue, Typed, TypeOK
    <3>2. Pending(w) => Pending(w)'
      BY <1>m, <2>3 DEF Pending, Typed, TypeOK
    <3> QED
      BY <1>0, <2>1, <3>1, <3>2, SameSubject, StillTracked DEF Entered
  <2> QED
    BY <2>2, <2>3
<1>2. ASSUME NEW j \in Workers PROVE Found(j)'
  <2>1. CASE UNCHANGED <<at, msg, tenantFound, actorFound>> \/ j # k
    <3>1. /\ at'[j] = at[j] /\ msg'[j] = msg[j]
          /\ tenantFound'[j] = tenantFound[j] /\ actorFound'[j] = actorFound[j]
      BY <1>m, <2>1 DEF Typed, TypeOK
    <3> QED
      BY <1>0, <3>1, StillFound DEF Traced
  <2>2. CASE at' = [at EXCEPT ![k] = "idle"] /\ j = k
    BY <2>2 DEF Found, Typed, TypeOK
  <2> QED
    BY <1>m, <2>1, <2>2
<1>3. \A n \in DOMAIN entries' : Genuine(n)'
  BY <1>0, StillGenuine DEF Traced
<1> QED
  BY <1>0, <1>1, <1>2, <1>3, QueueKept

LEMMA NextTraced == IInv /\ Traced /\ [Next]_vars => Traced'
<1> SUFFICES ASSUME Typed, Traced, [Next]_vars PROVE Traced'
  BY DEF IInv
<1>1. CASE UNCHANGED vars
  BY <1>1, QueueKept DEF vars, database, locals, workers, history, Traced, Tracked,
     Pending, Entered, Excused, Found, Genuine, Actor, OwnTenant
<1> QED
  BY <1>1, WriteTraced, EraseTraced, DeletionTraced, WorkTraced, RequeueTraced DEF Next

\* Whatever the broker took ends in an entry, unless the database failed its task
\* or the actor or the tenant of the change is deleted: losses of workers,
\* rollbacks and tenants not yet committed lose nothing.
THEOREM NothingUnentered == Spec => []QueuedIsEntered
<1>1. Typed /\ Traced => QueuedIsEntered
  <2> SUFFICES ASSUME Typed, Traced, NEW w \in queued, w \notin failed, ready[w] = 0,
                      \A k \in Workers : msg[k] # w
               PROVE  Entered(w) \/ Excused(w)
    BY DEF QueuedIsEntered, Entered, Excused, OwnTenant
  <2>1. ~ Pending(w)
    BY DEF Pending
  <2>2. Tracked(w)
    BY DEF Traced
  <2> QED
    BY <2>1, <2>2 DEF Tracked
<1>2. IInv => Typed
  BY DEF IInv
<1> QED
  BY <1>1, <1>2, InitTraced, NextTraced, Invariance, PTL DEF Spec

-----------------------------------------------------------------------------
(* Counting entries *)

EntriesOf(w) == {n \in DOMAIN entries : entries[n].change = w}

\* Workers that will still try to write the entry of w.
Writing(w) == {k \in Workers : msg[k] = w /\ at[k] # "ack"}

\* Entries made and entries to come are deliveries of a message the broker took.
Balance(w) ==
    Cardinality(EntriesOf(w)) + Cardinality(Writing(w)) + ready[w]
        <= IF w \in queued THEN 1 + requeues[w] ELSE 0

\* A writer whose message was taken has nothing more to publish.
Spent(w) == w \in queued => pc[w] \in {"commit", "committed", "aborted"}

Balanced == \A w \in Writers : Balance(w) /\ Spent(w)

LEMMA InitBalanced == Init => Balanced
<1> SUFFICES ASSUME Init, NEW w \in Writers PROVE Balance(w) /\ Spent(w)
  BY DEF Balanced
<1>1. EntriesOf(w) = {}
  BY DEF Init, EntriesOf
<1>2. Writing(w) = {}
  BY AuditTrailAssumption DEF Init, Writing
<1>3. Cardinality({}) = 0
  BY FS_EmptySet
<1>4. ready[w] = 0 /\ queued = {}
  BY DEF Init
<1> QED
  BY <1>1, <1>2, <1>3, <1>4 DEF Balance, Spent

LEMMA CountsFinite ==
    ASSUME Typed, NEW w \in Writers
    PROVE  /\ IsFiniteSet(EntriesOf(w)) /\ Cardinality(EntriesOf(w)) \in Nat
           /\ IsFiniteSet(Writing(w)) /\ Cardinality(Writing(w)) \in Nat
           /\ ready[w] \in Nat /\ requeues[w] \in Nat
<1>1. IsFiniteSet(EntriesOf(w))
  <2>1. entries \in Seq(Entry)
    BY DEF Typed, TypeOK
  <2>2. DOMAIN entries = 1 .. Len(entries) /\ Len(entries) \in Nat
    BY <2>1
  <2>3. 1 \in Int /\ Len(entries) \in Int
    BY <2>2
  <2>4. IsFiniteSet(1 .. Len(entries))
    BY <2>3, FS_Interval
  <2> QED
    BY <2>2, <2>4, FS_Subset DEF EntriesOf
<1>2. IsFiniteSet(Writing(w))
  BY AuditTrailAssumption, FS_Subset DEF Writing
<1>3. ready[w] \in Nat /\ requeues[w] \in Nat
  BY AuditTrailAssumption DEF Typed, TypeOK
<1> QED
  BY <1>1, <1>2, <1>3, FS_CardinalityType

\* A step that leaves the counts of w as they are.
LEMMA StillBalanced ==
    ASSUME NEW w \in Writers, Balance(w), EntriesOf(w)' = EntriesOf(w),
           Writing(w)' = Writing(w), ready'[w] = ready[w], requeues'[w] = requeues[w],
           w \in queued <=> w \in queued'
    PROVE  Balance(w)'
  BY DEF Balance

\* A writer's step does not publish twice.
LEMMA WriteBalanced ==
    ASSUME IInv, Balanced, NEW w \in Writers, Write(w)
    PROVE  Balanced'
<1>0. Typed
  BY DEF IInv
<1>1. /\ UNCHANGED <<entries, erased, workers>>
      /\ \/ UNCHANGED <<ready, queued>>
         \/ ready' = [ready EXCEPT ![w] = @ + 1] /\ queued' = queued \union {w}
      /\ \A x \in Writers \ {w} : pc'[x] = pc[x]
  BY <1>0, WriteFacts
<1>2. pc[w] \in {"commit", "committed", "aborted"} =>
          UNCHANGED <<ready, queued>> /\ pc'[w] \in {"committed", "aborted"}
  BY <1>0 DEF Write, Start, Lock, ReadOld, Save, Insert, InsertDefaults, PublishInsert,
              Commit, Rollback, Goto, Typed, TypeOK, history
<1>3. requeues' = requeues
  BY DEF Write, Start, Lock, ReadOld, Save, Insert, InsertDefaults, PublishInsert,
         Commit, Rollback, history
<1>4. ~ UNCHANGED <<ready, queued>> => pc'[w] \in {"commit", "committed"}
  BY <1>0 DEF Write, Start, Lock, ReadOld, Save, Insert, InsertDefaults, PublishInsert,
              Commit, Rollback, Goto, Typed, TypeOK, history
<1>5. \A x \in Writers : EntriesOf(x)' = EntriesOf(x) /\ Writing(x)' = Writing(x)
  BY <1>1 DEF EntriesOf, Writing, workers
<1>6. ASSUME NEW x \in Writers PROVE Spent(x)'
  <2>1. CASE x # w
    BY <1>1, <2>1 DEF Balanced, Spent
  <2>2. CASE x = w /\ w \in queued
    BY <1>2, <2>2 DEF Balanced, Spent
  <2>3. CASE x = w /\ w \notin queued
    BY <1>4, <2>3 DEF Spent
  <2> QED
    BY <2>1, <2>2, <2>3
<1>7. ASSUME NEW x \in Writers PROVE Balance(x)'
  <2>1. CASE x # w \/ UNCHANGED <<ready, queued>>
    <3>1. ready'[x] = ready[x] /\ (x \in queued <=> x \in queued')
      BY <1>0, <1>1, <2>1 DEF Typed, TypeOK
    <3> QED
      BY <1>3, <1>5, <3>1, StillBalanced DEF Balanced
  <2>2. CASE x = w /\ ~ UNCHANGED <<ready, queued>>
    <3>1. w \notin queued
      BY <1>2, <2>2 DEF Balanced, Spent
    <3>2. w \in queued' /\ ready'[w] = ready[w] + 1
      BY <1>0, <1>1, <2>2 DEF Typed, TypeOK
    <3>3. Cardinality(EntriesOf(w)) + Cardinality(Writing(w)) + ready[w] <= 0
      BY <3>1 DEF Balanced, Balance
    <3>4. /\ Cardinality(EntriesOf(w)) \in Nat /\ Cardinality(Writing(w)) \in Nat
          /\ ready[w] \in Nat /\ requeues[w] \in Nat
      BY <1>0, CountsFinite
    <3>5. Balance(w)'
      BY <1>3, <1>5, <3>2, <3>3, <3>4 DEF Balance
    <3> QED
      BY <2>2, <3>5
  <2> QED
    BY <2>1, <2>2
<1> QED
  BY <1>6, <1>7 DEF Balanced

\* The deletion of an actor takes no entry away.
LEMMA EraseBalanced ==
    ASSUME Typed, Balanced, NEW u \in Users, EraseUser(u)
    PROVE  Balanced'
<1>1. ASSUME NEW w \in Writers PROVE EntriesOf(w)' = EntriesOf(w)
  <2>1. DOMAIN entries' = DOMAIN entries
    BY DEF EraseUser
  <2>2. ASSUME NEW n \in DOMAIN entries PROVE entries'[n].change = entries[n].change
    <3>1. entries[n] \in Entry
      BY DEF Typed, TypeOK
    <3> QED
      BY <3>1 DEF EraseUser, Entry
  <2> QED
    BY <2>1, <2>2 DEF EntriesOf
<1>2. UNCHANGED <<ready, at, msg, queued, requeues, pc>>
  BY DEF EraseUser, workers, history
<1>3. \A w \in Writers : Writing(w)' = Writing(w)
  BY <1>2 DEF Writing
<1> QED
  BY <1>1, <1>2, <1>3, StillBalanced DEF Balanced, Spent

\* A delivery turns a waiting message into one that is being worked on.
LEMMA DeliverBalanced ==
    ASSUME Typed, Balanced, NEW k \in Workers, NEW w \in Writers, Deliver(k, w)
    PROVE  Balanced'
<1>1. UNCHANGED <<pc, entries, queued, requeues>>
  BY DEF Deliver, database, history
<1>2. /\ ready'[w] = ready[w] - 1 /\ ready[w] > 0
      /\ \A x \in Writers \ {w} : ready'[x] = ready[x]
  BY DEF Deliver, Typed, TypeOK
<1>3. Writing(w)' = Writing(w) \union {k} /\ k \notin Writing(w)
  BY AuditTrailAssumption DEF Deliver, WorkerAt, Writing, Typed, TypeOK
<1>4. \A x \in Writers \ {w} : Writing(x)' = Writing(x)
  BY AuditTrailAssumption DEF Deliver, WorkerAt, Writing, Typed, TypeOK
<1>5. \A x \in Writers : EntriesOf(x)' = EntriesOf(x)
  BY <1>1 DEF EntriesOf
<1>6. Balance(w)'
  <2>1. /\ Cardinality(EntriesOf(w)) \in Nat /\ Cardinality(Writing(w)) \in Nat
        /\ IsFiniteSet(Writing(w)) /\ ready[w] \in Nat /\ requeues[w] \in Nat
    BY CountsFinite
  <2>2. Cardinality(Writing(w)') = Cardinality(Writing(w)) + 1
    BY <1>3, <2>1, FS_AddElement
  <2> QED
    BY <1>1, <1>2, <1>5, <2>1, <2>2 DEF Balanced, Balance
<1>7. ASSUME NEW x \in Writers, x # w PROVE Balance(x)'
  BY <1>1, <1>2, <1>4, <1>5, <1>7, StillBalanced DEF Balanced
<1> QED
  BY <1>1, <1>6, <1>7 DEF Balanced, Spent

LEMMA LookupBalanced ==
    ASSUME Typed, Balanced, NEW k \in Workers, FindTenant(k) \/ FindActor(k) \/ Ack(k)
    PROVE  Balanced'
<1>1. UNCHANGED <<pc, entries, queued, requeues, ready>>
  BY DEF FindTenant, FindActor, Ack, database, history
<1>2. \A x \in Writers : Writing(x)' = Writing(x)
  BY AuditTrailAssumption DEF FindTenant, FindActor, Ack, WorkerAt, Writing, Typed, TypeOK
<1>3. \A x \in Writers : EntriesOf(x)' = EntriesOf(x)
  BY <1>1 DEF EntriesOf
<1> QED
  BY <1>1, <1>2, <1>3, StillBalanced DEF Balanced, Spent

\* The worker that has written an entry, or failed to, will not write again.
LEMMA WriteEntryBalanced ==
    ASSUME Typed, Balanced, NEW k \in Workers, WriteEntry(k)
    PROVE  Balanced'
<1>1. UNCHANGED <<pc, queued, requeues, ready>>
  BY DEF WriteEntry, history
<1>2. PICK w \in Writers : w = msg[k]
  BY BusyMessage DEF WriteEntry
<1>3. Writing(w)' = Writing(w) \ {k} /\ k \in Writing(w)
  BY <1>2 DEF WriteEntry, End, WorkerAt, Writing, Typed, TypeOK
<1>4. \A x \in Writers \ {w} : Writing(x)' = Writing(x)
  BY <1>2 DEF WriteEntry, End, WorkerAt, Writing, Typed, TypeOK
<1>e. entries \in Seq(Entry)
  BY DEF Typed, TypeOK
<1>5. \/ entries' = entries
      \/ \E e : e.change = w /\ entries' = Append(entries, e)
  BY <1>2 DEF WriteEntry
<1>6. /\ \A x \in Writers \ {w} : EntriesOf(x)' = EntriesOf(x)
      /\ EntriesOf(w)' \in {EntriesOf(w), EntriesOf(w) \union {Len(entries) + 1}}
      /\ Len(entries) + 1 \notin EntriesOf(w)
  <2>1. Len(entries) + 1 \notin EntriesOf(w)
    BY <1>e DEF EntriesOf
  <2>2. CASE entries' = entries
    BY <2>1, <2>2 DEF EntriesOf
  <2>3. ASSUME NEW e, e.change = w, entries' = Append(entries, e)
        PROVE  /\ \A x \in Writers \ {w} : EntriesOf(x)' = EntriesOf(x)
               /\ EntriesOf(w)' = EntriesOf(w) \union {Len(entries) + 1}
    <3>1. /\ DOMAIN entries' = DOMAIN entries \union {Len(entries) + 1}
          /\ \A n \in DOMAIN entries : entries'[n] = entries[n]
          /\ entries'[Len(entries) + 1] = e
          /\ Len(entries) + 1 \notin DOMAIN entries
      BY <1>e, <2>3
    <3> QED
      BY <2>3, <3>1 DEF EntriesOf
  <2> QED
    BY <1>5, <2>1, <2>2, <2>3
<1>7. Balance(w)'
  <2>1. /\ Cardinality(EntriesOf(w)) \in Nat /\ Cardinality(Writing(w)) \in Nat
        /\ IsFiniteSet(EntriesOf(w)) /\ IsFiniteSet(Writing(w))
        /\ ready[w] \in Nat /\ requeues[w] \in Nat
    BY CountsFinite
  <2>2. Cardinality(Writing(w)') = Cardinality(Writing(w)) - 1
    BY <1>3, <2>1, FS_RemoveElement
  <2>3. Cardinality(EntriesOf(w)') \in {Cardinality(EntriesOf(w)), Cardinality(EntriesOf(w)) + 1}
    BY <1>6, <2>1, FS_AddElement
  <2> QED
    BY <1>1, <2>1, <2>2, <2>3 DEF Balanced, Balance
<1>8. ASSUME NEW x \in Writers, x # w PROVE Balance(x)'
  BY <1>1, <1>4, <1>6, <1>8, StillBalanced DEF Balanced
<1> QED
  BY <1>1, <1>7, <1>8 DEF Balanced, Spent

\* A worker whose task broke will not write.
LEMMA BreakTaskBalanced ==
    ASSUME Typed, Balanced, NEW k \in Workers, BreakTask(k)
    PROVE  Balanced'
<1>1. UNCHANGED <<pc, entries, queued, requeues, ready>>
  BY DEF BreakTask, database
<1>2. \A x \in Writers : Writing(x)' \subseteq Writing(x)
  BY DEF BreakTask, End, WorkerAt, Writing, Typed, TypeOK
<1>3. \A x \in Writers : EntriesOf(x)' = EntriesOf(x)
  BY <1>1 DEF EntriesOf
<1>4. ASSUME NEW x \in Writers PROVE Balance(x)'
  <2>1. /\ Cardinality(EntriesOf(x)) \in Nat /\ Cardinality(Writing(x)) \in Nat
        /\ IsFiniteSet(Writing(x)) /\ ready[x] \in Nat /\ requeues[x] \in Nat
    BY CountsFinite
  <2>2. Cardinality(Writing(x)') <= Cardinality(Writing(x)) /\ Cardinality(Writing(x)') \in Nat
    BY <1>2, <2>1, FS_Subset, FS_CardinalityType
  <2> QED
    BY <1>1, <1>3, <2>1, <2>2 DEF Balanced, Balance
<1> QED
  BY <1>1, <1>4 DEF Balanced, Spent

\* A message that returns is one more delivery, and is counted.
LEMMA RequeueBalanced ==
    ASSUME Typed, Balanced, NEW k \in Workers, NEW lives \in BOOLEAN, Requeue(k, lives)
    PROVE  Balanced'
<1>1. UNCHANGED <<pc, entries, queued>>
  BY DEF Requeue, database
<1>2. PICK w \in Writers : w = msg[k] /\ w \in queued
  BY BusyMessage DEF Requeue
<1>3. /\ ready'[w] = ready[w] + 1 /\ requeues'[w] = requeues[w] + 1
      /\ \A x \in Writers \ {w} : ready'[x] = ready[x] /\ requeues'[x] = requeues[x]
  BY <1>2 DEF Requeue, Requeues, Typed, TypeOK
<1>4. \/ UNCHANGED <<at, msg>>
      \/ at' = [at EXCEPT ![k] = "idle"] /\ msg' = [msg EXCEPT ![k] = None]
  BY DEF Requeue, Die, WorkerAt, workers
<1>5. /\ Writing(w)' \subseteq Writing(w)
      /\ \A x \in Writers \ {w} : Writing(x)' = Writing(x)
  BY <1>2, <1>4, AuditTrailAssumption DEF Writing, Typed, TypeOK
<1>6. \A x \in Writers : EntriesOf(x)' = EntriesOf(x)
  BY <1>1 DEF EntriesOf
<1>7. Balance(w)'
  <2>1. /\ Cardinality(EntriesOf(w)) \in Nat /\ Cardinality(Writing(w)) \in Nat
        /\ IsFiniteSet(Writing(w)) /\ ready[w] \in Nat /\ requeues[w] \in Nat
    BY CountsFinite
  <2>2. Cardinality(Writing(w)') <= Cardinality(Writing(w)) /\ Cardinality(Writing(w)') \in Nat
    BY <1>5, <2>1, FS_Subset, FS_CardinalityType
  <2> QED
    BY <1>1, <1>2, <1>3, <1>6, <2>1, <2>2 DEF Balanced, Balance
<1>8. ASSUME NEW x \in Writers, x # w PROVE Balance(x)'
  BY <1>1, <1>3, <1>5, <1>6, <1>8, StillBalanced DEF Balanced
<1> QED
  BY <1>1, <1>7, <1>8 DEF Balanced, Spent

LEMMA NextBalanced == IInv /\ Balanced /\ [Next]_vars => Balanced'
<1> SUFFICES ASSUME IInv, Balanced, [Next]_vars PROVE Balanced'
  OBVIOUS
<1>0. Typed
  BY DEF IInv
<1>1. CASE UNCHANGED vars
  BY <1>1, StillBalanced DEF Balanced, Spent, EntriesOf, Writing, vars, database, workers, history
<1>2. ASSUME NEW k \in Workers, Work(k) PROVE Balanced'
  BY <1>0, <1>2, DeliverBalanced, LookupBalanced, WriteEntryBalanced, BreakTaskBalanced DEF Work
<1>3. ASSUME NEW t \in Tenants, CheckDeletion(t) \/ DeleteTenant(t) PROVE Balanced'
  <2>1. UNCHANGED <<pc, entries, queued, requeues, ready, at, msg>>
    BY <1>3 DEF CheckDeletion, DeleteTenant, workers, history
  <2> QED
    BY <2>1, StillBalanced DEF Balanced, Spent, EntriesOf, Writing
<1> QED
  BY <1>0, <1>1, <1>2, <1>3, WriteBalanced, EraseBalanced, RequeueBalanced DEF Next

\* write_audit_log has no idempotency key and is delivered at least once: a
\* change has at most one entry, and one more for each time that its message was
\* put back or delivered twice, however many workers write at once.
THEOREM EntriesCovered == Spec => []EntriesPaidFor
<1>1. IInv /\ Balanced => EntriesPaidFor
  <2> SUFFICES ASSUME IInv, Balanced, NEW w \in Writers
               PROVE  Cardinality(EntriesOf(w)) <= 1 + requeues[w]
    BY DEF EntriesPaidFor, EntriesOf
  <2>1. Typed /\ Balance(w)
    BY DEF IInv, Balanced
  <2>2. /\ Cardinality(EntriesOf(w)) \in Nat /\ Cardinality(Writing(w)) \in Nat
        /\ ready[w] \in Nat /\ requeues[w] \in Nat
    BY <2>1, CountsFinite
  <2> QED
    BY <2>1, <2>2 DEF Balance
<1> QED
  BY <1>1, InitBalanced, NextBalanced, Invariance, PTL DEF Spec

=============================================================================
