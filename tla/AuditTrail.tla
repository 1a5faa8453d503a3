----------------------------- MODULE AuditTrail -----------------------------
(***************************************************************************)
(* From a change of an audited row to its entry in the audit log.          *)
(*                                                                         *)
(* The signals of FeatureFlag, Role and UserTenantRole compare the row     *)
(* before and after a save and queue the difference as a write_audit_log   *)
(* task, at the moment of the save: inside the transaction of the save     *)
(* where there is one, after the commit of the statement otherwise.  A     *)
(* worker looks up the tenant and the actor and inserts the entry.  The    *)
(* task is delivered at least once and never retried: one that ends in an  *)
(* error has lost its record.                                              *)
(*                                                                         *)
(* A writer is one web request or command and makes one change.            *)
(***************************************************************************)
EXTENDS Naturals, Sequences, FiniteSets

CONSTANTS
    Writers,        \* requests and commands that change an audited row
    Workers,        \* Celery worker processes
    Users,          \* users who may be logged in
    Flags, Roles,   \* audited rows, by what they are
    Tenants,
    TenantOf,       \* row -> its tenant
    OldTenants,     \* tenants that exist from the start
    Values,         \* contents of a row
    Ops,            \* the operations of this instance
    MaxFaults,      \* bound on what goes wrong with a message: losses of workers,
                    \* redeliveries and an error of the database
    None            \* no row, no user, no tenant, no writer

Items == Flags \union Roles

ASSUME AuditTrailAssumption ==
    /\ TenantOf \in [Items -> Tenants]
    /\ OldTenants \subseteq Tenants
    /\ None \notin Values \union Users \union Tenants \union Writers
    /\ Ops \subseteq {"toggle", "edit", "create", "provision", "remove"}
    /\ IsFiniteSet(Workers)
    /\ MaxFaults \in Nat

Entry == [change : Writers, tenant : Tenants \union {None}, actor : Users \union {None}]

VARIABLES
    \* the database
    value,          \* row -> its committed contents, or None
    lock,           \* row -> the writer whose transaction holds it, or None
    tenants,        \* committed tenants
    doomed,         \* tenants whose deletion the admin site has let pass
    deleted,        \* tenants whose row was deleted
    erased,         \* users whose row was deleted
    entries,        \* rows ever inserted in AuditLog, in the order of their timestamps
    purged,         \* those that the deletion of their tenant took, by their place
    \* the writers
    pc, op, item, user, before, after,
    \* the broker and the workers
    ready,          \* writer -> copies of its message that wait
    at, msg, tenantFound, actorFound,
    \* history
    queued,         \* writers whose message was accepted by the broker
    failed,         \* writers whose task met an error of the database
    overwritten,    \* writer -> what the commit of its change replaced
    requeues        \* writer -> its messages put back or delivered twice

database == <<value, lock, tenants, doomed, deleted, erased, entries, purged>>
locals == <<op, item, user, before, after>>
workers == <<at, msg, tenantFound, actorFound>>
history == <<queued, failed, overwritten, requeues>>
vars == <<database, pc, locals, ready, workers, history>>

-----------------------------------------------------------------------------
Goto(w, step) == pc' = [pc EXCEPT ![w] = step]

\* AuditContextMiddleware captures the user of the session; the bearer token
\* of an API call is only looked at later, by the view.
Actor(w) == IF op[w] \in {"edit", "provision"} THEN user[w] ELSE None

\* audit_post_save queues nothing when no field differs; in a flag updated_at
\* always does.  audit_post_delete always queues: what it deletes had contents
\* when it was collected.
Differs(w, v) == item[w] \in Flags \/ before[w] # v

\* None is the contents a delete leaves.
Fits(w, v) == (v = None) <=> (op[w] = "remove")

\* A receiver connected twice, without its dispatch_uid, queues its task twice.
PublishTwice(w) ==
    /\ ready' = [ready EXCEPT ![w] = @ + 2]
    /\ queued' = queued \union {w}

Publish(w) ==
    /\ ready' = [ready EXCEPT ![w] = @ + 1]
    /\ queued' = queued \union {w}

-----------------------------------------------------------------------------
(* The writers *)

\* A user calls the API or the admin site, or somebody runs a command.
Start(w, o, i, u) ==
    /\ pc[w] = "new"
    /\ u \notin erased
    /\ \/ o = "toggle" /\ i \in Flags /\ u # None
       \/ o \in {"edit", "remove"} /\ value[i] # None /\ u # None
       \/ o = "create" /\ i \in Roles /\ u # None
       \/ o = "provision" /\ i \in Roles
    /\ IF o = "provision" THEN TenantOf[i] \notin tenants \union deleted
       ELSE TenantOf[i] \in tenants
    /\ op' = [op EXCEPT ![w] = o]
    /\ item' = [item EXCEPT ![w] = i]
    /\ user' = [user EXCEPT ![w] = u]
    /\ Goto(w, CASE o = "toggle" -> "lock"
                 [] o \in {"edit", "remove"} -> "read"
                 [] o \in {"create", "provision"} -> "insert")
    /\ UNCHANGED <<database, before, after, ready, workers, history>>

\* A toggle that reads its flag as an ordinary query.
LockNothing(w) ==
    /\ pc[w] = "lock"
    /\ before' = [before EXCEPT ![w] = value[item[w]]]
    /\ Goto(w, "save")
    /\ UNCHANGED <<database, op, item, user, after, ready, workers, history>>

\* set_feature's update_or_create locks the flag, or waits for the insert of
\* it; pre_save reads the row under that lock.
Lock(w) ==
    /\ pc[w] = "lock"
    /\ lock[item[w]] = None
    /\ lock' = [lock EXCEPT ![item[w]] = w]
    /\ before' = [before EXCEPT ![w] = value[item[w]]]
    /\ Goto(w, "save")
    /\ UNCHANGED <<value, tenants, doomed, deleted, erased, entries, purged, op, item,
                   user, after, ready, workers, history>>

\* The admin site's save and revoke_role's delete: pre_save or the collector
\* reads the row, nothing holds it.  A row that is gone ends the request.
ReadOld(w) ==
    /\ pc[w] = "read"
    /\ before' = [before EXCEPT ![w] = value[item[w]]]
    /\ Goto(w, IF value[item[w]] = None THEN "aborted" ELSE "save")
    /\ UNCHANGED <<database, op, item, user, after, ready, workers, history>>

\* A post_save that swallows the broker's error.
SaveSwallowing(w, v) ==
    /\ pc[w] = "save"
    /\ Fits(w, v)
    /\ lock[item[w]] \in {None, w}
    /\ after' = [after EXCEPT ![w] = v]
    /\ lock' = [lock EXCEPT ![item[w]] = w]
    /\ Goto(w, "commit")
    /\ (Differs(w, v) /\ Publish(w)) \/ UNCHANGED <<ready, queued>>
    /\ UNCHANGED <<value, tenants, doomed, deleted, erased, entries, purged, op, item,
                   user, before, workers, failed, overwritten, requeues>>

\* UPDATE or DELETE inside a transaction, then post_save or post_delete, which
\* a delete of no row at all sends as well.  When the broker refuses the
\* task the transaction rolls back.
Save(w, v) ==
    /\ pc[w] = "save"
    /\ Fits(w, v)
    /\ lock[item[w]] \in {None, w}
    /\ after' = [after EXCEPT ![w] = v]
    /\ \/ /\ lock' = [lock EXCEPT ![item[w]] = w]
          /\ Goto(w, "commit")
          /\ IF Differs(w, v) THEN Publish(w) ELSE UNCHANGED <<ready, queued>>
       \/ /\ Differs(w, v)
          /\ lock' = [lock EXCEPT ![item[w]] = None]
          /\ Goto(w, "aborted")
          /\ UNCHANGED <<ready, queued>>
    /\ UNCHANGED <<value, tenants, doomed, deleted, erased, entries, purged, op, item,
                   user, before, workers, failed, overwritten, requeues>>

\* create_role's insert commits by itself; a taken slug is refused, and so is a
\* tenant that has gone.
Insert(w, v) ==
    /\ pc[w] = "insert"
    /\ op[w] = "create"
    /\ lock[item[w]] = None
    /\ IF value[item[w]] = None /\ TenantOf[item[w]] \in tenants
       THEN /\ value' = [value EXCEPT ![item[w]] = v]
            /\ after' = [after EXCEPT ![w] = v]
            /\ overwritten' = [overwritten EXCEPT ![w] = None]
            /\ Goto(w, "publish")
       ELSE Goto(w, "aborted") /\ UNCHANGED <<value, after, overwritten>>
    /\ UNCHANGED <<lock, tenants, doomed, deleted, erased, entries, purged, op, item,
                   user, before, ready, workers, queued, failed, requeues>>

\* Its post_save: the row stays whether or not the broker takes the task and
\* the process lives to offer it.
PublishInsert(w) ==
    /\ pc[w] = "publish"
    /\ Publish(w) \/ UNCHANGED <<ready, queued>>
    /\ Goto(w, "committed")
    /\ UNCHANGED <<database, locals, workers, failed, overwritten, requeues>>

\* create_tenant: one transaction inserts the tenant and its default roles,
\* whose post_save queues their entries.
InsertDefaults(w, v) ==
    /\ pc[w] = "insert"
    /\ op[w] = "provision"
    /\ lock[item[w]] = None
    /\ IF TenantOf[item[w]] \in tenants \union deleted
       THEN Goto(w, "aborted") /\ UNCHANGED <<lock, after, ready, queued>>
       ELSE /\ after' = [after EXCEPT ![w] = v]
            /\ \/ /\ lock' = [lock EXCEPT ![item[w]] = w]
                  /\ Goto(w, "commit")
                  /\ Publish(w)
               \/ Goto(w, "aborted") /\ UNCHANGED <<lock, ready, queued>>
    /\ UNCHANGED <<value, tenants, doomed, deleted, erased, entries, purged, op, item,
                   user, before, workers, failed, overwritten, requeues>>

\* The foreign key of a row is looked up when its transaction commits: what was
\* written for a tenant that has gone cannot be committed.
Commit(w) ==
    /\ pc[w] = "commit"
    /\ CASE op[w] = "provision" -> TenantOf[item[w]] \notin tenants \union deleted
         [] op[w] = "remove" -> TRUE
         [] OTHER -> TenantOf[item[w]] \in tenants
    /\ value' = [value EXCEPT ![item[w]] = after[w]]
    /\ overwritten' = [overwritten EXCEPT ![w] = value[item[w]]]
    /\ lock' = [lock EXCEPT ![item[w]] = None]
    /\ tenants' = IF op[w] = "provision" THEN tenants \union {TenantOf[item[w]]} ELSE tenants
    /\ Goto(w, "committed")
    /\ UNCHANGED <<doomed, deleted, erased, entries, purged, locals, ready, workers,
                   queued, failed, requeues>>

\* The process dies, or a later statement or the commit itself fails: the row
\* is as it was, the message is not called back.
Rollback(w) ==
    /\ pc[w] \in {"lock", "read", "save", "insert", "commit"}
    /\ lock' = [lock EXCEPT ![item[w]] = IF @ = w THEN None ELSE @]
    /\ Goto(w, "aborted")
    /\ UNCHANGED <<value, tenants, doomed, deleted, erased, entries, purged, locals,
                   ready, workers, history>>

\* GDPRService.hard_delete; entries that name the user are set to NULL.
EraseUser(u) ==
    /\ u \notin erased
    /\ erased' = erased \union {u}
    /\ entries' = [n \in DOMAIN entries |->
                     IF entries[n].actor = u THEN [entries[n] EXCEPT !.actor = None]
                     ELSE entries[n]]
    /\ UNCHANGED <<value, lock, tenants, doomed, deleted, purged, pc, locals, ready,
                   workers, history>>

\* TenantAdmin refuses to delete a tenant that has entries, because nobody may
\* delete an AuditLog there.
CheckDeletion(t) ==
    /\ t \in tenants \ doomed
    /\ \A n \in DOMAIN entries \ purged : entries[n].tenant # t
    /\ doomed' = doomed \union {t}
    /\ UNCHANGED <<value, lock, tenants, deleted, erased, entries, purged, pc, locals,
                   ready, workers, history>>

\* Then it deletes the tenant, its rows, for whose locks it waits, and every
\* entry it has by then.  (The messages of these rows are like a remove's.)
DeleteTenant(t) ==
    /\ t \in doomed \intersect tenants
    /\ \A i \in Items : TenantOf[i] = t /\ value[i] # None => lock[i] = None
    /\ tenants' = tenants \ {t}
    /\ deleted' = deleted \union {t}
    /\ value' = [i \in Items |-> IF TenantOf[i] = t THEN None ELSE value[i]]
    /\ purged' = purged \union {n \in DOMAIN entries : entries[n].tenant = t}
    /\ UNCHANGED <<lock, doomed, erased, entries, pc, locals, ready, workers, history>>

-----------------------------------------------------------------------------
(* write_audit_log *)

WorkerAt(k, step) == at' = [at EXCEPT ![k] = step]

\* A task that has ended keeps nothing but its message.
End(k) ==
    /\ WorkerAt(k, "ack")
    /\ tenantFound' = [tenantFound EXCEPT ![k] = None]
    /\ actorFound' = [actorFound EXCEPT ![k] = None]

\* A worker that dies keeps nothing.
Die(k) ==
    /\ WorkerAt(k, "idle")
    /\ msg' = [msg EXCEPT ![k] = None]
    /\ tenantFound' = [tenantFound EXCEPT ![k] = None]
    /\ actorFound' = [actorFound EXCEPT ![k] = None]

Faults(w) == requeues[w] + (IF w \in failed THEN 1 ELSE 0)

\* A delivery that leaves its message in the queue's count twice over.
DeliverUnguarded(k, w) ==
    /\ at[k] = "idle"
    /\ w \in queued
    /\ ready' = [ready EXCEPT ![w] = @ - 1]
    /\ msg' = [msg EXCEPT ![k] = w]
    /\ WorkerAt(k, "tenant")
    /\ UNCHANGED <<database, pc, locals, tenantFound, actorFound, history>>

Deliver(k, w) ==
    /\ at[k] = "idle"
    /\ ready[w] > 0
    /\ ready' = [ready EXCEPT ![w] = @ - 1]
    /\ msg' = [msg EXCEPT ![k] = w]
    /\ WorkerAt(k, "tenant")
    /\ UNCHANGED <<database, pc, locals, tenantFound, actorFound, history>>

\* A tenant that cannot be found leaves the entry without one.
FindTenant(k) ==
    LET t == TenantOf[item[msg[k]]]
    IN  /\ at[k] = "tenant"
        /\ tenantFound' = [tenantFound EXCEPT ![k] = IF t \in tenants THEN t ELSE None]
        /\ WorkerAt(k, "actor")
        /\ UNCHANGED <<database, pc, locals, ready, msg, actorFound, history>>

FindActor(k) ==
    /\ at[k] = "actor"
    /\ actorFound' = [actorFound EXCEPT ![k] =
                        IF Actor(msg[k]) \in erased THEN None ELSE Actor(msg[k])]
    /\ WorkerAt(k, "write")
    /\ UNCHANGED <<database, pc, locals, ready, msg, tenantFound, history>>

\* The insert fails, and the task with it, when the tenant or the actor has been
\* deleted since it was looked up.
WriteEntry(k) ==
    /\ at[k] = "write"
    /\ IF tenantFound[k] \in deleted \/ actorFound[k] \in erased
       THEN UNCHANGED entries
       ELSE entries' = Append(entries, [change |-> msg[k], tenant |-> tenantFound[k],
                                        actor |-> actorFound[k]])
    /\ End(k)
    /\ UNCHANGED <<value, lock, tenants, doomed, deleted, erased, purged, pc, locals,
                   ready, msg, history>>

\* The database fails one of the task's statements: nothing is inserted, and
\* nothing retries the task.
BreakTask(k) ==
    /\ \/ at[k] \in {"tenant", "write"}
       \/ at[k] = "actor" /\ Actor(msg[k]) # None
    /\ Faults(msg[k]) < MaxFaults
    /\ failed' = failed \union {msg[k]}
    /\ End(k)
    /\ UNCHANGED <<database, pc, locals, ready, msg, queued, overwritten, requeues>>

\* A finished task leaves the broker, failed or not.
Ack(k) ==
    /\ at[k] = "ack"
    /\ WorkerAt(k, "idle")
    /\ msg' = [msg EXCEPT ![k] = None]
    /\ UNCHANGED <<database, pc, locals, ready, tenantFound, actorFound, history>>

Requeues(w) == requeues' = [requeues EXCEPT ![w] = @ + 1]

\* A task acknowledged before it runs: what a dying worker holds is gone.
RequeueDropped(k, lives) ==
    /\ at[k] # "idle"
    /\ Faults(msg[k]) < MaxFaults
    /\ Requeues(msg[k])
    /\ IF lives THEN UNCHANGED workers ELSE Die(k)
    /\ UNCHANGED <<database, pc, locals, ready, queued, failed, overwritten>>

\* The worker dies with the message, or the visibility timeout delivers it
\* once more while the worker goes on.
Requeue(k, lives) ==
    /\ at[k] # "idle"
    /\ Faults(msg[k]) < MaxFaults
    /\ Requeues(msg[k])
    /\ ready' = [ready EXCEPT ![msg[k]] = @ + 1]
    /\ IF lives THEN UNCHANGED workers ELSE Die(k)
    /\ UNCHANGED <<database, pc, locals, queued, failed, overwritten>>

-----------------------------------------------------------------------------
Init ==
    /\ value = [i \in Items |-> None]
    /\ lock = [i \in Items |-> None]
    /\ tenants = OldTenants
    /\ doomed = {}
    /\ deleted = {}
    /\ erased = {}
    /\ entries = <<>>
    /\ purged = {}
    /\ pc = [w \in Writers |-> "new"]
    /\ op = [w \in Writers |-> "none"]
    /\ item = [w \in Writers |-> None]
    /\ user = [w \in Writers |-> None]
    /\ before = [w \in Writers |-> None]
    /\ after = [w \in Writers |-> None]
    /\ ready = [w \in Writers |-> 0]
    /\ at = [k \in Workers |-> "idle"]
    /\ msg = [k \in Workers |-> None]
    /\ tenantFound = [k \in Workers |-> None]
    /\ actorFound = [k \in Workers |-> None]
    /\ queued = {}
    /\ failed = {}
    /\ overwritten = [w \in Writers |-> None]
    /\ requeues = [w \in Writers |-> 0]

Write(w) ==
    \/ \E o \in Ops, i \in Items, u \in Users \union {None} : Start(w, o, i, u)
    \/ Lock(w)
    \/ ReadOld(w)
    \/ \E v \in Values \union {None} : Save(w, v)
    \/ \E v \in Values : Insert(w, v) \/ InsertDefaults(w, v)
    \/ PublishInsert(w)
    \/ Commit(w)
    \/ Rollback(w)

Work(k) ==
    \/ \E w \in Writers : Deliver(k, w)
    \/ FindTenant(k)
    \/ FindActor(k)
    \/ WriteEntry(k)
    \/ BreakTask(k)
    \/ Ack(k)

Next ==
    \/ \E w \in Writers : Write(w)
    \/ \E u \in Users : EraseUser(u)
    \/ \E t \in Tenants : CheckDeletion(t) \/ DeleteTenant(t)
    \/ \E k \in Workers : Work(k) \/ Requeue(k, TRUE) \/ Requeue(k, FALSE)

Spec == Init /\ [][Next]_vars

-----------------------------------------------------------------------------
(* Properties *)

\* Rows, locks, requests and messages hold values of their types; a worker is
\* idle exactly when it has no message; only queued messages are about.
TypeOK ==
    /\ value \in [Items -> Values \union {None}]
    /\ lock \in [Items -> Writers \union {None}]
    /\ tenants \subseteq Tenants /\ doomed \subseteq Tenants /\ deleted \subseteq Tenants
    /\ tenants \intersect deleted = {}
    /\ erased \subseteq Users
    /\ entries \in Seq(Entry)
    /\ purged \subseteq DOMAIN entries
    /\ pc \in [Writers -> {"new", "lock", "read", "save", "insert", "publish",
                           "commit", "committed", "aborted"}]
    /\ op \in [Writers -> Ops \union {"none"}]
    /\ item \in [Writers -> Items \union {None}]
    /\ user \in [Writers -> Users \union {None}]
    /\ before \in [Writers -> Values \union {None}]
    /\ after \in [Writers -> Values \union {None}]
    /\ ready \in [Writers -> Nat]
    /\ at \in [Workers -> {"idle", "tenant", "actor", "write", "ack"}]
    /\ msg \in [Workers -> queued \union {None}]
    /\ \A k \in Workers : at[k] = "idle" <=> msg[k] = None
    /\ tenantFound \in [Workers -> Tenants \union {None}]
    /\ actorFound \in [Workers -> Users \union {None}]
    /\ queued \subseteq Writers
    /\ failed \subseteq queued
    /\ overwritten \in [Writers -> Values \union {None}]
    /\ requeues \in [Writers -> 0 .. MaxFaults]

\* A change made in a transaction under the lock of its row, or by a delete,
\* never commits unless the broker has taken the record of it: post_save runs
\* inside the transaction and its error is the transaction's.  So does any edit of
\* a flag.  An edit of a role in the admin site, whose pre_save locks nothing,
\* commits unrecorded only when it undoes somebody's change it has not seen.
\* (create_role is not among them: its insert has committed by the time that the
\* broker refuses the record of it.)
ChangesAreQueued ==
    \A w \in Writers :
        (/\ pc[w] = "committed"
         /\ \/ op[w] \in {"toggle", "remove", "provision"}
            \/ op[w] = "edit" /\ (item[w] \in Flags \/ before[w] = overwritten[w])
         /\ overwritten[w] # after[w]) => w \in queued

\* "pre- vs post-state": what a toggle reports as the state before it is the
\* state its commit replaced, whoever else writes the flag meanwhile.
ToggleDiffIsExact ==
    \A w \in Writers :
        (pc[w] = "committed" /\ op[w] = "toggle") => before[w] = overwritten[w]

\* A record the broker took is entered in the log, although the task is never
\* retried: worker losses, redeliveries, rollbacks and tenants or actors that the
\* task does not find lose nothing.  Three things may: an error of the database in
\* the task, and the deletion of the record's actor or of its tenant, between
\* lookup and insert or, for the tenant's, with the entries it has.
QueuedIsEntered ==
    \A w \in queued \ failed :
        (ready[w] = 0 /\ \A k \in Workers : msg[k] # w) =>
            \/ \E n \in DOMAIN entries \ purged : entries[n].change = w
            \/ Actor(w) \in erased
            \/ TenantOf[item[w]] \in deleted

\* The task has no idempotency key, so redelivery writes a change twice; but a
\* change has no more entries than the broker has delivered its message: one,
\* and one for each loss or redelivery of it.  Entries that went with their tenant count.
EntriesPaidFor ==
    \A w \in Writers :
        Cardinality({n \in DOMAIN entries : entries[n].change = w}) <= 1 + requeues[w]

=============================================================================
